--------------------------- MODULE ExamplesProofs ---------------------------
(***************************************************************************)
(* What the programs in example/ can rely on, with any libraries, any      *)
(* number of slots and functions besides those that they use, and an X     *)
(* server whose screens, events and connection change at any time.  Each   *)
(* of the programs is an orderly application of the wrangler, so that what *)
(* is proved of Init and exit holds in their processes.                    *)
(***************************************************************************)
EXTENDS Examples, ExitProofs

\* The thread that runs main.
Me == CHOOSE t \in Thread : TRUE

LEMMA MeIsThread == Me \in Thread /\ X11!Main = Me /\ Xcb!Main = Me /\ Xkb!Main = Me
BY ExamplesAssumption DEF ExamplesAssumption, Me, X11!Main, Xcb!Main, Xkb!Main

-----------------------------------------------------------------------------
(* The wrangler inside of each program is the wrangler.                    *)

\* Steps of the wrangler as example_x11.c has them.
LEMMA X11Wrangler ==
  /\ X11!Init => Init
  /\ \A t, m : X11!CallInit(t, m) => CallInit(t, m)
  /\ \A t : X11!InitStep(t) => InitStep(t)
  /\ \A t : X11!Exit(t) => Exit(t)
  /\ X11!ExitStep => ExitStep
<1>1. X11!Init => Init
  BY DEF X11!Init, Init, X11!LinkerInit, LinkerInit
<1>2. ASSUME NEW t, NEW m, X11!CallInit(t, m) PROVE CallInit(t, m)
  BY <1>2 DEF X11!CallInit, CallInit, X11!Goto, Goto, X11!linkerVars, linkerVars,
              X11!sharedVars, sharedVars, X11!exitVars, exitVars, X11!threadVars, threadVars,
              X11!vars, vars
<1>3. ASSUME NEW t, X11!InitStep(t) PROVE InitStep(t)
  <2> USE DEF X11!Goto, Goto, X11!linkerVars, linkerVars, X11!sharedVars, sharedVars,
              X11!exitVars, exitVars, X11!threadVars, threadVars, X11!vars, vars
  <2>1. X11!Mark(t) \/ X11!InstallAtExitHandler(t) \/ X11!TestInstalled(t) =>
          Mark(t) \/ InstallAtExitHandler(t) \/ TestInstalled(t)
    BY DEF X11!Mark, Mark, X11!InstallAtExitHandler, InstallAtExitHandler, X11!TestInstalled,
           TestInstalled, X11!SetResult, SetResult
  <2>2. X11!OpenFound(t) => OpenFound(t)
    BY DEF X11!OpenFound, OpenFound, X11!DlOpen, DlOpen, X11!Candidate, Candidate, X11!Slot,
           Slot, X11!NextSlot, NextSlot, X11!StoreHandle, StoreHandle
  <2>3. X11!OpenMissed(t) => OpenMissed(t)
    BY DEF X11!OpenMissed, OpenMissed, X11!Candidate, Candidate, X11!Slot, Slot
  <2>4. X11!OpenExhausted(t) \/ X11!TestRequired(t) => OpenExhausted(t) \/ TestRequired(t)
    BY DEF X11!OpenExhausted, OpenExhausted, X11!TestRequired, TestRequired, X11!Slot, Slot,
           X11!NextSlot, NextSlot, X11!StoreHandle, StoreHandle, X11!SetResult, SetResult
  <2>5. X11!OpenDone(t) \/ X11!TestOpened(t) => OpenDone(t) \/ TestOpened(t)
    BY DEF X11!OpenDone, OpenDone, X11!TestOpened, TestOpened, X11!SetResult, SetResult
  <2>6. \A h, s : X11!DlSym(h, s) = DlSym(h, s)
    BY DEF X11!DlSym, DlSym, X11!Mapped, Mapped
  <2>7. X11!Fetch(t) => Fetch(t)
    BY <2>6 DEF X11!Fetch, Fetch
  <2>8. X11!FetchDone(t) \/ X11!Return(t) => FetchDone(t) \/ Return(t)
    BY DEF X11!FetchDone, FetchDone, X11!Return, Return, X11!SetResult, SetResult
  <2> QED
    BY <1>3, <2>1, <2>2, <2>3, <2>4, <2>5, <2>7, <2>8 DEF X11!InitStep, InitStep
<1>4. ASSUME NEW t, X11!Exit(t) PROVE Exit(t)
  BY <1>4 DEF X11!Exit, Exit, X11!Goto, Goto, X11!linkerVars, linkerVars, X11!sharedVars,
              sharedVars, X11!exitVars, exitVars, X11!threadVars, threadVars, X11!vars, vars
<1>5. ASSUME X11!ExitStep PROVE ExitStep
  BY <1>5 DEF X11!ExitStep, ExitStep, X11!RunCleanup, RunCleanup, X11!AtExitHandler,
              AtExitHandler, X11!ClearHandle, ClearHandle, X11!EndProcess, EndProcess,
              X11!NextHandler, NextHandler, X11!PopHandler, PopHandler, X11!ClosedSlot,
              ClosedSlot, X11!DlClose, DlClose, X11!linkerVars, linkerVars, X11!sharedVars,
              sharedVars, X11!exitVars, exitVars, X11!threadVars, threadVars, X11!vars, vars
<1> QED
  BY <1>1, <1>2, <1>3, <1>4, <1>5

\* Steps of the wrangler as example_xcb.c has them.
LEMMA XcbWrangler ==
  /\ Xcb!Init => Init
  /\ \A t, m : Xcb!CallInit(t, m) => CallInit(t, m)
  /\ \A t : Xcb!InitStep(t) => InitStep(t)
  /\ \A t : Xcb!Exit(t) => Exit(t)
  /\ Xcb!ExitStep => ExitStep
<1>1. Xcb!Init => Init
  BY DEF Xcb!Init, Init, Xcb!LinkerInit, LinkerInit
<1>2. ASSUME NEW t, NEW m, Xcb!CallInit(t, m) PROVE CallInit(t, m)
  BY <1>2 DEF Xcb!CallInit, CallInit, Xcb!Goto, Goto, Xcb!linkerVars, linkerVars,
              Xcb!sharedVars, sharedVars, Xcb!exitVars, exitVars, Xcb!threadVars, threadVars,
              Xcb!vars, vars
<1>3. ASSUME NEW t, Xcb!InitStep(t) PROVE InitStep(t)
  <2> USE DEF Xcb!Goto, Goto, Xcb!linkerVars, linkerVars, Xcb!sharedVars, sharedVars,
              Xcb!exitVars, exitVars, Xcb!threadVars, threadVars, Xcb!vars, vars
  <2>1. Xcb!Mark(t) \/ Xcb!InstallAtExitHandler(t) \/ Xcb!TestInstalled(t) =>
          Mark(t) \/ InstallAtExitHandler(t) \/ TestInstalled(t)
    BY DEF Xcb!Mark, Mark, Xcb!InstallAtExitHandler, InstallAtExitHandler, Xcb!TestInstalled,
           TestInstalled, Xcb!SetResult, SetResult
  <2>2. Xcb!OpenFound(t) => OpenFound(t)
    BY DEF Xcb!OpenFound, OpenFound, Xcb!DlOpen, DlOpen, Xcb!Candidate, Candidate, Xcb!Slot,
           Slot, Xcb!NextSlot, NextSlot, Xcb!StoreHandle, StoreHandle
  <2>3. Xcb!OpenMissed(t) => OpenMissed(t)
    BY DEF Xcb!OpenMissed, OpenMissed, Xcb!Candidate, Candidate, Xcb!Slot, Slot
  <2>4. Xcb!OpenExhausted(t) \/ Xcb!TestRequired(t) => OpenExhausted(t) \/ TestRequired(t)
    BY DEF Xcb!OpenExhausted, OpenExhausted, Xcb!TestRequired, TestRequired, Xcb!Slot, Slot,
           Xcb!NextSlot, NextSlot, Xcb!StoreHandle, StoreHandle, Xcb!SetResult, SetResult
  <2>5. Xcb!OpenDone(t) \/ Xcb!TestOpened(t) => OpenDone(t) \/ TestOpened(t)
    BY DEF Xcb!OpenDone, OpenDone, Xcb!TestOpened, TestOpened, Xcb!SetResult, SetResult
  <2>6. \A h, s : Xcb!DlSym(h, s) = DlSym(h, s)
    BY DEF Xcb!DlSym, DlSym, Xcb!Mapped, Mapped
  <2>7. Xcb!Fetch(t) => Fetch(t)
    BY <2>6 DEF Xcb!Fetch, Fetch
  <2>8. Xcb!FetchDone(t) \/ Xcb!Return(t) => FetchDone(t) \/ Return(t)
    BY DEF Xcb!FetchDone, FetchDone, Xcb!Return, Return, Xcb!SetResult, SetResult
  <2> QED
    BY <1>3, <2>1, <2>2, <2>3, <2>4, <2>5, <2>7, <2>8 DEF Xcb!InitStep, InitStep
<1>4. ASSUME NEW t, Xcb!Exit(t) PROVE Exit(t)
  BY <1>4 DEF Xcb!Exit, Exit, Xcb!Goto, Goto, Xcb!linkerVars, linkerVars, Xcb!sharedVars,
              sharedVars, Xcb!exitVars, exitVars, Xcb!threadVars, threadVars, Xcb!vars, vars
<1>5. ASSUME Xcb!ExitStep PROVE ExitStep
  BY <1>5 DEF Xcb!ExitStep, ExitStep, Xcb!RunCleanup, RunCleanup, Xcb!AtExitHandler,
              AtExitHandler, Xcb!ClearHandle, ClearHandle, Xcb!EndProcess, EndProcess,
              Xcb!NextHandler, NextHandler, Xcb!PopHandler, PopHandler, Xcb!ClosedSlot,
              ClosedSlot, Xcb!DlClose, DlClose, Xcb!linkerVars, linkerVars, Xcb!sharedVars,
              sharedVars, Xcb!exitVars, exitVars, Xcb!threadVars, threadVars, Xcb!vars, vars
<1> QED
  BY <1>1, <1>2, <1>3, <1>4, <1>5

\* Steps of the wrangler as example_xkbcommon.c has them.
LEMMA XkbWrangler ==
  /\ Xkb!Init => Init
  /\ \A t, m : Xkb!CallInit(t, m) => CallInit(t, m)
  /\ \A t : Xkb!InitStep(t) => InitStep(t)
  /\ \A t : Xkb!Exit(t) => Exit(t)
  /\ Xkb!ExitStep => ExitStep
<1>1. Xkb!Init => Init
  BY DEF Xkb!Init, Init, Xkb!LinkerInit, LinkerInit
<1>2. ASSUME NEW t, NEW m, Xkb!CallInit(t, m) PROVE CallInit(t, m)
  BY <1>2 DEF Xkb!CallInit, CallInit, Xkb!Goto, Goto, Xkb!linkerVars, linkerVars,
              Xkb!sharedVars, sharedVars, Xkb!exitVars, exitVars, Xkb!threadVars, threadVars,
              Xkb!vars, vars
<1>3. ASSUME NEW t, Xkb!InitStep(t) PROVE InitStep(t)
  <2> USE DEF Xkb!Goto, Goto, Xkb!linkerVars, linkerVars, Xkb!sharedVars, sharedVars,
              Xkb!exitVars, exitVars, Xkb!threadVars, threadVars, Xkb!vars, vars
  <2>1. Xkb!Mark(t) \/ Xkb!InstallAtExitHandler(t) \/ Xkb!TestInstalled(t) =>
          Mark(t) \/ InstallAtExitHandler(t) \/ TestInstalled(t)
    BY DEF Xkb!Mark, Mark, Xkb!InstallAtExitHandler, InstallAtExitHandler, Xkb!TestInstalled,
           TestInstalled, Xkb!SetResult, SetResult
  <2>2. Xkb!OpenFound(t) => OpenFound(t)
    BY DEF Xkb!OpenFound, OpenFound, Xkb!DlOpen, DlOpen, Xkb!Candidate, Candidate, Xkb!Slot,
           Slot, Xkb!NextSlot, NextSlot, Xkb!StoreHandle, StoreHandle
  <2>3. Xkb!OpenMissed(t) => OpenMissed(t)
    BY DEF Xkb!OpenMissed, OpenMissed, Xkb!Candidate, Candidate, Xkb!Slot, Slot
  <2>4. Xkb!OpenExhausted(t) \/ Xkb!TestRequired(t) => OpenExhausted(t) \/ TestRequired(t)
    BY DEF Xkb!OpenExhausted, OpenExhausted, Xkb!TestRequired, TestRequired, Xkb!Slot, Slot,
           Xkb!NextSlot, NextSlot, Xkb!StoreHandle, StoreHandle, Xkb!SetResult, SetResult
  <2>5. Xkb!OpenDone(t) \/ Xkb!TestOpened(t) => OpenDone(t) \/ TestOpened(t)
    BY DEF Xkb!OpenDone, OpenDone, Xkb!TestOpened, TestOpened, Xkb!SetResult, SetResult
  <2>6. \A h, s : Xkb!DlSym(h, s) = DlSym(h, s)
    BY DEF Xkb!DlSym, DlSym, Xkb!Mapped, Mapped
  <2>7. Xkb!Fetch(t) => Fetch(t)
    BY <2>6 DEF Xkb!Fetch, Fetch
  <2>8. Xkb!FetchDone(t) \/ Xkb!Return(t) => FetchDone(t) \/ Return(t)
    BY DEF Xkb!FetchDone, FetchDone, Xkb!Return, Return, Xkb!SetResult, SetResult
  <2> QED
    BY <1>3, <2>1, <2>2, <2>3, <2>4, <2>5, <2>7, <2>8 DEF Xkb!InitStep, InitStep
<1>4. ASSUME NEW t, Xkb!Exit(t) PROVE Exit(t)
  BY <1>4 DEF Xkb!Exit, Exit, Xkb!Goto, Goto, Xkb!linkerVars, linkerVars, Xkb!sharedVars,
              sharedVars, Xkb!exitVars, exitVars, Xkb!threadVars, threadVars, Xkb!vars, vars
<1>5. ASSUME Xkb!ExitStep PROVE ExitStep
  BY <1>5 DEF Xkb!ExitStep, ExitStep, Xkb!RunCleanup, RunCleanup, Xkb!AtExitHandler,
              AtExitHandler, Xkb!ClearHandle, ClearHandle, Xkb!EndProcess, EndProcess,
              Xkb!NextHandler, NextHandler, Xkb!PopHandler, PopHandler, Xkb!ClosedSlot,
              ClosedSlot, Xkb!DlClose, DlClose, Xkb!linkerVars, linkerVars, Xkb!sharedVars,
              sharedVars, Xkb!exitVars, exitVars, Xkb!threadVars, threadVars, Xkb!vars, vars
<1> QED
  BY <1>1, <1>2, <1>3, <1>4, <1>5

-----------------------------------------------------------------------------
(* What a step is: of the wrangler, of the program, or of the server.      *)

serverVars == <<server, active, screens, displays, selected, queue>>
localVars == <<display, status, reported, drawn, xcbVars, has>>

WranglerMoves ==
  /\ InitStep(Me) \/ ExitStep \/ (status # NULL /\ Exit(Me))
  /\ UNCHANGED <<program, serverVars, at, localVars>>
Calls(label, m, then) ==
  /\ at = label /\ status = NULL /\ pc[Me] = "idle"
  /\ CallInit(Me, m)
  /\ at' = then
  /\ UNCHANGED <<program, serverVars, localVars>>

X11Turn ==
  /\ UNCHANGED <<program, xcbVars, has>>
  /\ \/ X11!TestsResult \/ X11!AsksForXinerama \/ X11!TestXinerama \/ X11!OpenTestWindow
     \/ X11!IOError(X11!OnDisplay) /\ UNCHANGED drawn
XcbTurn ==
  /\ UNCHANGED <<program, drawn, has>>
  /\ \/ Xcb!ReportsFailure \/ Xcb!Initialised \/ Xcb!ParsesDisplay \/ Xcb!AsksForXinerama
     \/ Xcb!TestsX11 \/ Xcb!Opens \/ Xcb!GetsConnection \/ Xcb!AsksActive \/ Xcb!IsActive
     \/ Xcb!AsksCount \/ Xcb!Counts \/ Xcb!NextScreen \/ Xcb!AsksGeometry \/ Xcb!GetsGeometry
     \/ Xcb!StartsIterating \/ Xcb!Iterates \/ Xcb!Prints \/ Xcb!Closes
     \/ Xcb!IOError({"close"}) /\ UNCHANGED <<num_screens, reply, iter, screen_index, outcome, lines, changed>>
XkbTurn ==
  /\ UNCHANGED <<program, drawn, xcbVars>>
  /\ Xkb!ReportsFailure \/ Xkb!Initialised \/ Xkb!Prints

ServerMoves ==
  \/ program = "example_x11" /\ X11!Others /\ UNCHANGED <<program, xcbVars, has>>
  \/ program = "example_xcb" /\ Xcb!Others /\ UNCHANGED <<program, drawn, has>>

\* The wrangler moves in the same way in all of the programs.
LEMMA WranglerStepIs ==
  /\ X11!WranglerStep /\ UNCHANGED <<program, drawn, xcbVars, has>> => WranglerMoves
  /\ Xcb!WranglerStep /\ UNCHANGED <<program, drawn, xcbVars, has>> => WranglerMoves
  /\ Xkb!WranglerStep /\ UNCHANGED <<program, drawn, xcbVars, has>> => WranglerMoves
BY MeIsThread, X11Wrangler, XcbWrangler, XkbWrangler
DEF X11!WranglerStep, Xcb!WranglerStep, Xkb!WranglerStep, WranglerMoves, serverVars, localVars,
    X11!serverVars, X11!clientVars, X11!windowVars, Xcb!serverVars, Xcb!clientVars, Xkb!serverVars, Xkb!clientVars

\* So do their calls of Init.
LEMMA CallIs ==
  ASSUME NEW label, NEW m, NEW then
  PROVE
  /\ X11!CallsInit(label, m, then) /\ UNCHANGED <<program, drawn, xcbVars, has>> => Calls(label, m, then)
  /\ Xcb!CallsInit(label, m, then) /\ UNCHANGED <<program, drawn, xcbVars, has>> => Calls(label, m, then)
  /\ Xkb!CallsInit(label, m, then) /\ UNCHANGED <<program, drawn, xcbVars, has>> => Calls(label, m, then)
BY MeIsThread, X11Wrangler, XcbWrangler, XkbWrangler
DEF X11!CallsInit, Xcb!CallsInit, Xkb!CallsInit, X11!At, Xcb!At, Xkb!At, Calls, serverVars, localVars,
    X11!serverVars, Xcb!serverVars, Xkb!serverVars

\* The steps of a process that runs example_x11.c.
LEMMA X11Steps ==
  ASSUME program = "example_x11", [Program \/ Others]_examplesVars
  PROVE  \/ WranglerMoves \/ Calls("main", "X11", "initialised") \/ X11Turn \/ ServerMoves
         \/ UNCHANGED <<program, vars, serverVars, at, localVars>>
<1>1. CASE RunsX11 /\ X11!Program
  <2>1. CASE X11!CallsX11Init
    BY <1>1, <2>1, CallIs DEF X11!CallsX11Init, RunsX11
  <2>2. CASE X11!WranglerStep /\ UNCHANGED drawn
    BY <1>1, <2>2, WranglerStepIs DEF RunsX11
  <2> QED
    BY <1>1, <2>1, <2>2 DEF X11!Program, X11Turn, RunsX11
<1>2. CASE RunsX11 /\ X11!Others
  BY <1>2 DEF ServerMoves, RunsX11
<1>3. CASE UNCHANGED examplesVars
  BY <1>3 DEF examplesVars, X11!exampleVars, X11!allVars, X11!vars, vars, X11!serverVars, serverVars, X11!clientVars,
     localVars, X11!linkerVars, linkerVars, X11!sharedVars, sharedVars, X11!exitVars, exitVars, X11!threadVars, threadVars
<1> QED
  BY <1>1, <1>2, <1>3 DEF Program, Others, RunsX11, RunsXcb, RunsXkb

\* The steps of a process that runs example_xcb.c.
LEMMA XcbSteps ==
  ASSUME program = "example_xcb", [Program \/ Others]_examplesVars
  PROVE  \/ WranglerMoves
         \/ Calls("main", "XCB", "xcb_initialised") \/ Calls("init_x11", "X11", "x11_initialised")
         \/ XcbTurn \/ ServerMoves
         \/ UNCHANGED <<program, vars, serverVars, at, localVars>>
<1>1. CASE RunsXcb /\ Xcb!Program
  <2>1. CASE Xcb!CallsXcbInit \/ Xcb!CallsX11Init
    BY <1>1, <2>1, CallIs DEF Xcb!CallsXcbInit, Xcb!CallsX11Init, Xcb!localVars, xcbVars, RunsXcb
  <2>2. CASE Xcb!WranglerStep /\ UNCHANGED <<Xcb!localVars, lines, changed>>
    BY <1>1, <2>2, WranglerStepIs DEF RunsXcb, Xcb!localVars, xcbVars
  <2>3. CASE XcbTurn
    BY <2>3
  <2> HIDE DEF XcbTurn
  <2>4. CASE Xcb!TestXinerama /\ ~Xcb!CallsX11Init
    BY <1>1, <2>4 DEF XcbTurn, RunsXcb, Xcb!TestXinerama
  <2>5. CASE Xcb!ReportsFailure \/ Xcb!Initialised \/ Xcb!ParsesDisplay \/ Xcb!AsksForXinerama
             \/ (Xcb!IOError({"close"}) /\ UNCHANGED <<Xcb!localVars, lines, changed>>)
    BY <1>1, <2>5 DEF XcbTurn, RunsXcb, Xcb!localVars
  <2> QED
    BY <1>1, <2>1, <2>2, <2>4, <2>5 DEF Xcb!Program, Xcb!TestXinerama
<1>2. CASE RunsXcb /\ Xcb!Others
  BY <1>2 DEF ServerMoves, RunsXcb
<1>3. CASE UNCHANGED examplesVars
  BY <1>3 DEF examplesVars, X11!exampleVars, X11!allVars, X11!vars, vars, X11!serverVars, serverVars, X11!clientVars,
     localVars, X11!linkerVars, linkerVars, X11!sharedVars, sharedVars, X11!exitVars, exitVars, X11!threadVars, threadVars
<1> QED
  BY <1>1, <1>2, <1>3 DEF Program, Others, RunsX11, RunsXcb, RunsXkb

\* The steps of a process that runs example_xkbcommon.c.
LEMMA XkbSteps ==
  ASSUME program = "example_xkbcommon", [Program \/ Others]_examplesVars
  PROVE  \/ WranglerMoves \/ Calls("main", "XKBCommon", "initialised") \/ XkbTurn
         \/ UNCHANGED <<program, vars, serverVars, at, localVars>>
<1>1. CASE RunsXkb /\ Xkb!Program
  <2>1. CASE Xkb!CallsXkbcommonInit
    BY <1>1, <2>1, CallIs DEF Xkb!CallsXkbcommonInit, RunsXkb
  <2>2. CASE Xkb!WranglerStep /\ UNCHANGED has
    BY <1>1, <2>2, WranglerStepIs DEF RunsXkb
  <2> QED
    BY <1>1, <2>1, <2>2 DEF Xkb!Program, XkbTurn, RunsXkb
<1>3. CASE UNCHANGED examplesVars
  BY <1>3 DEF examplesVars, X11!exampleVars, X11!allVars, X11!vars, vars, X11!serverVars, serverVars, X11!clientVars,
     localVars, X11!linkerVars, linkerVars, X11!sharedVars, sharedVars, X11!exitVars, exitVars, X11!threadVars, threadVars
<1> QED
  BY <1>1, <1>3 DEF Program, Others, RunsX11, RunsXcb, RunsXkb

-----------------------------------------------------------------------------
(* The processes are orderly applications.                                 *)

\* A turn of a program finds its thread outside Init and the process running,
\* and leaves the wrangler alone.
LEMMA TurnFrame ==
  ASSUME X11Turn \/ XcbTurn \/ XkbTurn
  PROVE  UNCHANGED <<program, vars>> /\ status = NULL /\ pc[Me] = "idle"
<1> USE DEF vars, linkerVars, sharedVars, exitVars, threadVars
<1>1. CASE X11Turn
  <2> USE DEF X11!vars, X11!linkerVars, X11!sharedVars, X11!exitVars, X11!threadVars,
              X11!At, X11!Goes, X11!Ends, X11!On, X11!Calling, X11!OpensDisplay, X11!ClosesDisplay
  <2>1. CASE X11!TestsResult \/ X11!AsksForXinerama
    BY <1>1, <2>1, MeIsThread DEF X11Turn, X11!TestsResult, X11!AsksForXinerama
  <2>2. CASE X11!TestXinerama
    BY <1>1, <2>2, MeIsThread DEF X11Turn, X11!TestXinerama, X11!OpensForTest, X11!IsActive,
       X11!ClosesInactive, X11!QueriesScreens, X11!FreesScreens, X11!ClosesTest
  <2>3. CASE X11!OpenTestWindow
    BY <1>1, <2>3, MeIsThread DEF X11Turn, X11!OpenTestWindow, X11!OpensForWindow,
       X11!ChecksDisplay, X11!CreatesWindow, X11!SelectsInput, X11!MapsWindow, X11!NextEvent,
       X11!Fills, X11!Draws, X11!ClosesWindow
  <2>4. CASE X11!IOError(X11!OnDisplay)
    BY <1>1, <2>4, MeIsThread DEF X11Turn, X11!IOError
  <2> QED
    BY <1>1, <2>1, <2>2, <2>3, <2>4 DEF X11Turn
<1>2. CASE XcbTurn
  <2> USE DEF Xcb!vars, Xcb!linkerVars, Xcb!sharedVars, Xcb!exitVars, Xcb!threadVars,
              Xcb!At, Xcb!Goes, Xcb!Ends, Xcb!GoesOn, Xcb!On, Xcb!Leaves, Xcb!Calling,
              Xcb!OpensDisplay, Xcb!ClosesDisplay
  <2>1. CASE Xcb!ReportsFailure \/ Xcb!Initialised \/ Xcb!ParsesDisplay \/ Xcb!AsksForXinerama
    BY <1>2, <2>1, MeIsThread
    DEF XcbTurn, Xcb!ReportsFailure, Xcb!Initialised, Xcb!ParsesDisplay, Xcb!AsksForXinerama
  <2>2. CASE Xcb!TestsX11 \/ Xcb!Opens \/ Xcb!GetsConnection \/ Xcb!AsksActive \/ Xcb!IsActive
    BY <1>2, <2>2, MeIsThread
    DEF XcbTurn, Xcb!TestsX11, Xcb!Opens, Xcb!GetsConnection, Xcb!AsksActive, Xcb!IsActive
  <2>3. CASE Xcb!AsksCount \/ Xcb!Counts \/ Xcb!NextScreen \/ Xcb!AsksGeometry \/ Xcb!GetsGeometry
    BY <1>2, <2>3, MeIsThread
    DEF XcbTurn, Xcb!AsksCount, Xcb!Counts, Xcb!NextScreen, Xcb!AsksGeometry, Xcb!GetsGeometry
  <2>4. CASE Xcb!StartsIterating \/ Xcb!Iterates \/ Xcb!Prints \/ Xcb!Closes
    BY <1>2, <2>4, MeIsThread
    DEF XcbTurn, Xcb!StartsIterating, Xcb!Iterates, Xcb!Prints, Xcb!Closes
  <2>5. CASE Xcb!IOError({"close"})
    BY <1>2, <2>5, MeIsThread DEF XcbTurn, Xcb!IOError
  <2> QED
    BY <1>2, <2>1, <2>2, <2>3, <2>4, <2>5 DEF XcbTurn
<1>3. CASE XkbTurn
  BY <1>3, MeIsThread
  DEF XkbTurn, Xkb!ReportsFailure, Xkb!Initialised, Xkb!Prints, Xkb!At, Xkb!Goes, Xkb!Ends,
      Xkb!vars, Xkb!linkerVars, Xkb!sharedVars, Xkb!exitVars, Xkb!threadVars
<1> QED
  BY <1>1, <1>2, <1>3

\* The server moves while the program runs, and leaves all but itself alone.
LEMMA ServerFrame ==
  ASSUME ServerMoves
  PROVE  /\ UNCHANGED <<program, vars, at, display, status, reported, has>>
         /\ UNCHANGED <<num_screens, reply, iter, screen_index, outcome, lines>>
         /\ status = NULL /\ displays' = displays /\ active' = active
BY DEF ServerMoves, X11!Others, Xcb!Others, X11!Surroundings, Xcb!Surroundings,
       X11!ServerStep, Xcb!ServerStep, X11!clientVars, Xcb!clientVars, Xcb!localVars, xcbVars,
       X11!ScreenAdded, X11!ScreenRemoved, X11!Event, X11!Arrives, X11!Lost,
       Xcb!ScreenAdded, Xcb!ScreenRemoved, Xcb!Event, Xcb!Arrives, Xcb!Lost,
       X11!vars, X11!linkerVars, X11!sharedVars, X11!exitVars, X11!threadVars,
       Xcb!vars, Xcb!linkerVars, Xcb!sharedVars, Xcb!exitVars, Xcb!threadVars,
       vars, linkerVars, sharedVars, exitVars, threadVars

\* No other thread ever does anything, and while main has not ended the process
\* runs; the exit handlers run after it.
Lone ==
  /\ \A t \in Thread \ {Me} : pc[t] = "idle"
  /\ status = NULL => phase = "running"
  /\ Inside(Me) => phase = "running" /\ status = NULL
  /\ closing # NULL => phase = "exiting"

Programs == {"example_x11", "example_xcb", "example_xkbcommon"}

\* What the steps are to the wrangler.
LEMMA AnyStep ==
  ASSUME program \in Programs, [Program \/ Others]_examplesVars
  PROVE  /\ program' = program
         /\ \/ WranglerMoves
            \/ \E label, m, then : Calls(label, m, then) /\ m \in Module
            \/ /\ UNCHANGED vars
               /\ status' = status \/ (status = NULL /\ pc[Me] = "idle")
<1>0. {"X11", "XCB", "XKBCommon"} \subseteq Module
  BY ExamplesAssumption DEF ExamplesAssumption
<1>1. CASE program = "example_x11"
  BY <1>0, <1>1, X11Steps, TurnFrame, ServerFrame DEF Calls, WranglerMoves, localVars
<1>2. CASE program = "example_xcb"
  BY <1>0, <1>2, XcbSteps, TurnFrame, ServerFrame DEF Calls, WranglerMoves, localVars
<1>3. CASE program = "example_xkbcommon"
  BY <1>0, <1>3, XkbSteps, TurnFrame, ServerFrame DEF Calls, WranglerMoves, localVars
<1>4. program \in {"example_x11", "example_xcb", "example_xkbcommon"}
  BY DEF Programs
<1> QED
  BY <1>1, <1>2, <1>3, <1>4

\* Each of them is a step of an orderly application.
LEMMA OrderlyStep ==
  ASSUME TypeInv, Lone, program \in Programs, [Program \/ Others]_examplesVars
  PROVE  [OrderlyNext]_vars
<1>0. phase # "exiting" => ~ExitStep
  BY DEF Lone, ExitStep, RunCleanup, AtExitHandler, ClearHandle, EndProcess
<1>1. CASE InitStep(Me)
  <2>1. Inside(Me)
    BY <1>1, MeIsThread, InitFrame
  <2> QED
    BY <1>1, <2>1, MeIsThread DEF OrderlyNext, Lone
<1>2. CASE ExitStep
  BY <1>0, <1>2 DEF OrderlyNext
<1>3. CASE Exit(Me)
  <2>1. Quiet /\ phase = "running"
    BY <1>3 DEF Exit, Lone, Quiet, Inside
  <2> QED
    BY <1>3, <2>1, MeIsThread DEF OrderlyNext, SerialClient
<1>4. ASSUME NEW label, NEW m \in Module, NEW then, Calls(label, m, then) PROVE OrderlyNext
  <2>1. Quiet /\ phase = "running"
    BY <1>4 DEF Calls, Lone, Quiet, Inside
  <2> QED
    BY <1>4, <2>1, MeIsThread DEF OrderlyNext, SerialClient, Calls
<1> QED
  BY AnyStep, <1>1, <1>2, <1>3, <1>4 DEF WranglerMoves

\* Nobody else begins to move.
LEMMA LoneNext ==
  ASSUME TypeInv, Lone, program \in Programs, [Program \/ Others]_examplesVars
  PROVE  Lone'
<1>0. pc \in [Thread -> Labels] /\ Me \in Thread
  BY MeIsThread DEF TypeInv, TypeOK
<1>1. CASE InitStep(Me) /\ status' = status
  <2>1. Inside(Me) /\ phase' = phase /\ \A u \in Thread \ {Me} : pc'[u] = pc[u]
    BY <1>0, <1>1, InitFrame
  <2>2. closing' = closing
    BY <1>1 DEF InitStep, Mark, InstallAtExitHandler, TestInstalled, OpenFound, OpenMissed,
       OpenExhausted, TestRequired, OpenDone, TestOpened, Fetch, FetchDone, Return, exitVars
  <2> QED
    BY <1>1, <2>1, <2>2 DEF Lone
<1>2. CASE ExitStep /\ status' = status
  <2>1. phase = "exiting" /\ phase' # "running"
    BY <1>2 DEF ExitStep, Lone, RunCleanup, AtExitHandler, ClearHandle, EndProcess
  <2>2. UNCHANGED pc /\ (closing' # NULL => phase' = "exiting")
    BY <1>2, <2>1 DEF ExitStep, RunCleanup, AtExitHandler, ClearHandle, EndProcess, threadVars
  <2> QED
    BY <1>2, <2>1, <2>2 DEF Lone, Inside
<1>3. CASE Exit(Me) /\ status # NULL /\ status' = status
  <2>1. /\ \A u \in Thread \ {Me} : pc'[u] = pc[u]
        /\ pc'[Me] = "exit" /\ phase' = "exiting" /\ closing' = closing
    BY <1>0, <1>3 DEF Exit, Goto
  <2> QED
    BY <1>3, <2>1 DEF Lone, Inside
<1>4. ASSUME NEW label, NEW m \in Module, NEW then, Calls(label, m, then) PROVE Lone'
  <2>1. /\ \A u \in Thread \ {Me} : pc'[u] = pc[u]
        /\ UNCHANGED <<status, phase, closing>> /\ status = NULL
    BY <1>0, <1>4 DEF Calls, CallInit, Goto, exitVars, localVars
  <2> QED
    BY <2>1 DEF Lone
<1>5. CASE UNCHANGED vars /\ (status' = status \/ (status = NULL /\ pc[Me] = "idle"))
  BY <1>5 DEF Lone, vars, exitVars, threadVars, Inside
<1> QED
  BY AnyStep, <1>1, <1>2, <1>3, <1>4, <1>5 DEF WranglerMoves, localVars

\* Where the processes start.
LEMMA ExamplesStart ==
  ASSUME ExamplesInit
  PROVE  Init /\ program \in Programs /\ Lone /\ at = "main" /\ status = NULL
         /\ displays = <<>> /\ queue = <<>> /\ selected = FALSE /\ server \in Servers
         /\ display = NULL /\ reported = NULL
<1>1. /\ Init /\ program \in Programs /\ at = "main" /\ status = NULL
      /\ displays = <<>> /\ queue = <<>> /\ selected = FALSE /\ server \in Servers
      /\ display = NULL /\ reported = NULL
  BY X11Wrangler, XcbWrangler, XkbWrangler
  DEF ExamplesInit, X11!ClientInit, Xcb!ClientInit, Xkb!ClientInit, Programs,
      X11!XServerInit, Xcb!XServerInit, Xkb!XServerInit
<1>2. Lone
  BY <1>1, MeIsThread DEF Init, Lone, Inside
<1> QED
  BY <1>1, <1>2

\* The examples call Init one after the other, return from main after that, and
\* give atexit nothing of their own: each of them is an orderly application.
THEOREM ExamplesAreOrderly == ExamplesSpec => OrderlySpec /\ [](program \in Programs /\ Lone)
<1>1. ExamplesInit => Init /\ TypeInv /\ program \in Programs /\ Lone
  BY ExamplesStart, TypeInit
<1>2. TypeInv /\ program \in Programs /\ Lone /\ [Program \/ Others]_examplesVars =>
        [OrderlyNext]_vars /\ (TypeInv /\ program \in Programs /\ Lone)'
  <2> SUFFICES ASSUME TypeInv, program \in Programs, Lone, [Program \/ Others]_examplesVars
               PROVE  [OrderlyNext]_vars /\ (TypeInv /\ program \in Programs /\ Lone)'
    OBVIOUS
  <2>1. [OrderlyNext]_vars
    BY OrderlyStep
  <2>2. [OrderlyNext]_vars => [SerialNext]_vars
    BY DEF OrderlyNext, SerialNext
  <2>3. [SerialNext]_vars => [Next]_vars
    BY DEF SerialNext, SerialClient, Next
  <2> QED
    BY <2>1, <2>2, <2>3, TypeNext, LoneNext, AnyStep
<1> QED
  BY <1>1, <1>2, PTL DEF ExamplesSpec, OrderlySpec

-----------------------------------------------------------------------------
(* What main is told.                                                      *)

\* main is inside Init of m, or was told what it returned.
Awaits(m) == IF Inside(Me) THEN mod[Me] = m ELSE answer[Me][m] # NULL

\* That is so as long as Init goes on, and begins where it is called.
LEMMA AwaitsNext ==
  ASSUME TypeInv, NEW m \in Module
  PROVE  /\ WranglerMoves /\ Awaits(m) => Awaits(m)'
         /\ \A label, then : Calls(label, m, then) => Awaits(m)'
         /\ UNCHANGED vars /\ Awaits(m) => Awaits(m)'
<1>0. /\ pc \in [Thread -> Labels] /\ Me \in Thread /\ mod \in [Thread -> Module \cup {NULL}]
      /\ answer \in [Thread -> [Module -> Codes \cup {NULL}]] /\ result \in [Module -> Codes]
      /\ NULL \notin Codes /\ NULL \notin Module
  BY MeIsThread, WranglerAssumption DEF TypeInv, TypeOK, WranglerAssumption
<1>1. ASSUME InitStep(Me), Awaits(m) PROVE Awaits(m)'
  <2>1. Inside(Me) /\ mod[Me] = m
    BY <1>0, <1>1, InitFrame DEF Awaits
  <2>2. CASE Return(Me)
    <3>1. answer'[Me][m] = result[m] /\ pc'[Me] = "idle"
      BY <1>0, <2>1, <2>2 DEF Return, Goto
    <3> QED
      BY <1>0, <3>1 DEF Awaits, Inside
  <2>3. CASE ~Return(Me)
    <3>1. mod'[Me] = mod[Me]
      BY <1>0, <1>1, <2>3, InitFrame
    <3>2. pc'[Me] \notin {"idle", "exit"}
      BY <1>0, <1>1, <2>1, <2>3 DEF InitStep, Mark, InstallAtExitHandler, TestInstalled, OpenFound, OpenMissed,
       OpenExhausted, TestRequired, OpenDone, TestOpened, Fetch, FetchDone, Goto, StoreHandle, Inside
    <3> QED
      BY <2>1, <3>1, <3>2 DEF Awaits, Inside
  <2> QED
    BY <2>2, <2>3
<1>2. ASSUME ExitStep, Awaits(m) PROVE Awaits(m)'
  BY <1>2 DEF ExitStep, RunCleanup, AtExitHandler, ClearHandle, EndProcess, threadVars, Awaits, Inside
<1>3. ASSUME Exit(Me), Awaits(m) PROVE Awaits(m)'
  BY <1>0, <1>3 DEF Exit, Goto, Awaits, Inside
<1>4. ASSUME NEW label, NEW then, Calls(label, m, then) PROVE Awaits(m)'
  BY <1>0, <1>4 DEF Calls, CallInit, Goto, Awaits, Inside
<1>5. ASSUME UNCHANGED vars, Awaits(m) PROVE Awaits(m)'
  BY <1>5 DEF vars, threadVars, Awaits, Inside
<1> QED
  BY <1>1, <1>2, <1>3, <1>4, <1>5 DEF WranglerMoves

\* What main was told of another module stays.
LEMMA AnswerStays ==
  ASSUME TypeInv, NEW m \in Module, Inside(Me) => mod[Me] # m
  PROVE  /\ WranglerMoves => answer'[Me][m] = answer[Me][m]
         /\ \A label, n, then : Calls(label, n, then) => answer'[Me][m] = answer[Me][m]
         /\ UNCHANGED vars => answer'[Me][m] = answer[Me][m]
<1>1. InitStep(Me) => answer'[Me][m] = answer[Me][m]
  BY MeIsThread, InitFrame
<1>2. ExitStep => answer' = answer
  BY DEF ExitStep, RunCleanup, AtExitHandler, ClearHandle, EndProcess, threadVars
<1>3. Exit(Me) => answer' = answer
  BY DEF Exit
<1> QED
  BY <1>1, <1>2, <1>3 DEF WranglerMoves, Calls, CallInit, vars, threadVars

\* Only Init and exit move the thread of main.
LEMMA InsideNext ==
  ASSUME TypeInv
  PROVE  /\ WranglerMoves /\ Inside(Me)' => Inside(Me)
         /\ UNCHANGED vars => Inside(Me)' = Inside(Me)
<1>0. pc \in [Thread -> Labels] /\ Me \in Thread
  BY MeIsThread DEF TypeInv, TypeOK
<1>1. InitStep(Me) => Inside(Me)
  BY <1>0, InitFrame
<1>2. ExitStep => pc' = pc
  BY DEF ExitStep, RunCleanup, AtExitHandler, ClearHandle, EndProcess, threadVars
<1>3. Exit(Me) => pc'[Me] = "exit"
  BY <1>0 DEF Exit, Goto
<1> QED
  BY <1>1, <1>2, <1>3 DEF WranglerMoves, Inside, vars, threadVars

-----------------------------------------------------------------------------
(* example_x11.c                                                           *)

\* The labels at which the display was opened by testXinerama, by
\* openTestWindow, and by either.
OfTest == {"is_active", "close_inactive", "query", "free", "close_test"}
OfWindow == {"create", "select", "map", "next", "fill", "draw", "close_window"}
WithDisplay == OfTest \cup OfWindow \cup {"check"}
X11Labels == WithDisplay \cup {"main", "initialised", "has_xinerama", "open_test", "open_window"}

\* At a label at which the display is handed over it is open.
LEMMA X11Hands ==
  ASSUME NEW l \in WithDisplay \ {"check", "free"}, X11!Calling(l)
  PROVE  at = l /\ X11!Open(display)
BY DEF X11!Calling, X11!At, X11!BadCall, X11!OnDisplay, X11!Calls, WithDisplay, OfTest, OfWindow

\* Where main is, and what it was told before.
X11Where ==
  /\ at \in X11Labels
  /\ Inside(Me) => at = "initialised"
  /\ at = "initialised" => Awaits("X11")
  /\ at \notin {"main", "initialised"} => answer[Me]["X11"] = "SUCCESS"

\* The order of its calls.
LEMMA X11Flow ==
  ASSUME X11Turn
  PROVE  \/ /\ at' = at /\ status' \in {0, 1}
            /\ \/ at = "initialised" /\ answer[Me]["X11"] # "SUCCESS"
               \/ at \in WithDisplay
         \/ /\ status' = status
            /\ \/ at = "initialised" /\ at' = "has_xinerama" /\ answer[Me]["X11"] = "SUCCESS"
               \/ at = "has_xinerama" /\ at' \in {"open_test", "open_window"}
               \/ at = "open_test" /\ at' = "is_active"
               \/ at = "is_active" /\ at' \in {"query", "close_inactive"}
               \/ at \in OfTest \ {"is_active"} /\ at' \in {"free", "close_test", "open_window"}
               \/ at = "open_window" /\ at' = "check"
               \/ at \in OfWindow \cup {"check"} /\ at' \in OfWindow
<1> USE DEF X11!At, X11!Goes, X11!Ends, X11!On, X11!Calling, X11!OpensDisplay, X11!ClosesDisplay
<1>1. CASE X11!TestsResult \/ X11!AsksForXinerama
  BY <1>1, MeIsThread DEF X11!TestsResult, X11!AsksForXinerama, X11!EXIT_SUCCESS
<1>2. CASE X11!TestXinerama
  BY <1>2 DEF X11!TestXinerama, X11!OpensForTest, X11!IsActive, OfTest,
       X11!ClosesInactive, X11!QueriesScreens, X11!FreesScreens, X11!ClosesTest
<1>3. CASE X11!OpenTestWindow
    BY <1>3 DEF X11!OpenTestWindow, X11!OpensForWindow,
       X11!ChecksDisplay, X11!CreatesWindow, X11!SelectsInput, X11!MapsWindow, X11!NextEvent,
       X11!Fills, X11!Draws, X11!ClosesWindow, OfWindow, WithDisplay, X11!EXIT_SUCCESS, X11!EXIT_FAILURE
<1>4. CASE X11!IOError(X11!OnDisplay)
    BY <1>4 DEF X11!IOError, X11!OnDisplay, X11!Calls, WithDisplay, OfTest, OfWindow, X11!EXIT_FAILURE
<1> QED
  BY <1>1, <1>2, <1>3, <1>4 DEF X11Turn

\* Init is called first, and asked about, and only success goes on.
LEMMA X11WhereNext ==
  ASSUME TypeInv, X11Where, program = "example_x11", [Program \/ Others]_examplesVars
  PROVE  X11Where'
<1>0. "X11" \in Module
  BY ExamplesAssumption DEF ExamplesAssumption
<1>1. CASE WranglerMoves
  <2>1. CASE Inside(Me)
    <3>1. at = "initialised" /\ at' = at
      BY <1>1, <2>1 DEF X11Where, WranglerMoves
    <3> QED
      BY <1>0, <1>1, <3>1, AwaitsNext DEF X11Where, X11Labels
  <2>2. CASE ~Inside(Me)
    <3>1. ~Inside(Me)' /\ at' = at /\ answer'[Me]["X11"] = answer[Me]["X11"]
      BY <1>0, <1>1, <2>2, InsideNext, AnswerStays DEF WranglerMoves
    <3> QED
      BY <1>0, <1>1, <3>1, AwaitsNext DEF X11Where
  <2> QED
    BY <2>1, <2>2
<1>2. CASE Calls("main", "X11", "initialised")
  <2>1. at' = "initialised" /\ Awaits("X11")'
    BY <1>0, <1>2, AwaitsNext DEF Calls
  <2> QED
    BY <2>1 DEF X11Where, X11Labels
<1>3. CASE X11Turn
  <2>1. UNCHANGED vars /\ pc[Me] = "idle" /\ ~Inside(Me)
    BY <1>3, TurnFrame DEF Inside
  <2>2. ~Inside(Me)' /\ answer' = answer /\ (Awaits("X11") => Awaits("X11")')
    BY <1>0, <2>1, InsideNext, AwaitsNext DEF vars, threadVars
  <2> QED
    BY <1>3, <2>2, X11Flow DEF X11Where, X11Labels, WithDisplay, OfTest, OfWindow
<1>4. CASE ServerMoves \/ UNCHANGED <<program, vars, serverVars, at, localVars>>
  <2>1. UNCHANGED vars /\ at' = at
    BY <1>4, ServerFrame
  <2>2. Inside(Me)' = Inside(Me) /\ answer' = answer /\ (Awaits("X11") => Awaits("X11")')
    BY <1>0, <2>1, InsideNext, AwaitsNext DEF vars, threadVars
  <2> QED
    BY <2>1, <2>2 DEF X11Where
<1> QED
  BY <1>1, <1>2, <1>3, <1>4, X11Steps

\* Which displays are open: that of main, at the labels where it has one.
OneDisplay ==
  /\ displays \in Seq(BOOLEAN)
  /\ \A d \in DOMAIN displays : displays[d] =>
       d = display /\ at \in WithDisplay /\ status # 0

LEMMA OneDisplayNext ==
  ASSUME X11Where, OneDisplay, NULL \notin {0, 1}, program = "example_x11",
         [Program \/ Others]_examplesVars
  PROVE  OneDisplay'
<1>1. CASE X11Turn
  <2> USE DEF X11!At, X11!Goes, X11!Ends, X11!On, X11!serverVars, X11!windowVars
  <2>1. ASSUME NEW l, X11!OpensDisplay(l), l \in WithDisplay, at \notin WithDisplay, status = NULL
        PROVE  OneDisplay'
    <3>1. at' = l /\ status' = NULL
      BY <2>1 DEF X11!OpensDisplay
    <3>2. \A d \in DOMAIN displays : ~displays[d]
      BY <2>1 DEF OneDisplay
    <3>3. CASE displays' = displays
      BY <3>2, <3>3 DEF OneDisplay
    <3>4. CASE displays' = Append(displays, TRUE) /\ display' = Len(displays) + 1
      BY <2>1, <3>1, <3>2, <3>4, ExamplesAssumption DEF OneDisplay, ExamplesAssumption
    <3> QED
      BY <2>1, <3>3, <3>4 DEF X11!OpensDisplay
  <2>2. ASSUME X11!ClosesDisplay, X11!Open(display) PROVE OneDisplay'
    <3>1. /\ DOMAIN displays' = DOMAIN displays /\ display' = display
          /\ \A d \in DOMAIN displays : displays'[d] = IF d = display THEN FALSE ELSE displays[d]
      BY <2>2 DEF X11!ClosesDisplay
    <3>2. \A d \in DOMAIN displays' : ~displays'[d]
      BY <3>1 DEF OneDisplay
    <3>3. displays' \in Seq(BOOLEAN)
      BY <2>2 DEF X11!ClosesDisplay, X11!Open, OneDisplay
    <3> QED
      BY <3>2, <3>3 DEF OneDisplay
  <2>3. ASSUME UNCHANGED <<displays, display>>, at' \in WithDisplay \/ at \notin WithDisplay,
               status' # 0 \/ at \notin WithDisplay
        PROVE OneDisplay'
    BY <2>3 DEF OneDisplay
  <2>4. CASE X11!OpensForTest \/ X11!OpensForWindow
    BY <2>1, <2>4 DEF X11!OpensForTest, X11!OpensForWindow, X11!Calling, WithDisplay, OfTest, OfWindow
  <2>5. CASE X11!ClosesInactive \/ X11!ClosesTest \/ X11!ClosesWindow
    BY <2>2, <2>5, X11Hands
    DEF X11!ClosesInactive, X11!ClosesTest, X11!ClosesWindow, WithDisplay, OfTest, OfWindow
  <2>6. CASE X11!TestsResult \/ X11!AsksForXinerama
    BY <2>3, <2>6 DEF X11!TestsResult, X11!AsksForXinerama, WithDisplay, OfTest, OfWindow
  <2>7. CASE X11!IsActive \/ X11!QueriesScreens \/ X11!FreesScreens \/ X11!CreatesWindow \/ X11!Fills \/ X11!SelectsInput
             \/ X11!MapsWindow \/ X11!Draws
    <3>1. status = NULL
      BY <2>7 DEF X11!IsActive, X11!QueriesScreens, X11!FreesScreens, X11!CreatesWindow, X11!Fills, X11!SelectsInput,
             X11!MapsWindow, X11!Draws, X11!Calling
    <3>2. UNCHANGED <<displays, display, status>> /\ at' \in WithDisplay
      BY <2>7 DEF X11!IsActive, X11!QueriesScreens, X11!FreesScreens, X11!CreatesWindow, X11!Fills, X11!SelectsInput,
             X11!MapsWindow, X11!Draws, WithDisplay, OfTest, OfWindow
    <3> QED
      BY <2>3, <3>1, <3>2
  <2>8. CASE X11!NextEvent
    BY <2>3, <2>8 DEF X11!NextEvent, X11!Calling, WithDisplay, OfTest, OfWindow
  <2>9. CASE X11!ChecksDisplay \/ X11!IOError(X11!OnDisplay)
    BY <2>3, <2>9 DEF X11!ChecksDisplay, X11!IOError, X11!EXIT_FAILURE, WithDisplay, OfTest, OfWindow
  <2> QED
    BY <1>1, <2>4, <2>5, <2>6, <2>7, <2>8, <2>9
    DEF X11Turn, X11!TestXinerama, X11!OpenTestWindow
<1>2. CASE WranglerMoves \/ Calls("main", "X11", "initialised")
  BY <1>2 DEF WranglerMoves, Calls, OneDisplay, localVars, serverVars, WithDisplay, OfTest, OfWindow
<1>3. CASE ServerMoves \/ UNCHANGED <<program, vars, serverVars, at, localVars>>
  BY <1>3, ServerFrame DEF OneDisplay, localVars, serverVars
<1> QED
  BY <1>1, <1>2, <1>3, X11Steps

\* Events that uncover the window come from the moment it is on the screen.
Events == {"KeyPress", "Expose", "MappingNotify"}
Attentive ==
  /\ queue \in Seq(Events)
  /\ at \in {"map", "next", "fill", "draw"} => selected
  /\ X11!WindowIsCompleted

\* An event is appended, and nothing that waited is lost.
LEMMA WaitsAppended ==
  ASSUME queue \in Seq(Events), NEW e \in Events, queue' = Append(queue, e)
  PROVE  /\ queue' \in Seq(Events) /\ queue' # queue /\ queue'[Len(queue')] = e
         /\ X11!Waits("Expose") \/ e = "Expose" => X11!Waits("Expose")'
<1>1. /\ queue' \in Seq(Events) /\ Len(queue') = Len(queue) + 1 /\ queue'[Len(queue')] = e
      /\ \A i \in 1..Len(queue) : queue'[i] = queue[i]
  OBVIOUS
<1> QED
  BY <1>1 DEF X11!Waits

\* The window is completed: the loop draws for every Expose.
LEMMA AttentiveNext ==
  ASSUME Attentive, program = "example_x11", [Program \/ Others]_examplesVars
  PROVE  Attentive'
<1>1. CASE X11Turn
  <2> USE DEF X11!At, X11!Goes, X11!Ends, X11!On, X11!serverVars, X11!windowVars,
              X11!OpensDisplay, X11!ClosesDisplay, X11!Calling
  <2>1. ASSUME queue' = queue, selected' = selected, at' \notin {"map", "next", "fill", "draw"}
        PROVE  Attentive'
    BY <2>1 DEF Attentive, X11!WindowIsCompleted
  <2>2. ASSUME UNCHANGED <<at, server, queue, selected, drawn>>, status = NULL PROVE Attentive'
    BY <2>2 DEF Attentive, X11!WindowIsCompleted, X11!Waits
  <2>3. CASE X11!TestsResult \/ X11!AsksForXinerama
    BY <2>1, <2>3 DEF X11!TestsResult, X11!AsksForXinerama
  <2>4. CASE X11!TestXinerama
    BY <2>1, <2>4 DEF X11!TestXinerama, X11!OpensForTest, X11!IsActive,
       X11!ClosesInactive, X11!QueriesScreens, X11!FreesScreens, X11!ClosesTest
  <2>5. CASE X11!OpensForWindow \/ X11!ChecksDisplay \/ X11!CreatesWindow \/ X11!ClosesWindow
    BY <2>1, <2>5 DEF X11!OpensForWindow, X11!ChecksDisplay, X11!CreatesWindow, X11!ClosesWindow
  <2>6. CASE X11!SelectsInput
    BY <2>6 DEF X11!SelectsInput, Attentive, X11!WindowIsCompleted
  <2>7. CASE X11!MapsWindow
    <3>1. /\ selected /\ selected' /\ at' = "next" /\ server' = server
          /\ queue' = IF server = "up" THEN Append(queue, "Expose") ELSE queue
      BY <2>7 DEF X11!MapsWindow, Attentive
    <3>2. CASE server = "up"
      BY <3>1, <3>2, WaitsAppended DEF Attentive, Events, X11!WindowIsCompleted
    <3> QED
      BY <3>1, <3>2 DEF Attentive, X11!WindowIsCompleted
  <2>8. CASE X11!NextEvent
    <3>1. /\ at = "next" /\ status = NULL /\ queue # <<>> /\ queue' = Tail(queue) /\ server' = server
          /\ selected' = selected /\ drawn' = drawn /\ status' = status
          /\ at' \in {"fill", "close_window", "next"}
          /\ Head(queue) = "Expose" => at' = "fill"
      BY <2>8 DEF X11!NextEvent
    <3>2. queue' \in Seq(Events) /\ Len(queue') = Len(queue) - 1 /\ queue[1] = Head(queue)
          /\ \A i \in 1..Len(queue) : i # 1 => i - 1 \in 1..Len(queue') /\ queue'[i - 1] = queue[i]
      BY <3>1 DEF Attentive
    <3>3. X11!Waits("Expose") /\ Head(queue) # "Expose" => X11!Waits("Expose")'
      <4> SUFFICES ASSUME NEW i \in 1..Len(queue), queue[i] = "Expose", Head(queue) # "Expose"
                   PROVE  \E j \in DOMAIN queue' : queue'[j] = "Expose"
        BY DEF X11!Waits, Attentive
      <4>1. i # 1
        BY <3>2
      <4>2. i - 1 \in DOMAIN queue' /\ queue'[i - 1] = "Expose"
        BY <3>2, <4>1
      <4> QED
        BY <4>2
    <3> QED
      BY <3>1, <3>2, <3>3 DEF Attentive, X11!WindowIsCompleted
  <2>9. CASE X11!Fills \/ X11!Draws
    BY <2>9 DEF X11!Fills, X11!Draws, Attentive, X11!WindowIsCompleted
  <2>10. CASE X11!IOError(X11!OnDisplay) /\ UNCHANGED drawn
    BY <2>2, <2>10 DEF X11!IOError
  <2> QED
    BY <1>1, <2>3, <2>4, <2>5, <2>6, <2>7, <2>8, <2>9, <2>10 DEF X11Turn, X11!OpenTestWindow
<1>2. CASE WranglerMoves
  BY <1>2 DEF WranglerMoves, Attentive, X11!WindowIsCompleted, X11!Waits, localVars, serverVars
<1>3. CASE Calls("main", "X11", "initialised")
  BY <1>3 DEF Calls, Attentive, X11!WindowIsCompleted, localVars, serverVars
<1>4. CASE ServerMoves
  <2>1. X11!Surroundings /\ server = "up" /\ at' = at /\ status' = status
        /\ drawn' = (drawn /\ ~(queue' # queue /\ queue'[Len(queue')] = "Expose"))
    BY <1>4, ServerFrame DEF ServerMoves, X11!Others, X11!Surroundings, X11!ServerStep
  <2>2. CASE queue' = queue /\ selected' = selected
    BY <2>1, <2>2 DEF Attentive, X11!WindowIsCompleted, X11!Waits
  <2>3. ASSUME NEW e \in Events, queue' = Append(queue, e), selected' = selected
        PROVE  Attentive'
    <3>1. drawn' = (drawn /\ e # "Expose")
      BY <2>1, <2>3, WaitsAppended DEF Attentive
    <3> QED
      BY <2>1, <2>3, <3>1, WaitsAppended DEF Attentive, X11!WindowIsCompleted
  <2> QED
    BY <2>1, <2>2, <2>3 DEF X11!Surroundings, X11!ServerStep, X11!Event, X11!Arrives,
       X11!ScreenAdded, X11!ScreenRemoved, X11!Lost, X11!windowVars, Events
<1>5. CASE UNCHANGED <<program, vars, serverVars, at, localVars>>
  BY <1>5 DEF Attentive, X11!WindowIsCompleted, X11!Waits, localVars, serverVars
<1> QED
  BY <1>1, <1>2, <1>3, <1>4, <1>5, X11Steps

-----------------------------------------------------------------------------
(* What can be called.                                                     *)

\* What is known of the wrangler, and of the threads.
World == Safe /\ SuccessMeansReady /\ Lone

\* The library of s opens and has s.
Offered(s) ==
  FirstLoadable(LibOf[s]) # NULL /\ s \in provides[FirstLoadable(LibOf[s])]

\* What Init has made of function s.
LEMMA Resolved ==
  ASSUME World, NEW m \in Module, phase = "running", answer[Me][m] = "SUCCESS",
         NEW s \in SymsOf(m)
  PROVE  LET h == FirstLoadable(LibOf[s]) IN
           /\ h # NULL => h \in Mapped /\ \E i \in 1..Len(Paths[LibOf[s]]) : h = Paths[LibOf[s]][i]
           /\ LibOf[s] \in Required => h # NULL
           /\ functor[s] \in DlSym(h, s)
<1>1. LibOf[s] \in SlotsOf(m) /\ LibOf[s] \in Lib
  <2>1. PICK j \in 1..Len(Libs[m]) : LibOf[s] = Libs[m][j]
    BY LibOfSlot DEF SlotsOf
  <2> QED
    BY <2>1, TableTypes DEF SlotsOf
<1>2. /\ lib[LibOf[s]] = FirstLoadable(LibOf[s])
      /\ LibOf[s] \in Required => lib[LibOf[s]] # NULL
      /\ functor[s] \in DlSym(lib[LibOf[s]], s)
  BY <1>1, MeIsThread DEF World, SuccessMeansReady, Told
<1>3. lib[LibOf[s]] # NULL => lib[LibOf[s]] \in Mapped
  BY <1>1, HandleMapped DEF World
<1>4. lib[LibOf[s]] # NULL => \E i \in 1..Len(Paths[LibOf[s]]) : lib[LibOf[s]] = Paths[LibOf[s]][i]
  BY <1>1 DEF World, Safe, HandleNames
<1> QED
  BY <1>2, <1>3, <1>4

\* Where the look-up of s found the wrapper: as in Client.
FoundItself(s) == s \in Exported /\ FirstLoadable(LibOf[s]) = NULL

\* A function that is offered can be called, and HAS_SYMBOL says so.  It says so
\* too where the wrapper was found, and a call of that is one of itself.
LEMMA OfferedHas ==
  ASSUME World, NEW m \in Module, phase = "running", answer[Me][m] = "SUCCESS",
         NEW s \in SymsOf(m)
  PROVE  /\ HasSymbol(s) <=> Offered(s) \/ FoundItself(s)
         /\ Offered(s) => CallOutcome(s) = "library"
         /\ FoundItself(s) => CallOutcome(s) = "recursion"
<1> DEFINE h == FirstLoadable(LibOf[s])
<1>1. /\ h # NULL => h \in Mapped /\ h \in Soname
      /\ functor[s] \in DlSym(h, s)
  <2>1. s \in Sym /\ LibOf[s] \in Lib
    BY TableTypes, WranglerAssumption DEF SymsOf, WranglerAssumption
  <2> QED
    BY <2>1, Resolved, TableTypes
<1> HIDE DEF h
<1>2. CASE h = NULL
  <2>1. functor[s] = IF s \in Exported THEN Wrapper ELSE NULL
    BY <1>1, <1>2 DEF DlSym
  <2>2. NULL # Wrapper
    BY LinkerAssumption DEF LinkerAssumption
  <2>3. s \in Exported => CallOutcome(s) = "recursion"
    BY <2>1, <2>2 DEF CallOutcome
  <2> QED
    BY <1>2, <2>1, <2>2, <2>3 DEF HasSymbol, Offered, FoundItself, h
<1>3. CASE h # NULL
  <2>1. IF s \in provides[h] THEN functor[s] = h ELSE functor[s] = NULL
    BY <1>1, <1>3 DEF DlSym
  <2>2. Wrapper \notin Soname
    BY LinkerAssumption DEF LinkerAssumption
  <2>3. s \in provides[h] => CallOutcome(s) = "library"
    BY <1>1, <1>3, <2>1, <2>2 DEF CallOutcome
  <2> QED
    BY <1>3, <2>1, <2>3 DEF HasSymbol, Offered, FoundItself, h
<1> QED
  BY <1>2, <1>3

\* What the programs rely on is offered, and what they ask for brings what comes
\* with it.
LEMMA ReliedOffered ==
  ASSUME World, provides \in Editions, NEW m \in Module, phase = "running",
         answer[Me][m] = "SUCCESS", NEW s
  PROVE  /\ ReliedOn(m, s) => Offered(s)
         /\ \A asked : ComesWith(m, s, asked) /\ Offered(asked) => Offered(s)
<1> SUFFICES ASSUME s \in SymsOf(m) PROVE
         /\ ReliedOn(m, s) => Offered(s)
         /\ \A asked : ComesWith(m, s, asked) /\ Offered(asked) => Offered(s)
  BY DEF ReliedOn, ComesWith
<1>1. /\ FirstLoadable(LibOf[s]) # NULL =>
           \E i \in 1..Len(Paths[LibOf[s]]) : FirstLoadable(LibOf[s]) = Paths[LibOf[s]][i]
      /\ LibOf[s] \in Required => FirstLoadable(LibOf[s]) # NULL
  BY Resolved
<1> QED
  BY <1>1 DEF ReliedOn, ComesWith, Offered

\* With a server at the start: the display is open where it is handed over; what
\* depends on an answer of HAS_SYMBOL is done where it was true, for one reason or
\* the other, and what follows the first call only where the function is there.
X11Fit ==
  /\ at \in {"main", "initialised", "has_xinerama", "open_test"} => displays = <<>> /\ server = "up"
  /\ at \in {"open_test", "is_active"} =>
       Offered("XineramaIsActive") \/ FoundItself("XineramaIsActive")
  /\ at = "query" => Offered("XineramaIsActive")
  /\ at \in OfTest \cup OfWindow /\ status = NULL => X11!Open(display)
  /\ at = "check" => display = NULL \/ X11!Open(display)

\* A display that was opened is open.
LEMMA OpenedIsOpen ==
  ASSUME displays \in Seq(BOOLEAN), NEW l, X11!OpensDisplay(l)
  PROVE  IF server = "up" THEN X11!Open(display)' ELSE display' = NULL
<1>1. CASE server = "up"
  <2>1. displays' = Append(displays, TRUE) /\ display' = Len(displays) + 1
    BY <1>1 DEF X11!OpensDisplay
  <2>2. display' \in DOMAIN displays' /\ displays'[display'] = TRUE
    BY <2>1
  <2> QED
    BY <1>1, <2>2 DEF X11!Open
<1>2. CASE server # "up"
  BY <1>2 DEF X11!OpensDisplay
<1> QED
  BY <1>1, <1>2

\* What the system offers stays so.
LEMMA OfferedStays ==
  ASSUME NEW s, UNCHANGED <<loadable, provides>>
  PROVE  Offered(s)' = Offered(s) /\ FoundItself(s)' = FoundItself(s)
BY DEF Offered, FoundItself, FirstLoadable

\* The display is tested, or was opened while a server was sure to be there.
LEMMA X11FitNext ==
  ASSUME World, X11Where, X11Fit, OneDisplay, LibrariesSuffice,
         program = "example_x11", [Program \/ Others]_examplesVars,
         UNCHANGED <<loadable, provides>>
  PROVE  X11Fit'
<1>0. /\ Offered("XineramaIsActive")' = Offered("XineramaIsActive")
      /\ FoundItself("XineramaIsActive")' = FoundItself("XineramaIsActive")
      /\ NULL \notin {0, 1} /\ "X11" \in Module /\ "XineramaIsActive" \in SymsOf("X11")
  BY OfferedStays, ExamplesAssumption
  DEF ExamplesAssumption, LibrariesSuffice, X11!Calls, ComesWith
<1> USE DEF OfTest, OfWindow
<1>1. CASE X11Turn
  <2> USE DEF X11!At, X11!Goes, X11!Ends, X11!On, X11!serverVars, X11!windowVars, X11!Calling
  <2>1. CASE X11!TestsResult
    BY <1>0, <2>1 DEF X11!TestsResult, X11Fit
  <2>2. CASE X11!AsksForXinerama
    <3>1. phase = "running" /\ answer[Me]["X11"] = "SUCCESS"
      BY <2>2 DEF X11!AsksForXinerama, World, Lone, X11Where
    <3>2. X11!HasSymbol("XineramaIsActive") =>
            Offered("XineramaIsActive") \/ FoundItself("XineramaIsActive")
      BY <1>0, <3>1, OfferedHas DEF X11!HasSymbol, HasSymbol
    <3> QED
      BY <1>0, <2>2, <3>2 DEF X11!AsksForXinerama, X11Fit
  <2>3. CASE X11!OpensForTest
    <3>1. at' = "is_active" /\ X11!Open(display)'
      BY <2>3, OpenedIsOpen DEF OneDisplay, X11!OpensForTest, X11!OpensDisplay, X11Fit
    <3> QED
      BY <1>0, <2>3, <3>1 DEF X11!OpensForTest, X11Fit
  <2>4. CASE X11!IsActive
    <3>1. phase = "running" /\ answer[Me]["X11"] = "SUCCESS"
      BY <2>4 DEF X11!IsActive, World, Lone, X11Where, X11Labels
    <3>2. CallOutcome("XineramaIsActive") = "library"
      BY <2>4 DEF X11!IsActive, X11!BadCall, X11!Calls, X11!CallOutcome, CallOutcome, X11!Mapped, Mapped
    <3>3. Offered("XineramaIsActive")
      BY <1>0, <2>4, <3>1, <3>2, OfferedHas DEF X11!IsActive, X11Fit
    <3> QED
      BY <1>0, <2>4, <3>3 DEF X11!IsActive, X11Fit, X11!Open
  <2>11. CASE X11!QueriesScreens \/ X11!FreesScreens
    BY <1>0, <2>11 DEF X11!QueriesScreens, X11!FreesScreens, X11Fit, X11!Open
  <2>5. CASE X11!ClosesInactive \/ X11!ClosesTest
    BY <1>0, <2>5 DEF X11!ClosesInactive, X11!ClosesTest, X11!ClosesDisplay, X11Fit
  <2>6. CASE X11!OpensForWindow
    <3>1. at' = "check"
      BY <2>6 DEF X11!OpensForWindow, X11!OpensDisplay
    <3>2. display' = NULL \/ X11!Open(display)'
      BY <2>6, OpenedIsOpen DEF OneDisplay, X11!OpensForWindow
    <3> QED
      BY <3>1, <3>2 DEF X11Fit
  <2>7. CASE X11!ChecksDisplay \/ X11!CreatesWindow \/ X11!SelectsInput \/ X11!MapsWindow
             \/ X11!Fills \/ X11!Draws
    BY <1>0, <2>7 DEF X11!ChecksDisplay, X11!CreatesWindow, X11!SelectsInput, X11!MapsWindow,
       X11!Fills, X11!Draws, X11Fit, X11!Open, X11!EXIT_FAILURE
  <2>8. CASE X11!NextEvent
    BY <1>0, <2>8 DEF X11!NextEvent, X11Fit, X11!Open
  <2>9. CASE X11!ClosesWindow
    BY <1>0, <2>9 DEF X11!ClosesWindow, X11!ClosesDisplay, X11!EXIT_SUCCESS, X11Fit
  <2>10. CASE X11!IOError(X11!OnDisplay)
    BY <1>0, <2>10 DEF X11!IOError, X11!EXIT_FAILURE, X11Fit, X11!Open
  <2> QED
    BY <1>1, <2>1, <2>2, <2>3, <2>4, <2>5, <2>6, <2>7, <2>8, <2>9, <2>10, <2>11
    DEF X11Turn, X11!TestXinerama, X11!OpenTestWindow
<1>2. CASE WranglerMoves
  BY <1>0, <1>2 DEF WranglerMoves, X11Fit, X11!Open, localVars, serverVars
<1>3. CASE Calls("main", "X11", "initialised")
  BY <1>0, <1>3 DEF Calls, X11Fit, X11!Open, localVars, serverVars
<1>4. CASE ServerMoves
  <2>1. UNCHANGED <<at, displays, display, status>> /\ X11!Connected
    BY <1>4, ServerFrame DEF ServerMoves, X11!Others, X11!Surroundings, X11!ServerStep
  <2> QED
    BY <1>0, <2>1 DEF X11Fit, X11!Open, X11!Connected
<1>5. CASE UNCHANGED <<program, vars, serverVars, at, localVars>>
  BY <1>0, <1>5 DEF X11Fit, X11!Open, localVars, serverVars
<1> QED
  BY <1>1, <1>2, <1>3, <1>4, <1>5, X11Steps

\* At every label the call can be made, but where the wrapper was found.
LEMMA X11Calls ==
  ASSUME World, X11Where, X11Fit, LibrariesSuffice, provides \in Editions
  PROVE  X11!CallsEndInLibraries
<1> DEFINE lost == at = "is_active" /\ FoundItself("XineramaIsActive")
<1>0. /\ X11!FoundItself("XineramaIsActive") <=> FoundItself("XineramaIsActive")
      /\ X11!Calls.is_active = "XineramaIsActive"
  BY DEF X11!Calls, X11!FoundItself, FoundItself, X11!FirstLoadable, FirstLoadable, X11!Min, Min
<1> SUFFICES ASSUME X11!At(at) PROVE X11!BadCall(X11!Calls, X11!OnDisplay) <=> lost
  BY <1>0 DEF X11!CallsEndInLibraries
<1> HIDE DEF lost
<1>1. status = NULL /\ phase = "running"
  BY DEF X11!At, World, Lone
<1>2. "X11" \in Module
  BY ExamplesAssumption DEF ExamplesAssumption
<1>3. ASSUME at \in DOMAIN X11!Calls, ~lost PROVE X11!CallOutcome(X11!Calls[at]) = "library"
  <2>1. answer[Me]["X11"] = "SUCCESS"
    BY <1>3 DEF X11Where, X11!Calls
  <2>2. X11!Calls[at] \in SymsOf("X11") /\ Offered(X11!Calls[at])
    <3>1. CASE at \in {"is_active", "query"}
      <4>1. ComesWith("X11", X11!Calls[at], "XineramaIsActive")
        BY <1>3, <3>1 DEF LibrariesSuffice
      <4>2. Offered("XineramaIsActive")
        BY <1>3, <3>1 DEF X11Fit, lost
      <4> QED
        BY <1>1, <1>2, <2>1, <4>1, <4>2, ReliedOffered DEF ComesWith
    <3>2. CASE at \notin {"is_active", "query"}
      <4>1. ReliedOn("X11", X11!Calls[at])
        BY <1>3, <3>2 DEF LibrariesSuffice
      <4> QED
        BY <1>1, <1>2, <2>1, <4>1, ReliedOffered DEF ReliedOn
    <3> QED
      BY <3>1, <3>2
  <2>3. CallOutcome(X11!Calls[at]) = "library"
    BY <1>1, <1>2, <2>1, <2>2, OfferedHas
  <2> QED
    BY <2>3 DEF X11!CallOutcome, CallOutcome, X11!Mapped, Mapped
<1>4. ASSUME at \in X11!OnDisplay PROVE X11!Open(display)
  <2>1. at \in OfTest \cup OfWindow
    BY <1>4 DEF X11!OnDisplay, X11!Calls, OfTest, OfWindow
  <2> QED
    BY <1>1, <2>1 DEF X11Fit
<1>5. ASSUME lost PROVE at \in DOMAIN X11!Calls /\ X11!CallOutcome(X11!Calls[at]) # "library"
  <2>1. at = "is_active" /\ X11!Calls[at] = "XineramaIsActive" /\ FoundItself("XineramaIsActive")
    BY <1>5 DEF lost, X11!Calls
  <2>2. answer[Me]["X11"] = "SUCCESS" /\ "XineramaIsActive" \in SymsOf("X11")
    BY <2>1 DEF X11Where, X11!Calls, LibrariesSuffice, ComesWith
  <2>3. CallOutcome("XineramaIsActive") = "recursion"
    BY <1>1, <1>2, <2>1, <2>2, OfferedHas
  <2> QED
    BY <2>1, <2>3 DEF X11!Calls, X11!CallOutcome, CallOutcome, X11!Mapped, Mapped
<1> QED
  BY <1>3, <1>4, <1>5 DEF X11!BadCall

-----------------------------------------------------------------------------
(* example_xcb.c                                                           *)

\* The labels before Init of X11 was called and answered, those at which the
\* screens are not counted yet, and those at which they are.
BeforeX11 == {"parse", "has", "init_x11", "x11_initialised"}
BeforeCount == {"open", "connection", "ask_active", "active", "ask_count", "count"}
OfScreen == {"ask_geometry", "geometry", "iterator", "iterate", "print"}
AfterCount == OfScreen \cup {"for", "close"}
XcbLabels == {"main", "xcb_initialised"} \cup BeforeX11 \cup BeforeCount \cup AfterCount

XcbWhere ==
  /\ at \in XcbLabels
  /\ Inside(Me) => at \in {"xcb_initialised", "x11_initialised"}
  /\ at = "xcb_initialised" => Awaits("XCB")
  /\ at = "x11_initialised" => Awaits("X11")
  /\ at \notin {"main", "xcb_initialised"} => answer[Me]["XCB"] = "SUCCESS"
  /\ at \in BeforeCount \cup AfterCount => answer[Me]["X11"] = "SUCCESS"

\* The order of its calls.
LEMMA XcbFlow ==
  ASSUME XcbTurn
  PROVE  \/ /\ at' = at
            /\ \/ at = "xcb_initialised" /\ answer[Me]["XCB"] # "SUCCESS"
               \/ at \in BeforeX11 \cup BeforeCount \cup AfterCount
         \/ /\ status' = status
            /\ \/ at = "xcb_initialised" /\ at' = "parse" /\ answer[Me]["XCB"] = "SUCCESS"
               \/ at = "parse" /\ at' = "has"
               \/ at = "has" /\ at' = "init_x11"
               \/ at = "x11_initialised" /\ at' = "open" /\ answer[Me]["X11"] = "SUCCESS"
               \/ at \in BeforeCount /\ at' \in BeforeCount
               \/ at = "count" /\ at' = "for"
               \/ at \in AfterCount /\ at' \in AfterCount
<1> USE DEF Xcb!At, Xcb!Goes, Xcb!Ends, Xcb!On, Xcb!GoesOn, Xcb!Leaves, Xcb!Calling,
            Xcb!OpensDisplay, BeforeX11, BeforeCount, AfterCount, OfScreen
<1>1. CASE Xcb!ReportsFailure \/ Xcb!Initialised \/ Xcb!ParsesDisplay \/ Xcb!AsksForXinerama
  BY <1>1, MeIsThread
  DEF Xcb!ReportsFailure, Xcb!Initialised, Xcb!ParsesDisplay, Xcb!AsksForXinerama
<1>2. CASE Xcb!TestsX11 \/ Xcb!Opens \/ Xcb!GetsConnection \/ Xcb!AsksActive \/ Xcb!IsActive
  BY <1>2, MeIsThread
  DEF Xcb!TestsX11, Xcb!Opens, Xcb!GetsConnection, Xcb!AsksActive, Xcb!IsActive
<1>3. CASE Xcb!AsksCount \/ Xcb!Counts \/ Xcb!NextScreen \/ Xcb!AsksGeometry \/ Xcb!GetsGeometry
  BY <1>3
  DEF Xcb!AsksCount, Xcb!Counts, Xcb!NextScreen, Xcb!AsksGeometry, Xcb!GetsGeometry
<1>4. CASE Xcb!StartsIterating \/ Xcb!Iterates \/ Xcb!Prints \/ Xcb!Closes
  BY <1>4 DEF Xcb!StartsIterating, Xcb!Iterates, Xcb!Prints, Xcb!Closes
<1>5. CASE Xcb!IOError({"close"})
  BY <1>5 DEF Xcb!IOError
<1> QED
  BY <1>1, <1>2, <1>3, <1>4, <1>5 DEF XcbTurn

\* XCB is initialised first, X11 after it, and only success goes on.
LEMMA XcbWhereNext ==
  ASSUME TypeInv, XcbWhere, program = "example_xcb", [Program \/ Others]_examplesVars
  PROVE  XcbWhere'
<1>0. "X11" \in Module /\ "XCB" \in Module
  BY ExamplesAssumption DEF ExamplesAssumption
<1> USE DEF BeforeX11, BeforeCount, AfterCount, OfScreen
<1>1. CASE WranglerMoves
  <2>0. at' = at /\ (Awaits("XCB") => Awaits("XCB")') /\ (Awaits("X11") => Awaits("X11")')
    BY <1>0, <1>1, AwaitsNext DEF WranglerMoves
  <2>1. Inside(Me)' => Inside(Me)
    BY <1>1, InsideNext
  <2>2. at # "xcb_initialised" => answer'[Me]["XCB"] = answer[Me]["XCB"]
    <3>1. at # "xcb_initialised" => (Inside(Me) => mod[Me] # "XCB")
      BY DEF XcbWhere, Awaits
    <3> QED
      BY <1>0, <1>1, <3>1, AnswerStays
  <2>3. at \in BeforeCount \cup AfterCount => answer'[Me]["X11"] = answer[Me]["X11"]
    <3>1. at \in BeforeCount \cup AfterCount => (Inside(Me) => mod[Me] # "X11")
      BY DEF XcbWhere
    <3> QED
      BY <1>0, <1>1, <3>1, AnswerStays
  <2> QED
    BY <2>0, <2>1, <2>2, <2>3 DEF XcbWhere
<1>2. CASE Calls("main", "XCB", "xcb_initialised")
  <2>1. at' = "xcb_initialised" /\ Awaits("XCB")'
    BY <1>0, <1>2, AwaitsNext DEF Calls
  <2> QED
    BY <2>1 DEF XcbWhere, XcbLabels
<1>3. CASE Calls("init_x11", "X11", "x11_initialised")
  <2>1. at = "init_x11" /\ at' = "x11_initialised" /\ Awaits("X11")'
    BY <1>0, <1>3, AwaitsNext DEF Calls
  <2>2. answer' = answer
    BY <1>3 DEF Calls, CallInit
  <2> QED
    BY <2>1, <2>2 DEF XcbWhere, XcbLabels
<1>4. CASE XcbTurn
  <2>1. UNCHANGED vars /\ pc[Me] = "idle" /\ ~Inside(Me)
    BY <1>4, TurnFrame DEF Inside
  <2>2. /\ ~Inside(Me)' /\ answer' = answer
        /\ (Awaits("X11") => Awaits("X11")') /\ (Awaits("XCB") => Awaits("XCB")')
    BY <1>0, <2>1, InsideNext, AwaitsNext DEF vars, threadVars
  <2> QED
    BY <1>4, <2>2, XcbFlow DEF XcbWhere, XcbLabels
<1>5. CASE ServerMoves \/ UNCHANGED <<program, vars, serverVars, at, localVars>>
  <2>1. UNCHANGED vars /\ at' = at
    BY <1>5, ServerFrame
  <2>2. /\ Inside(Me)' = Inside(Me) /\ answer' = answer
        /\ (Awaits("X11") => Awaits("X11")') /\ (Awaits("XCB") => Awaits("XCB")')
    BY <1>0, <2>1, InsideNext, AwaitsNext DEF vars, threadVars
  <2> QED
    BY <2>1, <2>2 DEF XcbWhere
<1> QED
  BY <1>1, <1>2, <1>3, <1>4, <1>5, XcbSteps

\* Status and message tell how Init of XCB ended.
XcbReports ==
  status # NULL =>
    /\ answer[Me]["XCB"] # "SUCCESS" => status = 1 /\ reported \notin {NULL, "UNKNOWN"}
    /\ answer[Me]["XCB"] = "SUCCESS" /\ status = 1 => server = "lost"

LEMMA XcbReportsNext ==
  ASSUME TypeInv, Lone, XcbWhere, XcbReports, program = "example_xcb",
         [Program \/ Others]_examplesVars
  PROVE  XcbReports'
<1>0. /\ "XCB" \in Module /\ NULL \notin {0, 1} /\ Me \in Thread
      /\ answer \in [Thread -> [Module -> Codes \cup {NULL}]] /\ NULL \notin Codes
  BY MeIsThread, ExamplesAssumption, WranglerAssumption
  DEF ExamplesAssumption, WranglerAssumption, TypeInv, TypeOK
<1> USE DEF Xcb!EXIT_FAILURE, Xcb!EXIT_SUCCESS
<1>1. ASSUME UNCHANGED <<status, reported, server>>,
             status # NULL => answer'[Me]["XCB"] = answer[Me]["XCB"]
      PROVE  XcbReports'
  BY <1>1 DEF XcbReports
<1>2. CASE XcbTurn
  <2> USE DEF Xcb!At, Xcb!Goes, Xcb!Ends, Xcb!On, Xcb!GoesOn, Xcb!Leaves, Xcb!Calling,
              Xcb!OpensDisplay, Xcb!ClosesDisplay, Xcb!serverVars
  <2>0. answer' = answer /\ status = NULL
    BY <1>2, TurnFrame DEF vars, threadVars
  <2>1. ASSUME status' = status PROVE XcbReports'
    BY <2>0, <2>1 DEF XcbReports
  <2>2. ASSUME status' = 0, at \notin {"main", "xcb_initialised"} PROVE XcbReports'
    BY <2>0, <2>2 DEF XcbWhere, XcbReports
  <2>3. CASE Xcb!ReportsFailure
    <3>1. /\ at = "xcb_initialised" /\ ~Inside(Me) /\ answer[Me]["XCB"] # "SUCCESS"
          /\ reported' = Xcb!xewErrorString(answer[Me]["XCB"]) /\ status' = 1
      BY <2>3, MeIsThread DEF Xcb!ReportsFailure, Inside
    <3>2. answer[Me]["XCB"] # NULL
      BY <3>1 DEF XcbWhere, Awaits
    <3>3. answer[Me]["XCB"] \in Codes \cup {NULL}
      BY <1>0
    <3>4. answer[Me]["XCB"] \in {"OPEN_FAILED", "ATEXIT_FAILED"}
      BY <3>1, <3>2, <3>3 DEF Codes
    <3>5. reported' \in {"OPEN_FAILED", "ATEXIT_FAILED"}
      BY <3>1, <3>4 DEF Xcb!xewErrorString
    <3>6. reported' \notin {NULL, "UNKNOWN"}
      BY <1>0, <3>5 DEF Codes
    <3> QED
      BY <2>0, <3>1, <3>6 DEF XcbReports
  <2>4. CASE Xcb!Initialised \/ Xcb!ParsesDisplay \/ Xcb!AsksForXinerama
    BY <2>1, <2>2, <2>4 DEF Xcb!Initialised, Xcb!ParsesDisplay, Xcb!AsksForXinerama
  <2>5. CASE Xcb!TestsX11 \/ Xcb!Opens \/ Xcb!GetsConnection \/ Xcb!AsksActive \/ Xcb!IsActive
    BY <2>1, <2>2, <2>5
    DEF Xcb!TestsX11, Xcb!Opens, Xcb!GetsConnection, Xcb!AsksActive, Xcb!IsActive
  <2>6. CASE Xcb!AsksCount \/ Xcb!Counts \/ Xcb!NextScreen \/ Xcb!AsksGeometry \/ Xcb!GetsGeometry
    BY <2>1, <2>6
    DEF Xcb!AsksCount, Xcb!Counts, Xcb!NextScreen, Xcb!AsksGeometry, Xcb!GetsGeometry
  <2>7. CASE Xcb!StartsIterating \/ Xcb!Iterates \/ Xcb!Prints \/ Xcb!Closes
    BY <2>1, <2>2, <2>7
    DEF Xcb!StartsIterating, Xcb!Iterates, Xcb!Prints, Xcb!Closes
  <2>8. CASE Xcb!IOError({"close"})
    <3>1. server' = "lost" /\ at = "close"
      BY <2>8 DEF Xcb!IOError
    <3>2. answer'[Me]["XCB"] = "SUCCESS"
      BY <2>0, <3>1 DEF XcbWhere
    <3> QED
      BY <3>1, <3>2 DEF XcbReports
  <2> QED
    BY <1>2, <2>3, <2>4, <2>5, <2>6, <2>7, <2>8 DEF XcbTurn
<1>3. CASE WranglerMoves
  <2>1. UNCHANGED <<status, reported, server>>
    BY <1>3 DEF WranglerMoves, localVars, serverVars
  <2>2. status # NULL => answer'[Me]["XCB"] = answer[Me]["XCB"]
    BY <1>0, <1>3, AnswerStays DEF Lone
  <2> QED
    BY <1>1, <2>1, <2>2
<1>4. CASE Calls("main", "XCB", "xcb_initialised") \/ Calls("init_x11", "X11", "x11_initialised")
  BY <1>1, <1>4 DEF Calls, localVars, serverVars
<1>5. CASE ServerMoves
  BY <1>0, <1>5, ServerFrame DEF XcbReports
<1>6. CASE UNCHANGED <<program, vars, serverVars, at, localVars>>
  BY <1>1, <1>6 DEF localVars, serverVars, vars, threadVars
<1> QED
  BY <1>2, <1>3, <1>4, <1>5, <1>6, XcbSteps

\* With a server at the start: the display is open where it is handed over, and
\* of Xinerama is only asked where HAS_SYMBOL said that it is there, for one
\* reason or the other; past the first call it is.
XcbFit ==
  /\ at \in {"main", "xcb_initialised", "open"} \cup BeforeX11 => displays = <<>> /\ server = "up"
  /\ at \in {"init_x11", "x11_initialised", "open", "connection", "ask_active"} =>
       Offered("xcb_xinerama_is_active") \/ FoundItself("xcb_xinerama_is_active")
  /\ at \in {"active", "ask_count", "count"} \cup AfterCount => Offered("xcb_xinerama_is_active")
  /\ at \in (BeforeCount \cup AfterCount) \ {"open"} /\ status = NULL => Xcb!Open(display)

LEMMA XcbFitNext ==
  ASSUME World, XcbWhere, XcbFit, LibrariesSuffice, ExportedTogether,
         program = "example_xcb", [Program \/ Others]_examplesVars,
         UNCHANGED <<loadable, provides>>
  PROVE  XcbFit'
<1>0. /\ Offered("xcb_xinerama_is_active")' = Offered("xcb_xinerama_is_active")
      /\ FoundItself("xcb_xinerama_is_active")' = FoundItself("xcb_xinerama_is_active")
      /\ NULL \notin {0, 1} /\ "XCB" \in Module /\ "xcb_xinerama_is_active" \in SymsOf("XCB")
  BY OfferedStays, ExamplesAssumption
  DEF ExamplesAssumption, LibrariesSuffice, Xcb!Calls, ComesWith
<1> USE DEF BeforeX11, BeforeCount, AfterCount, OfScreen, XcbLabels
<1>1. CASE XcbTurn
  <2> USE DEF Xcb!At, Xcb!Goes, Xcb!Ends, Xcb!On, Xcb!GoesOn, Xcb!Leaves, Xcb!Calling,
              Xcb!serverVars, Xcb!windowVars, Xcb!EXIT_SUCCESS, Xcb!EXIT_FAILURE
  <2>1. ASSUME status' # NULL, at' = at, UNCHANGED <<displays, server>> PROVE XcbFit'
    BY <1>0, <2>1 DEF XcbFit
  <2>2. ASSUME UNCHANGED <<displays, server, display, status>>,
               at' \in XcbLabels \ {"main", "xcb_initialised"},
               at' = "open" => at \in BeforeX11,
               at' \in BeforeX11 => at \in {"xcb_initialised"} \cup BeforeX11,
               at' \in (BeforeCount \cup AfterCount) \ {"open"} =>
                 at \in (BeforeCount \cup AfterCount) \ {"open"},
               at' \in {"init_x11", "x11_initialised", "open", "connection", "ask_active"} =>
                 Offered("xcb_xinerama_is_active") \/ FoundItself("xcb_xinerama_is_active"),
               at' \in {"active", "ask_count", "count"} \cup AfterCount =>
                 Offered("xcb_xinerama_is_active")
        PROVE  XcbFit'
    BY <1>0, <2>2 DEF XcbFit, Xcb!Open
  <2>3. CASE Xcb!ReportsFailure
    BY <1>0, <2>1, <2>3 DEF Xcb!ReportsFailure
  <2>4. CASE Xcb!Initialised \/ Xcb!ParsesDisplay \/ Xcb!TestsX11
    BY <1>0, <2>1, <2>2, <2>4 DEF Xcb!Initialised, Xcb!ParsesDisplay, Xcb!TestsX11, XcbFit
  <2>5. CASE Xcb!AsksForXinerama
    <3>1. phase = "running" /\ answer[Me]["XCB"] = "SUCCESS"
      BY <2>5 DEF Xcb!AsksForXinerama, World, Lone, XcbWhere
    <3>2. Xcb!HasSymbol("xcb_xinerama_is_active") =>
            Offered("xcb_xinerama_is_active") \/ FoundItself("xcb_xinerama_is_active")
      BY <1>0, <3>1, OfferedHas DEF Xcb!HasSymbol, HasSymbol
    <3> QED
      BY <1>0, <2>1, <2>2, <2>5, <3>2 DEF Xcb!AsksForXinerama
  <2>6. CASE Xcb!Opens
    <3>1. displays = <<>> /\ server = "up" /\ at' = "connection"
          /\ (Offered("xcb_xinerama_is_active") \/ FoundItself("xcb_xinerama_is_active"))
      BY <2>6 DEF Xcb!Opens, Xcb!OpensDisplay, XcbFit
    <3>2. X11!OpensDisplay("connection")
      BY <2>6 DEF Xcb!Opens, Xcb!OpensDisplay, X11!OpensDisplay, X11!Goes, X11!windowVars,
         Xcb!vars, Xcb!linkerVars, Xcb!sharedVars, Xcb!exitVars, Xcb!threadVars,
         X11!vars, X11!linkerVars, X11!sharedVars, X11!exitVars, X11!threadVars
    <3>3. Xcb!Open(display)'
      <4>1. displays \in Seq(BOOLEAN)
        BY <3>1
      <4> QED
        BY <3>1, <3>2, <4>1, OpenedIsOpen DEF X11!Open, Xcb!Open
    <3> QED
      BY <1>0, <3>1, <3>3 DEF XcbFit
  <2>7. CASE Xcb!GetsConnection \/ Xcb!AsksCount \/ Xcb!IsActive
    BY <1>0, <2>1, <2>2, <2>7 DEF Xcb!GetsConnection, Xcb!AsksCount, Xcb!IsActive, XcbFit
  <2>11. CASE Xcb!AsksActive
    <3> DEFINE called == "xcb_xinerama_is_active_unchecked"
               asked == "xcb_xinerama_is_active"
    <3>1. /\ phase = "running" /\ answer[Me]["XCB"] = "SUCCESS"
          /\ Offered(asked) \/ FoundItself(asked)
      BY <2>11 DEF Xcb!AsksActive, World, Lone, XcbWhere, XcbFit
    <3>2. CallOutcome(called) = "library"
      BY <2>11 DEF Xcb!AsksActive, Xcb!BadCall, Xcb!Calls, Xcb!CallOutcome, CallOutcome, Xcb!Mapped, Mapped
    <3>3. called \in SymsOf("XCB") /\ (FoundItself(asked) => FoundItself(called))
      BY DEF LibrariesSuffice, ExportedTogether, Xcb!Calls, ComesWith, FoundItself
    <3>4. Offered(asked)
      BY <1>0, <3>1, <3>2, <3>3, OfferedHas
    <3> QED
      BY <1>0, <2>2, <2>11, <3>4 DEF Xcb!AsksActive
  <2>8. CASE Xcb!Counts \/ Xcb!NextScreen \/ Xcb!AsksGeometry \/ Xcb!GetsGeometry
    BY <1>0, <2>2, <2>8
    DEF Xcb!Counts, Xcb!NextScreen, Xcb!AsksGeometry, Xcb!GetsGeometry, XcbFit
  <2>9. CASE Xcb!StartsIterating \/ Xcb!Iterates \/ Xcb!Prints
    BY <1>0, <2>2, <2>9 DEF Xcb!StartsIterating, Xcb!Iterates, Xcb!Prints, XcbFit
  <2>10. CASE Xcb!Closes \/ Xcb!IOError({"close"})
    BY <1>0, <2>10 DEF Xcb!Closes, Xcb!ClosesDisplay, Xcb!IOError, XcbFit
  <2> QED
    BY <1>1, <2>3, <2>4, <2>5, <2>6, <2>7, <2>8, <2>9, <2>10, <2>11 DEF XcbTurn
<1>2. CASE WranglerMoves
  BY <1>0, <1>2 DEF WranglerMoves, XcbFit, Xcb!Open, localVars, serverVars
<1>3. CASE Calls("main", "XCB", "xcb_initialised") \/ Calls("init_x11", "X11", "x11_initialised")
  BY <1>0, <1>3 DEF Calls, XcbFit, Xcb!Open, localVars, serverVars
<1>4. CASE ServerMoves
  <2>1. UNCHANGED <<at, displays, display, status>> /\ Xcb!Connected
    BY <1>4, ServerFrame DEF ServerMoves, Xcb!Others, Xcb!Surroundings, Xcb!ServerStep
  <2> QED
    BY <1>0, <2>1 DEF XcbFit, Xcb!Open, Xcb!Connected
<1>5. CASE UNCHANGED <<program, vars, serverVars, at, localVars>>
  BY <1>0, <1>5 DEF XcbFit, Xcb!Open, localVars, serverVars
<1> QED
  BY <1>1, <1>2, <1>3, <1>4, <1>5, XcbSteps

\* At every label the call can be made, but where the wrapper was found.
LEMMA XcbCalls ==
  ASSUME World, XcbWhere, XcbFit, LibrariesSuffice, ExportedTogether, provides \in Editions
  PROVE  Xcb!CallsEndInLibraries
<1> DEFINE called == "xcb_xinerama_is_active_unchecked"
           asked == "xcb_xinerama_is_active"
           lost == at = "ask_active" /\ FoundItself(called)
<1>6. (Xcb!FoundItself(called) <=> FoundItself(called)) /\ Xcb!Calls.ask_active = called
  BY DEF Xcb!Calls, Xcb!FoundItself, FoundItself, Xcb!FirstLoadable, FirstLoadable, Xcb!Min, Min
<1> SUFFICES ASSUME Xcb!At(at) PROVE Xcb!BadCall(Xcb!Calls, Xcb!OnDisplay) <=> lost
  BY <1>6 DEF Xcb!CallsEndInLibraries
<1> HIDE DEF lost
<1>0. called \in SymsOf("XCB") /\ (FoundItself(asked) => FoundItself(called))
  BY DEF LibrariesSuffice, ExportedTogether, Xcb!Calls, ComesWith, FoundItself
<1>1. status = NULL /\ phase = "running"
  BY DEF Xcb!At, World, Lone
<1>2. "X11" \in Module /\ "XCB" \in Module
  BY ExamplesAssumption DEF ExamplesAssumption
<1>3. ASSUME at \in DOMAIN Xcb!Calls, ~lost PROVE Xcb!CallOutcome(Xcb!Calls[at]) = "library"
  <2>1. PICK m \in Module : /\ answer[Me][m] = "SUCCESS"
                            /\ Xcb!Calls[at] \in SymsOf(m) /\ Offered(Xcb!Calls[at])
    <3>1. CASE at \in {"open", "connection", "close"}
      <4>1. ReliedOn("X11", Xcb!Calls[at]) /\ answer[Me]["X11"] = "SUCCESS"
        BY <3>1 DEF LibrariesSuffice, XcbWhere, BeforeCount, AfterCount
      <4> QED
        BY <1>1, <1>2, <4>1, ReliedOffered DEF ReliedOn
    <3>2. CASE at = "parse"
      <4>1. ReliedOn("XCB", Xcb!Calls[at]) /\ answer[Me]["XCB"] = "SUCCESS"
        BY <3>2 DEF LibrariesSuffice, XcbWhere, Xcb!Calls
      <4> QED
        BY <1>1, <1>2, <4>1, ReliedOffered DEF ReliedOn
    <3>3. CASE at \notin {"open", "connection", "close", "parse"}
      <4>1. ComesWith("XCB", Xcb!Calls[at], "xcb_xinerama_is_active")
        BY <1>3, <3>3 DEF LibrariesSuffice
      <4>2. Offered("xcb_xinerama_is_active") /\ answer[Me]["XCB"] = "SUCCESS"
        BY <1>0, <1>3, <3>3 DEF XcbFit, XcbWhere, Xcb!Calls, BeforeCount, AfterCount, OfScreen, lost
      <4> QED
        BY <1>1, <1>2, <4>1, <4>2, ReliedOffered DEF ComesWith
    <3> QED
      BY <3>1, <3>2, <3>3
  <2>2. CallOutcome(Xcb!Calls[at]) = "library"
    BY <1>1, <2>1, OfferedHas
  <2> QED
    BY <2>2 DEF Xcb!CallOutcome, CallOutcome, Xcb!Mapped, Mapped
<1>4. ASSUME at \in Xcb!OnDisplay PROVE Xcb!Open(display)
  <2>1. at \in (BeforeCount \cup AfterCount) \ {"open"}
    BY <1>4 DEF Xcb!OnDisplay, Xcb!Calls, BeforeCount, AfterCount, OfScreen
  <2> QED
    BY <1>1, <2>1 DEF XcbFit
<1>5. ASSUME lost PROVE at \in DOMAIN Xcb!Calls /\ Xcb!CallOutcome(Xcb!Calls[at]) # "library"
  <2>1. at = "ask_active" /\ Xcb!Calls[at] = called /\ FoundItself(called)
    BY <1>5 DEF lost, Xcb!Calls
  <2>2. answer[Me]["XCB"] = "SUCCESS"
    BY <2>1 DEF XcbWhere
  <2>3. CallOutcome(called) = "recursion"
    BY <1>0, <1>1, <1>2, <2>1, <2>2, OfferedHas
  <2> QED
    BY <2>1, <2>3 DEF Xcb!Calls, Xcb!CallOutcome, CallOutcome, Xcb!Mapped, Mapped
<1> QED
  BY <1>3, <1>4, <1>5 DEF Xcb!BadCall

\* What the screen after the first n is in the answer to the query.
Geometry(n) == IF n < Len(reply) THEN reply[n + 1] ELSE ERROR

\* The locals: nothing is printed before the screens are counted; the parameter
\* is counted down while the iterator goes on, and the outcome is what it passed
\* when the parameter was zero.
XcbLocals ==
  /\ screens \in Seq(Geometries) /\ reply \in Seq(Geometries)
  /\ lines \in Seq(Geometries \cup {ERROR})
  /\ num_screens \in Nat /\ iter \in Nat /\ screen_index \in Int
  /\ at \notin AfterCount => lines = <<>>
  /\ at \in {"geometry", "iterator"} => screen_index = Len(lines) /\ outcome = ERROR
  /\ at = "iterate" =>
       /\ screen_index = Len(lines) - iter /\ iter < Len(reply)
       /\ outcome = IF Len(lines) < iter THEN Geometry(Len(lines)) ELSE ERROR
  /\ at = "print" => outcome = Geometry(Len(lines))

\* While the screens stay as they were counted, the query of each geometry is
\* answered with all of them.
Faithful ==
  at \in AfterCount /\ ~changed =>
    /\ server = "up" /\ num_screens = Len(screens)
    /\ Len(lines) <= Len(screens) /\ \A i \in 1..Len(lines) : lines[i] = screens[i]
    /\ at \in OfScreen => Len(lines) < Len(screens)
    /\ at \in {"iterator", "iterate", "print"} => reply = screens
    /\ at = "close" => Len(lines) = Len(screens)

LEMMA XcbLocalsNext ==
  ASSUME XcbWhere, XcbLocals, program = "example_xcb", [Program \/ Others]_examplesVars
  PROVE  XcbLocals'
<1> USE DEF AfterCount, OfScreen
<1>1. CASE XcbTurn
  <2> USE DEF Xcb!At, Xcb!Goes, Xcb!Ends, Xcb!On, Xcb!GoesOn, Xcb!Leaves, Xcb!Calling,
              Xcb!serverVars, Xcb!localVars
  <2>1. ASSUME UNCHANGED <<screens, reply, lines, num_screens, iter, screen_index, outcome>>,
               at' \notin {"geometry", "iterator", "iterate", "print"} \/ at' = at,
               at \in AfterCount => at' \in AfterCount
        PROVE  XcbLocals'
    BY <2>1 DEF XcbLocals, Geometry
  <2>2. CASE Xcb!ReportsFailure \/ Xcb!Initialised \/ Xcb!ParsesDisplay \/ Xcb!AsksForXinerama
    BY <2>1, <2>2
    DEF Xcb!ReportsFailure, Xcb!Initialised, Xcb!ParsesDisplay, Xcb!AsksForXinerama
  <2>3. CASE Xcb!TestsX11 \/ Xcb!Opens \/ Xcb!GetsConnection \/ Xcb!AsksActive \/ Xcb!IsActive
    BY <2>1, <2>3
    DEF Xcb!TestsX11, Xcb!Opens, Xcb!GetsConnection, Xcb!AsksActive, Xcb!IsActive, Xcb!OpensDisplay
  <2>4. CASE Xcb!AsksCount \/ Xcb!NextScreen
    BY <2>1, <2>4 DEF Xcb!AsksCount, Xcb!NextScreen
  <2>5. CASE Xcb!Counts
    BY <2>5 DEF Xcb!Counts, XcbLocals
  <2>6. CASE Xcb!AsksGeometry
    BY <2>6 DEF Xcb!AsksGeometry, XcbLocals
  <2>7. CASE Xcb!GetsGeometry
    <3>1. CASE server = "up"
      BY <2>7, <3>1 DEF Xcb!GetsGeometry, XcbLocals
    <3>2. CASE server # "up"
      BY <2>7, <3>2 DEF Xcb!GetsGeometry, XcbLocals, Geometry
    <3> QED
      BY <3>1, <3>2
  <2>8. CASE Xcb!StartsIterating
    <3>1. CASE reply = <<>>
      BY <2>8, <3>1 DEF Xcb!StartsIterating, XcbLocals, Geometry
    <3>2. CASE reply # <<>>
      BY <2>8, <3>2 DEF Xcb!StartsIterating, XcbLocals
    <3> QED
      BY <3>1, <3>2
  <2>9. CASE Xcb!Iterates
    BY <2>9 DEF Xcb!Iterates, XcbLocals, Geometry
  <2>10. CASE Xcb!Prints
    <3>1. outcome \in Geometries \cup {ERROR}
      BY <2>10 DEF Xcb!Prints, XcbLocals, Geometry
    <3> QED
      BY <2>10, <3>1 DEF Xcb!Prints, XcbLocals
  <2>11. CASE Xcb!Closes
    BY <2>1, <2>11 DEF Xcb!Closes, Xcb!ClosesDisplay
  <2>12. CASE Xcb!IOError({"close"}) /\ UNCHANGED <<num_screens, reply, iter, screen_index, outcome, lines, changed>>
    BY <2>1, <2>12 DEF Xcb!IOError
  <2> QED
    BY <1>1, <2>2, <2>3, <2>4, <2>5, <2>6, <2>7, <2>8, <2>9, <2>10, <2>11, <2>12 DEF XcbTurn
<1>2. CASE WranglerMoves
  BY <1>2 DEF WranglerMoves, XcbLocals, Geometry, localVars, serverVars, xcbVars
<1>3. CASE Calls("main", "XCB", "xcb_initialised") \/ Calls("init_x11", "X11", "x11_initialised")
  BY <1>3 DEF Calls, XcbLocals, Geometry, localVars, serverVars, xcbVars
<1>4. CASE ServerMoves
  <2>1. UNCHANGED <<at, num_screens, reply, iter, screen_index, outcome, lines>>
    BY <1>4, ServerFrame
  <2>2. screens' \in Seq(Geometries)
    <3>1. Xcb!ServerStep /\ screens \in Seq(Geometries)
      BY <1>4 DEF XcbLocals, ServerMoves, Xcb!Others, Xcb!Surroundings
    <3>2. CASE Xcb!ScreenAdded
      BY <3>1, <3>2 DEF Xcb!ScreenAdded
    <3>3. CASE Xcb!ScreenRemoved
      BY <3>1, <3>3 DEF Xcb!ScreenRemoved
    <3> QED
      BY <3>1, <3>2, <3>3 DEF Xcb!ServerStep, Xcb!Event, Xcb!Arrives, Xcb!Lost
  <2> QED
    BY <2>1, <2>2 DEF XcbLocals, Geometry
<1>5. CASE UNCHANGED <<program, vars, serverVars, at, localVars>>
  BY <1>5 DEF XcbLocals, Geometry, localVars, serverVars, xcbVars
<1> QED
  BY <1>1, <1>2, <1>3, <1>4, <1>5, XcbSteps

LEMMA FaithfulNext ==
  ASSUME XcbLocals, Faithful, program = "example_xcb", [Program \/ Others]_examplesVars
  PROVE  Faithful'
<1> USE DEF AfterCount, OfScreen
<1>1. CASE XcbTurn
  <2> USE DEF Xcb!At, Xcb!Goes, Xcb!Ends, Xcb!On, Xcb!GoesOn, Xcb!Leaves, Xcb!Calling,
              Xcb!serverVars, Xcb!localVars
  <2>1. CASE Xcb!ReportsFailure \/ Xcb!Initialised \/ Xcb!ParsesDisplay \/ Xcb!AsksForXinerama
    BY <2>1
    DEF Xcb!ReportsFailure, Xcb!Initialised, Xcb!ParsesDisplay, Xcb!AsksForXinerama, Faithful
  <2>2. CASE Xcb!TestsX11 \/ Xcb!Opens \/ Xcb!GetsConnection \/ Xcb!AsksActive \/ Xcb!IsActive
    BY <2>2
    DEF Xcb!TestsX11, Xcb!Opens, Xcb!GetsConnection, Xcb!AsksActive, Xcb!IsActive, Xcb!OpensDisplay, Faithful
  <2>3. CASE Xcb!AsksCount
    BY <2>3 DEF Xcb!AsksCount, Faithful
  <2>4. CASE Xcb!Counts
    <3>1. lines = <<>> /\ screens \in Seq(Geometries)
      BY <2>4 DEF Xcb!Counts, XcbLocals
    <3>2. /\ UNCHANGED <<lines, screens, server>> /\ at' = "for"
          /\ num_screens' = IF server = "up" THEN Len(screens) ELSE 0
      BY <2>4 DEF Xcb!Counts
    <3>3. ~changed' => server = "up"
      BY <2>4 DEF Xcb!Counts
    <3>4. Len(lines) = 0 /\ 0 <= Len(screens)
      BY <3>1
    <3> QED
      BY <3>2, <3>3, <3>4 DEF Faithful
  <2>5. CASE Xcb!NextScreen
    <3>1. /\ UNCHANGED <<lines, screens, num_screens, reply, server, changed>> /\ at = "for"
          /\ at' = IF Len(lines) < num_screens THEN "ask_geometry" ELSE "close"
      BY <2>5 DEF Xcb!NextScreen
    <3>2. lines \in Seq(Geometries \cup {ERROR}) /\ screens \in Seq(Geometries)
      BY DEF XcbLocals
    <3> QED
      BY <3>1, <3>2 DEF Faithful
  <2>6. CASE Xcb!AsksGeometry \/ Xcb!GetsGeometry
    BY <2>6 DEF Xcb!AsksGeometry, Xcb!GetsGeometry, Faithful
  <2>7. CASE Xcb!StartsIterating \/ Xcb!Iterates
    BY <2>7 DEF Xcb!StartsIterating, Xcb!Iterates, Faithful
  <2>8. CASE Xcb!Prints
    <3>1. SUFFICES ASSUME ~changed PROVE Faithful'
      BY <2>8 DEF Xcb!Prints, Faithful
    <3>2. /\ server = "up" /\ num_screens = Len(screens) /\ reply = screens
          /\ Len(lines) < Len(screens) /\ \A i \in 1..Len(lines) : lines[i] = screens[i]
      BY <2>8, <3>1 DEF Xcb!Prints, Faithful
    <3>3. /\ UNCHANGED <<server, screens, num_screens, reply>> /\ at' = "for"
          /\ lines' = Append(lines, screens[Len(lines) + 1])
      BY <2>8, <3>2 DEF Xcb!Prints, XcbLocals, Geometry
    <3>4. /\ Len(lines') = Len(lines) + 1
          /\ \A i \in 1..Len(lines) : lines'[i] = lines[i]
          /\ lines'[Len(lines) + 1] = screens[Len(lines) + 1]
      BY <3>3 DEF XcbLocals
    <3>5. \A i \in 1..Len(lines') : lines'[i] = screens[i]
      BY <3>2, <3>4 DEF XcbLocals
    <3> QED
      BY <3>2, <3>3, <3>4, <3>5 DEF Faithful, XcbLocals
  <2>9. CASE Xcb!Closes
    BY <2>9 DEF Xcb!Closes, Xcb!ClosesDisplay, Faithful
  <2>10. CASE Xcb!IOError({"close"}) /\ UNCHANGED <<num_screens, reply, iter, screen_index, outcome, lines, changed>>
    BY <2>10 DEF Xcb!IOError, Faithful
  <2> QED
    BY <1>1, <2>1, <2>2, <2>3, <2>4, <2>5, <2>6, <2>7, <2>8, <2>9, <2>10 DEF XcbTurn
<1>2. CASE WranglerMoves
  BY <1>2 DEF WranglerMoves, Faithful, localVars, serverVars, xcbVars
<1>3. CASE Calls("main", "XCB", "xcb_initialised") \/ Calls("init_x11", "X11", "x11_initialised")
  BY <1>3 DEF Calls, Faithful
<1>4. CASE ServerMoves
  <2>1. UNCHANGED <<at, num_screens, reply, iter, screen_index, outcome, lines>>
    BY <1>4, ServerFrame
  <2>2. changed' = (changed \/ screens' # screens \/ server' # server)
    BY <1>4 DEF ServerMoves, Xcb!Others
  <2> QED
    BY <2>1, <2>2 DEF Faithful
<1>5. CASE UNCHANGED <<program, vars, serverVars, at, localVars>>
  BY <1>5 DEF Faithful, localVars, serverVars, xcbVars
<1> QED
  BY <1>1, <1>2, <1>3, <1>4, <1>5, XcbSteps

\* What is printed at the end, and what is printed at each step.
LEMMA XcbPrints ==
  ASSUME XcbLocals, program = "example_xcb"
  PROVE  /\ Faithful => Xcb!ReportsTheScreens
         /\ [Program \/ Others]_examplesVars /\ lines' # lines => lines' = Append(lines, Geometry(Len(lines)))
<1>1. ASSUME Faithful, at = "close", ~changed PROVE lines = screens
  <2>1. /\ Len(lines) = Len(screens) /\ \A i \in 1..Len(lines) : lines[i] = screens[i]
    BY <1>1 DEF Faithful, AfterCount
  <2> QED
    BY <2>1 DEF XcbLocals
<1>2. ASSUME [Program \/ Others]_examplesVars, lines' # lines
      PROVE  lines' = Append(lines, Geometry(Len(lines)))
  <2>1. XcbTurn
    BY <1>2, XcbSteps, ServerFrame DEF WranglerMoves, Calls, localVars, xcbVars
  <2>2. Xcb!Prints
    BY <1>2, <2>1 DEF XcbTurn, Xcb!ReportsFailure, Xcb!Initialised, Xcb!ParsesDisplay, Xcb!AsksForXinerama,
       Xcb!TestsX11, Xcb!Opens, Xcb!GetsConnection, Xcb!AsksActive, Xcb!IsActive, Xcb!AsksCount,
       Xcb!Counts, Xcb!NextScreen, Xcb!AsksGeometry, Xcb!GetsGeometry, Xcb!StartsIterating,
       Xcb!Iterates, Xcb!Closes, Xcb!On, Xcb!Leaves
  <2> QED
    BY <2>2 DEF Xcb!Prints, Xcb!At, XcbLocals
<1> QED
  BY <1>1, <1>2 DEF Xcb!ReportsTheScreens

-----------------------------------------------------------------------------
(* example_xkbcommon.c                                                     *)

XkbWhere ==
  /\ at \in {"main", "initialised", "has"}
  /\ Inside(Me) => at = "initialised"
  /\ at = "initialised" => Awaits("XKBCommon")
  /\ at = "has" => answer[Me]["XKBCommon"] = "SUCCESS"

LEMMA XkbWhereNext ==
  ASSUME TypeInv, XkbWhere, program = "example_xkbcommon", [Program \/ Others]_examplesVars
  PROVE  XkbWhere'
<1>0. "XKBCommon" \in Module
  BY ExamplesAssumption DEF ExamplesAssumption
<1>1. CASE WranglerMoves
  <2>0. at' = at /\ (Awaits("XKBCommon") => Awaits("XKBCommon")')
    BY <1>0, <1>1, AwaitsNext DEF WranglerMoves
  <2>1. Inside(Me)' => Inside(Me)
    BY <1>1, InsideNext
  <2>2. at # "initialised" => answer'[Me]["XKBCommon"] = answer[Me]["XKBCommon"]
    <3>1. at # "initialised" => (Inside(Me) => mod[Me] # "XKBCommon")
      BY DEF XkbWhere
    <3> QED
      BY <1>0, <1>1, <3>1, AnswerStays
  <2> QED
    BY <2>0, <2>1, <2>2 DEF XkbWhere
<1>2. CASE Calls("main", "XKBCommon", "initialised")
  <2>1. at' = "initialised" /\ Awaits("XKBCommon")'
    BY <1>0, <1>2, AwaitsNext DEF Calls
  <2> QED
    BY <2>1 DEF XkbWhere
<1>3. CASE XkbTurn
  <2>1. UNCHANGED vars /\ pc[Me] = "idle" /\ ~Inside(Me)
    BY <1>3, TurnFrame DEF Inside
  <2>2. /\ ~Inside(Me)' /\ answer' = answer
        /\ (Awaits("XKBCommon") => Awaits("XKBCommon")')
    BY <1>0, <2>1, InsideNext, AwaitsNext DEF vars, threadVars
  <2>3. at' = at \/ (at' = "has" /\ answer[Me]["XKBCommon"] = "SUCCESS")
    BY <1>3, MeIsThread
    DEF XkbTurn, Xkb!ReportsFailure, Xkb!Initialised, Xkb!Prints, Xkb!Goes, Xkb!Ends
  <2> QED
    BY <2>2, <2>3 DEF XkbWhere
<1>4. CASE UNCHANGED <<program, vars, serverVars, at, localVars>>
  <2>1. /\ Inside(Me)' = Inside(Me) /\ answer' = answer
        /\ (Awaits("XKBCommon") => Awaits("XKBCommon")')
    BY <1>0, <1>4, InsideNext, AwaitsNext DEF vars, threadVars
  <2> QED
    BY <1>4, <2>1 DEF XkbWhere
<1> QED
  BY <1>1, <1>2, <1>3, <1>4, XkbSteps

\* What main tells is what the system has.
XkbTells ==
  /\ status = NULL => reported = NULL /\ has = NULL
  /\ status = 0 => /\ FirstLoadable("xkbcommon") # NULL /\ reported = NULL
                   /\ has = ("xkb_context_new" \in provides[FirstLoadable("xkbcommon")])
  /\ status = 1 => /\ has = NULL /\ (reported = "OPEN_FAILED" => FirstLoadable("xkbcommon") = NULL)
                   /\ reported \in {"OPEN_FAILED", "ATEXIT_FAILED"}

LEMMA XkbTellsIs == XkbTells => Xkb!TellsOfTheSystem
<1>1. Xkb!FirstLoadable("xkbcommon") = FirstLoadable("xkbcommon")
  BY DEF Xkb!FirstLoadable, FirstLoadable, Xkb!Min, Min
<1> QED
  BY <1>1, ZenonT(30) DEF XkbTells, Xkb!TellsOfTheSystem, Xkb!EXIT_SUCCESS, Xkb!EXIT_FAILURE

LEMMA XkbTellsNext ==
  ASSUME World, XkbWhere, XkbTells, FailureIsJustified, XkbcommonAlone,
         program = "example_xkbcommon", [Program \/ Others]_examplesVars,
         UNCHANGED <<loadable, provides>>
  PROVE  XkbTells'
<1> DEFINE file == FirstLoadable("xkbcommon")
<1>1. file' = file
  BY DEF FirstLoadable
<1> USE <1>1 DEF XkbTells
<1> HIDE DEF file
<1>2. /\ "XKBCommon" \in Module /\ NULL \notin {0, 1} /\ Me \in Thread
      /\ answer \in [Thread -> [Module -> Codes \cup {NULL}]]
  BY MeIsThread, ExamplesAssumption DEF ExamplesAssumption, World, Safe, TypeInv, TypeOK
<1>3. ASSUME UNCHANGED <<status, reported, has>> PROVE XkbTells'
  BY <1>3 DEF file
<1>4. CASE XkbTurn
  <2> USE DEF Xkb!At, Xkb!Goes, Xkb!Ends, Xkb!EXIT_SUCCESS, Xkb!EXIT_FAILURE
  <2>1. status = NULL /\ pc[Me] = "idle" /\ ~Inside(Me) /\ phase = "running"
    BY <1>4, TurnFrame DEF Inside, World, Lone
  <2>2. CASE Xkb!ReportsFailure
    <3>1. /\ at = "initialised" /\ answer[Me]["XKBCommon"] # "SUCCESS"
          /\ reported' = Xkb!xewErrorString(answer[Me]["XKBCommon"]) /\ status' = 1 /\ has' = has
      BY <2>2, MeIsThread DEF Xkb!ReportsFailure
    <3>2. answer[Me]["XKBCommon"] # NULL
      BY <2>1, <3>1 DEF XkbWhere, Awaits
    <3>3. answer[Me]["XKBCommon"] \in {"OPEN_FAILED", "ATEXIT_FAILED"}
      BY <1>2, <3>1, <3>2 DEF Codes
    <3>4. reported' = answer[Me]["XKBCommon"]
      BY <3>1, <3>3 DEF Xkb!xewErrorString
    <3>5. answer[Me]["XKBCommon"] = "OPEN_FAILED" => file = NULL
      BY <1>2, <2>1 DEF FailureIsJustified, Told, XkbcommonAlone, file
    <3> QED
      BY <1>2, <2>1, <3>1, <3>3, <3>4, <3>5 DEF file
  <2>3. CASE Xkb!Initialised
    BY <1>3, <2>3 DEF Xkb!Initialised
  <2>4. CASE Xkb!Prints
    <3>1. /\ answer[Me]["XKBCommon"] = "SUCCESS" /\ status' = 0 /\ reported' = reported
          /\ has' = (functor["xkb_context_new"] # NULL)
      BY <2>4 DEF Xkb!Prints, Xkb!HasSymbol, XkbWhere
    <3>2. LibOf["xkb_context_new"] = "xkbcommon"
      BY <1>2, LibOfSlot DEF XkbcommonAlone
    <3>3. file \in Mapped /\ file # NULL /\ functor["xkb_context_new"] \in DlSym(file, "xkb_context_new")
      BY <1>2, <2>1, <3>1, <3>2, Resolved DEF XkbcommonAlone, file
    <3>4. has' = ("xkb_context_new" \in provides[file])
      BY <3>1, <3>3 DEF DlSym
    <3> QED
      BY <1>2, <2>1, <3>1, <3>3, <3>4 DEF file
  <2> QED
    BY <1>4, <2>2, <2>3, <2>4 DEF XkbTurn
<1>5. CASE WranglerMoves \/ Calls("main", "XKBCommon", "initialised")
           \/ UNCHANGED <<program, vars, serverVars, at, localVars>>
  BY <1>3, <1>5 DEF WranglerMoves, Calls, localVars
<1> QED
  BY <1>4, <1>5, XkbSteps

-----------------------------------------------------------------------------
(* What holds in every process.                                            *)

\* The system stays as it was found.
LEMMA ExamplesStays ==
  ASSUME World, program \in Programs, [Program \/ Others]_examplesVars
  PROVE  UNCHANGED <<loadable, provides>>
<1>1. [OrderlyNext]_vars
  BY OrderlyStep DEF World, Safe
<1>2. [OrderlyNext]_vars => [Next]_vars
  BY DEF OrderlyNext, SerialClient, Next
<1> QED
  BY <1>1, <1>2, SystemStays

THEOREM WorldAlways ==
  ExamplesSpec => [](World /\ FailureIsJustified /\ program \in Programs /\ provides \in Editions)
<1>1. ExamplesInit => provides \in Editions
  BY ExamplesStart DEF Init, LinkerInit
<1>2. World /\ program \in Programs /\ provides \in Editions /\ [Program \/ Others]_examplesVars
        => (provides \in Editions)'
  BY ExamplesStays
<1>3. ExamplesSpec => [](Safe /\ SuccessMeansReady /\ FailureIsJustified /\ program \in Programs /\ Lone)
  BY ExamplesAreOrderly, OrderlyIsSerial, SerialIsSpec, SerialAlways, SuccessAlwaysReady,
     FailureAlwaysJustified, PTL
<1>4. Safe /\ SuccessMeansReady /\ Lone => World
  BY DEF World
<1> QED
  BY <1>1, <1>2, <1>3, <1>4, PTL DEF ExamplesSpec

\* Where the programs are and what they keep, with any libraries.
Manners ==
  /\ program = "example_x11" => X11Where /\ OneDisplay /\ Attentive
  /\ program = "example_xcb" => XcbWhere /\ XcbReports /\ XcbLocals /\ Faithful
  /\ program = "example_xkbcommon" => XkbWhere

LEMMA MannersStart == ExamplesInit => Manners
<1> SUFFICES ASSUME ExamplesInit PROVE Manners
  OBVIOUS
<1>1. ~Inside(Me)
  BY ExamplesStart, MeIsThread DEF Init, Inside
<1>2. X11Where /\ XcbWhere /\ XkbWhere
  BY <1>1, ExamplesStart
  DEF X11Where, XcbWhere, XkbWhere, X11Labels, XcbLabels, BeforeCount, AfterCount, OfScreen
<1>3. OneDisplay /\ Attentive
  BY ExamplesStart DEF OneDisplay, Attentive, X11!WindowIsCompleted
<1>4. XcbReports /\ Faithful
  BY ExamplesStart DEF XcbReports, Faithful, AfterCount, OfScreen
<1>5. ASSUME program = "example_xcb" PROVE XcbLocals
  <2>1. /\ num_screens = 0 /\ reply = <<>> /\ iter = 0 /\ screen_index = 0 /\ lines = <<>>
        /\ at = "main"
    BY ExamplesStart DEF ExamplesInit, Xcb!LocalInit
  <2>2. \E n \in 0..MaxScreens : screens \in [1..n -> Geometries]
    BY <1>5 DEF ExamplesInit, Xcb!ClientInit, Xcb!XServerInit
  <2>3. screens \in Seq(Geometries)
    BY <2>2, ExamplesAssumption DEF ExamplesAssumption
  <2> QED
    BY <2>1, <2>3 DEF XcbLocals
<1> QED
  BY <1>2, <1>3, <1>4, <1>5 DEF Manners

LEMMA MannersNext ==
  ASSUME World, Manners, program \in Programs, [Program \/ Others]_examplesVars
  PROVE  Manners'
<1>1. TypeInv /\ Lone /\ program' = program /\ NULL \notin {0, 1}
  BY AnyStep, ExamplesAssumption DEF World, Safe, ExamplesAssumption
<1>2. ASSUME program = "example_x11" PROVE (X11Where /\ OneDisplay /\ Attentive)'
  BY <1>1, <1>2, X11WhereNext, OneDisplayNext, AttentiveNext DEF Manners
<1>3. ASSUME program = "example_xcb" PROVE (XcbWhere /\ XcbReports /\ XcbLocals /\ Faithful)'
  BY <1>1, <1>3, XcbWhereNext, XcbReportsNext, XcbLocalsNext, FaithfulNext DEF Manners
<1>4. ASSUME program = "example_xkbcommon" PROVE XkbWhere'
  BY <1>1, <1>4, XkbWhereNext DEF Manners
<1> QED
  BY <1>1, <1>2, <1>3, <1>4 DEF Manners

THEOREM MannersAlways == ExamplesSpec => [](Manners /\ World /\ program \in Programs)
BY WorldAlways, MannersStart, MannersNext, PTL DEF ExamplesSpec

\* While example_x11.c waits for events its window is complete, or the event that
\* makes it draw is waiting (the loop of openTestWindow): with any libraries, any
\* number of events, wherever the connection breaks.
THEOREM WindowIsAlwaysCompleted == ExamplesSpec => []WindowIsCompleted
<1>1. Manners => WindowIsCompleted
  BY DEF Manners, Attentive, WindowIsCompleted
<1> QED
  BY <1>1, MannersAlways, PTL

\* example_x11.c has no two displays open, and none when main has returned
\* (testXinerama, openTestWindow).
THEOREM DisplaysAlwaysClosed == ExamplesSpec => []DisplaysAreClosed
<1>1. Manners => DisplaysAreClosed
  BY DEF Manners, OneDisplay, DisplaysAreClosed, X11!DisplaysAreClosed, X11!Open, X11!Connected,
         X11!EXIT_SUCCESS
<1> QED
  BY <1>1, MannersAlways, PTL

\* As long as the screens are what they were when they were counted,
\* example_xcb.c prints all of them in their order (testXinerama).
THEOREM ReportsTheScreensAlways == ExamplesSpec => []ReportsTheScreens
<1>1. Manners => ReportsTheScreens
  BY XcbPrints DEF Manners, ReportsTheScreens
<1> QED
  BY <1>1, MannersAlways, PTL

\* A line has the geometry of its screen in the answer to the query made for it,
\* or is an error when there is no such screen (xineramaScreenGeometry).
THEOREM LinesAlwaysAnswer == ExamplesSpec => LinesAreAnswers
<1>1. Manners /\ program \in Programs /\ [Program \/ Others]_examplesVars =>
        [lines' # lines =>
           lines' = Append(lines, IF Len(lines) < Len(reply) THEN reply[Len(lines) + 1]
                                  ELSE ERROR)]_(Xcb!exampleVars)
  <2> SUFFICES ASSUME Manners, program \in Programs, [Program \/ Others]_examplesVars, lines' # lines
               PROVE  lines' = Append(lines, Geometry(Len(lines)))
    BY DEF Geometry
  <2>1. program # "example_x11"
    BY X11Steps, ServerFrame DEF WranglerMoves, Calls, localVars, xcbVars, X11Turn
  <2>2. program # "example_xkbcommon"
    BY XkbSteps DEF WranglerMoves, Calls, localVars, xcbVars, XkbTurn
  <2> QED
    BY <2>1, <2>2, XcbPrints DEF Programs, Manners
<1> QED
  BY <1>1, MannersAlways, PTL DEF ExamplesSpec, LinesAreAnswers, Xcb!LinesAreAnswers

\* example_xcb.c exits with a failure, after a text about it, when Init of XCB
\* failed, and otherwise only if the connection broke (main).
THEOREM FailureAlwaysReported == ExamplesSpec => []FailureIsReported
<1>1. Manners => FailureIsReported
  BY MeIsThread DEF Manners, XcbReports, FailureIsReported, Xcb!FailureIsReported, Xcb!EXIT_FAILURE
<1> QED
  BY <1>1, MannersAlways, PTL

\* Status, message and answer of example_xkbcommon.c tell what the system has:
\* whether the library is there, and whether it has xkb_context_new (main).
THEOREM TellsOfTheSystemAlways ==
  ASSUME XkbcommonAlone
  PROVE  ExamplesSpec => []TellsOfTheSystem
<1> DEFINE Truthful == program = "example_xkbcommon" => XkbTells
<1>1. ExamplesInit => Truthful
  BY ExamplesStart, ExamplesAssumption DEF XkbTells, ExamplesInit, Xkb!LocalInit, ExamplesAssumption
<1>2. World /\ FailureIsJustified /\ Manners /\ program \in Programs /\ Truthful
        /\ [Program \/ Others]_examplesVars => Truthful'
  BY XkbTellsNext, ExamplesStays, AnyStep DEF Manners
<1>3. Truthful => TellsOfTheSystem
  BY XkbTellsIs DEF TellsOfTheSystem
<1> QED
  BY <1>1, <1>2, <1>3, MannersAlways, WorldAlways, PTL DEF ExamplesSpec

\* Every call that example_x11.c and example_xcb.c make reaches its library, on a
\* display that is open, but for the first call for Xinerama where its library is
\* not there and the wrappers are exported: then, and only then, does a wrapper
\* call itself.  The programs test what Init returned and ask HAS_SYMBOL for one
\* function of each optional library.  That is enough for all else in a build of
\* either kind, where the libraries have the functions that come with the one
\* asked for and there is a server at the start.
THEOREM CallsAlwaysEndInLibraries ==
  ASSUME LibrariesSuffice, ExportedTogether, Servers \subseteq {"up"}
  PROVE  ExamplesSpec => []CallsEndInLibraries
<1> DEFINE Fit == /\ program = "example_x11" => X11Fit
                  /\ program = "example_xcb" => XcbFit
<1>1. ExamplesInit => Fit
  BY ExamplesStart
  DEF X11Fit, XcbFit, OfTest, OfWindow, BeforeX11, BeforeCount, AfterCount, OfScreen
<1>2. World /\ Manners /\ program \in Programs /\ Fit /\ [Program \/ Others]_examplesVars => Fit'
  BY X11FitNext, XcbFitNext, ExamplesStays, AnyStep DEF Manners
<1>3. World /\ Manners /\ provides \in Editions /\ Fit => CallsEndInLibraries
  BY X11Calls, XcbCalls DEF Manners, CallsEndInLibraries
<1> QED
  BY <1>1, <1>2, <1>3, MannersAlways, WorldAlways, PTL DEF ExamplesSpec
=============================================================================
