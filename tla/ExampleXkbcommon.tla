-------------------------- MODULE ExampleXkbcommon --------------------------
(***************************************************************************)
(* example/example_xkbcommon.c: main.                                      *)
(***************************************************************************)
EXTENDS Client

VARIABLE
  has          \* the answer printed for HAS(xkb_context_new), or NULL

exampleVars == <<allVars, has>>

LocalInit == has = NULL
ExampleInit == ClientInit /\ LocalInit

CallsXkbcommonInit == CallsInit("main", "XKBCommon", "initialised") /\ UNCHANGED has

\* A mistake for ReportsFailure: the text is printed, the program goes on.
ReportsAndGoesOn ==
  /\ At("initialised") /\ answer[Main]["XKBCommon"] # "SUCCESS"
  /\ reported' = xewErrorString(answer[Main]["XKBCommon"]) /\ at' = "has"
  /\ UNCHANGED <<vars, status, serverVars, display, has>>
ReportsFailure ==
  /\ At("initialised") /\ answer[Main]["XKBCommon"] # "SUCCESS"
  /\ reported' = xewErrorString(answer[Main]["XKBCommon"]) /\ status' = EXIT_FAILURE
  /\ UNCHANGED <<vars, at, serverVars, display, has>>
Initialised ==
  /\ At("initialised") /\ answer[Main]["XKBCommon"] = "SUCCESS"
  /\ Goes("has") /\ UNCHANGED <<serverVars, display, has>>
Prints ==
  /\ At("has")
  /\ has' = HasSymbol("xkb_context_new")
  /\ Ends(EXIT_SUCCESS) /\ UNCHANGED <<serverVars, display>>

Program ==
  \/ CallsXkbcommonInit \/ ReportsFailure \/ Initialised \/ Prints
  \/ WranglerStep /\ UNCHANGED has

ExampleSpec == ExampleInit /\ [][Program]_exampleVars /\ WF_exampleVars(Program)

-----------------------------------------------------------------------------
\* Status and output tell of the system: the program exits well when one of the
\* library's file names can be opened, and then the answer about xkb_context_new
\* is whether the first such file defines it; it exits with a failure when none
\* can, and says so, or when atexit failed, which it says instead (main).
TellsOfTheSystem ==
  LET file == FirstLoadable("xkbcommon")
  IN  /\ status = EXIT_SUCCESS =>
           file # NULL /\ reported = NULL /\ has = ("xkb_context_new" \in provides[file])
      /\ status = EXIT_FAILURE =>
           has = NULL /\ (reported = "OPEN_FAILED" => file = NULL)
                     /\ reported \in {"OPEN_FAILED", "ATEXIT_FAILED"}
=============================================================================
