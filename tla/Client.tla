------------------------------- MODULE Client -------------------------------
(***************************************************************************)
(* What the programs in example/ have in common: one thread that calls     *)
(* Init, tests what it returned, calls wrappers and ends, composed with    *)
(* the wrangling logic (Wrangler) and with the X server (XServer).  A      *)
(* label is the call that comes next; after a call that does not reach a   *)
(* library, or on a display that is not open, nothing follows.             *)
(***************************************************************************)
EXTENDS WranglerProperties, XServer

VARIABLES
  at,          \* the label
  display,     \* the local variable, or NULL
  status,      \* what the process exits with, or NULL while it runs
  reported     \* the text of an error that was printed, or NULL

clientVars == <<at, display, status, reported>>
allVars == <<vars, serverVars, clientVars>>

EXIT_SUCCESS == 0
EXIT_FAILURE == 1

Main == CHOOSE t \in Thread : TRUE

ClientInit ==
  /\ Init /\ XServerInit
  /\ at = "main" /\ display = NULL /\ status = NULL /\ reported = NULL

\* xewErrorString
xewErrorString(code) ==
  CASE code = "SUCCESS"       -> "SUCCESS"
    [] code = "OPEN_FAILED"   -> "OPEN_FAILED"
    [] code = "ATEXIT_FAILED" -> "ATEXIT_FAILED"
    [] OTHER                  -> "UNKNOWN"

-----------------------------------------------------------------------------
(* Steps of a program.  Calls[l] is the function called at label l, and    *)
(* OnDisplay are the labels at which it is called on the display.          *)

\* The program is at a label and can take the step there.
At(label) == at = label /\ status = NULL /\ pc[Main] = "idle"

BadCall(Calls, OnDisplay) ==
  \/ at \in DOMAIN Calls /\ CallOutcome(Calls[at]) # "library"
  \/ at \in OnDisplay /\ ~Open(display)

\* The look-up of s found the wrapper of s, for want of the library: HAS_SYMBOL
\* is told that s is available, and a call of the wrapper is one of itself.
FoundItself(s) == s \in Exported /\ FirstLoadable(LibOf[s]) = NULL
Recurses(Calls) == At(at) /\ at \in DOMAIN Calls /\ CallOutcome(Calls[at]) = "recursion"

Goes(label) == at' = label /\ UNCHANGED <<vars, status, reported>>
Ends(code) == status' = code /\ UNCHANGED <<vars, at, reported>>

CallsInit(label, m, then) ==
  /\ At(label)
  /\ CallInit(Main, m)
  /\ at' = then
  /\ UNCHANGED <<serverVars, display, status, reported>>

\* XOpenDisplay(NULL), XCloseDisplay(display)
OpensDisplay(then) ==
  /\ IF server = "up"
     THEN displays' = Append(displays, TRUE) /\ display' = Len(displays) + 1
     ELSE UNCHANGED displays /\ display' = NULL
  /\ UNCHANGED <<server, active, screens, windowVars>>
  /\ Goes(then)
ClosesDisplay ==
  /\ displays' = [displays EXCEPT ![display] = FALSE]
  /\ UNCHANGED <<server, active, screens, windowVars, display>>

\* When the connection is lost, Xlib ends the process.
IOError(OnDisplay) ==
  /\ At(at) /\ at \in OnDisplay /\ Open(display) /\ server = "lost"
  /\ Ends(EXIT_FAILURE) /\ UNCHANGED <<serverVars, display>>

\* Init goes on, or exit does.
WranglerStep ==
  /\ InitStep(Main) \/ ExitStep \/ (status # NULL /\ Exit(Main))
  /\ UNCHANGED <<serverVars, clientVars>>
Surroundings ==
  /\ status = NULL
  /\ ServerStep
  /\ UNCHANGED <<vars, clientVars>>
=============================================================================
