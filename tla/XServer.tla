------------------------------ MODULE XServer ------------------------------
(***************************************************************************)
(* The X server as the programs in example/ see it through Xlib and XCB:   *)
(* whether there is one, the displays opened on it, the screens that       *)
(* Xinerama tells of, the events of the one window.  It is external to the *)
(* repository.  While nobody is connected it does not change.              *)
(***************************************************************************)
EXTENDS Integers, Sequences

CONSTANTS
  Servers,      \* how it may be found: a subset of {"up", "none"}
  Geometries,   \* what a screen may be
  MaxScreens,   \* bound: screens at a time
  MaxQueue      \* bound: events that wait

VARIABLES
  server,       \* "up", "none" or "lost", when the connection broke
  active,       \* whether Xinerama is
  screens,      \* a geometry for each screen
  displays,     \* displays[d]: display d was opened, and not closed
  selected,     \* the window has a mask of events
  queue         \* events that XNextEvent did not take yet

serverVars == <<server, active, screens, displays, selected, queue>>
windowVars == <<selected, queue>>

XServerInit ==
  /\ server \in Servers
  /\ active \in BOOLEAN
  /\ screens \in UNION {[1..n -> Geometries] : n \in 0..MaxScreens}
  /\ displays = <<>> /\ selected = FALSE /\ queue = <<>>

Open(d) == d \in DOMAIN displays /\ displays[d]
Connected == \E d \in DOMAIN displays : displays[d]
Waits(event) == \E i \in DOMAIN queue : queue[i] = event

Arrives(event) ==
  /\ Len(queue) < MaxQueue
  /\ queue' = Append(queue, event)
  /\ UNCHANGED <<server, active, screens, displays, selected>>

\* Somebody plugs a screen in or out, presses a key, uncovers the window or
\* changes the keyboard (of which every client is told); the connection breaks.
ScreenAdded ==
  /\ Len(screens) < MaxScreens
  /\ \E g \in Geometries : screens' = Append(screens, g)
  /\ UNCHANGED <<server, active, displays, windowVars>>
ScreenRemoved ==
  /\ screens # <<>>
  /\ screens' = Tail(screens)
  /\ UNCHANGED <<server, active, displays, windowVars>>
Event == \/ selected /\ Arrives("KeyPress")
         \/ selected /\ Arrives("Expose")
         \/ Arrives("MappingNotify")
Lost == server' = "lost" /\ UNCHANGED <<active, screens, displays, windowVars>>

ServerStep == server = "up" /\ Connected /\ (ScreenAdded \/ ScreenRemoved \/ Event \/ Lost)
=============================================================================
