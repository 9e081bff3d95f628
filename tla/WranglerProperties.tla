------------------------- MODULE WranglerProperties -------------------------
(***************************************************************************)
(* What the wrangling logic must guarantee to the application, stated over *)
(* the state of module Wrangler.  Which kind of application (Spec,         *)
(* SerialSpec, OrderlySpec) each property needs is said with the property. *)
(***************************************************************************)
EXTENDS Wrangler, FiniteSetsExt

SlotsOf(m) == {Libs[m][i] : i \in 1..Len(Libs[m])}
SymsOf(m) == {Syms[m][i] : i \in 1..Len(Syms[m])}
Told(t, m) == answer[t][m]

\* The reference definition of the search for a library: the first name of
\* its list that can be opened, NULL when none can.
FirstLoadable(l) ==
  LET I == {i \in 1..Len(Paths[l]) : Paths[l][i] \in loadable}
  IN  IF I = {} THEN NULL ELSE Paths[l][Min(I)]

TypeOK ==
  /\ LinkerTypeOK
  /\ is_initialized \in [Module -> BOOLEAN]
  /\ result \in [Module -> Codes]
  /\ lib \in [Lib -> Soname \cup {NULL}]
  /\ functor \in [Sym -> Soname \cup {NULL, Wrapper}]
  /\ handlers \in Seq(Module \cup {App})
  /\ closing \in Module \cup {NULL}
  /\ phase \in {"running", "exiting", "ended"}
  /\ pc \in [Thread -> Labels]
  /\ mod \in [Thread -> Module \cup {NULL}]
  /\ cur \in [Thread -> Nat \ {0}]
  /\ path \in [Thread -> Nat \ {0}]
  /\ answer \in [Thread -> [Module -> Codes \cup {NULL}]]

-----------------------------------------------------------------------------
(* The wrappers: <function>(...) { return <function>_impl(...); }          *)

\* XEW_HAS_SYMBOL_IMPL.
HasSymbol(s) == functor[s] # NULL

\* Where a call of the wrapper of s ends up: in the library, in itself again,
\* at address zero, or where a library used to be.
CallOutcome(s) ==
  CASE functor[s] = NULL    -> "null"
    [] functor[s] = Wrapper -> "recursion"
    [] OTHER                -> IF functor[s] \in Mapped THEN "library" ELSE "unmapped"

-----------------------------------------------------------------------------
(* Properties of every application (Spec). *)

\* The balance of opens and closes is never negative, and a handle that is
\* stored is one the wrangler still holds a reference to, whatever number of
\* threads initialised the module and however often its exit handler was
\* registered; only the handle being cleared is exempt.
HandlesHeld ==
  /\ \A f \in Soname : opened[f] >= 0
  /\ \A l \in Lib : lib[l] # NULL =>
       \/ opened[lib[l]] > 0
       \/ closing # NULL /\ l = ClosedSlot(closing)

\* No library is open that exit would forget: a module that holds a handle
\* has its exit handler in the atexit list until the process exits.
HandlerBeforeHandle ==
  phase = "running" =>
    \A m \in Module : (\E l \in SlotsOf(m) : lib[l] # NULL) =>
      \E i \in 1..Len(handlers) : handlers[i] = m

\* While the process runs, a function that <MODULE>_HAS_SYMBOL reports as
\* available can be called: the call ends in the library.  (Needs wrappers
\* that are not exported: see the run exported.)
AvailableMeansCallable ==
  phase = "running" => \A s \in Sym : HasSymbol(s) => CallOutcome(s) = "library"

\* However often Init is called, the atexit list holds the handler of a module
\* at most once for each thread, and no file is opened more often than that:
\* neither resource is used up by repeated calls.
AttemptsBounded ==
  /\ \A m \in Module :
       Cardinality({i \in 1..Len(handlers) : handlers[i] = m}) <= Cardinality(Thread)
  /\ \A f \in Soname : opened[f] <= Cardinality(Thread)

\* While the process runs, OPEN_FAILED is only reported when a required library
\* of the module cannot be opened under any of its names, and not because threads
\* race through openLibraries.  It can be the effect of a race with exit: once
\* another thread has begun to exit, atExitHandler may clear the handle between
\* its open and its test, and a library that opens is reported as one that does
\* not.
FailureIsJustified ==
  phase = "running" =>
    \A t \in Thread, m \in Module : Told(t, m) = "OPEN_FAILED" =>
      \E l \in SlotsOf(m) \cap Required : FirstLoadable(l) = NULL

\* While the process runs, a functor that was bound keeps its value, even
\* when a second thread fetches the same functions again.
BoundFunctorsStay ==
  [][phase' = "running" =>
       \A s \in Sym : HasSymbol(s) => functor'[s] = functor[s]]_vars

\* Every call of Init returns, even if the threads get in each other's way.
InitReturns == \A t \in Thread : Inside(t) ~> (~Inside(t) \/ phase = "ended")

-----------------------------------------------------------------------------
(* Properties of applications whose calls of Init do not overlap. *)

\* XEW_SUCCESS means the work is done: every library slot of the module has
\* the first file of its list that opens, the required ones have one, and
\* every functor has what that library says.
SuccessMeansReady ==
  phase = "running" =>
    \A t \in Thread, m \in Module : Told(t, m) = "SUCCESS" =>
      /\ \A l \in SlotsOf(m) : lib[l] = FirstLoadable(l)
      /\ \A l \in SlotsOf(m) \cap Required : lib[l] # NULL
      /\ \A s \in SymsOf(m) : functor[s] \in DlSym(lib[LibOf[s]], s)

\* A failed Init leaves no function available, so that an application that
\* relies on HAS_SYMBOL alone never calls into half a set of libraries.
FailureBindsNothing ==
  \A t \in Thread, m \in Module :
    Told(t, m) \in {"OPEN_FAILED", "ATEXIT_FAILED"} =>
      \A s \in SymsOf(m) : ~HasSymbol(s)

\* All calls of Init for a module, now and later and by all threads, return
\* the same code: the attempt is made once and its outcome is kept.
OneAnswer ==
  [][\A t, u \in Thread, m \in Module :
       Told(t, m) # NULL /\ Told(u, m)' # NULL => Told(u, m)' = Told(t, m)]_vars

\* The library that the exit handler closes is let go completely by the end
\* of the process.
PrimaryReleased ==
  phase = "ended" =>
    \A m \in Module : \A i \in 1..Len(Paths[ClosedSlot(m)]) :
      opened[Paths[ClosedSlot(m)][i]] = 0

\* Functors are not reset at exit; one that points at nothing is always of the
\* module's first library, after its own exit handler closed it, and with no
\* library of any module left that needs it: for XCB, whose libxcb-keysyms
\* needs libxcb, there is none.
NeverDangling ==
  \A m \in Module : \A s \in SymsOf(m) :
    functor[s] \in Soname /\ functor[s] \notin Mapped =>
      /\ LibOf[s] = Libs[m][1]
      /\ closing = m \/ lib[LibOf[s]] = NULL
      /\ m # "XCB"

\* What that takes: among the libraries that m cannot do without and never
\* closes is one that needs the first library of m.
Anchored(m) ==
  \E k \in SlotsOf(m) \cap Required :
    /\ k # Libs[m][1]
    /\ \A i \in 1..Len(Paths[k]) : Paths[Libs[m][1]][1] \in Deps[Paths[k][i]]

\* When the application's own exit handler runs, what HAS_SYMBOL reports as
\* available can still be called.  (Like AvailableMeansCallable, of a process
\* that exports no wrapper.)
CleanupSafe ==
  phase = "exiting" /\ closing = NULL /\ handlers # <<>> /\ NextHandler = App =>
    \A s \in Sym : HasSymbol(s) => CallOutcome(s) = "library"

-----------------------------------------------------------------------------
(* The refinement of InitOnce: a module has settled once its attempt was   *)
(* marked and no thread is still making it.                                *)

Settled(m) ==
  is_initialized[m] /\ \A t \in Thread : mod[t] = m => pc[t] = "return"

Once == INSTANCE InitOnce WITH
  Offers  <- [m \in Module |-> SymsOf(m)],
  Pending <- NULL,
  outcome <- [m \in Module |-> IF Settled(m) THEN result[m] ELSE NULL],
  usable  <- [m \in Module |->
                IF Settled(m) THEN {s \in SymsOf(m) : HasSymbol(s)} ELSE {}]

\* With serial calls the wrangling logic implements InitOnce.
ImplementsInitOnce == Once!Spec
=============================================================================
