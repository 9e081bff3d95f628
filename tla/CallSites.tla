----------------------------- MODULE CallSites -----------------------------
(***************************************************************************)
(* How the names in a program that includes the headers of the library     *)
(* become calls: the preprocessor replaces a variadic function by its      *)
(* functor, everything else is a call of the wrapper; <MODULE>_HAS_SYMBOL  *)
(* pastes a suffix to what the preprocessor made of its argument.          *)
(***************************************************************************)
EXTENDS WranglerProperties

CONSTANTS
  Wrapped,   \* functions with a wrapper in this build
  Macros,    \* variadic functions, which are macros for their functors
  Declares   \* Declares[l]: the functions in the headers of the library of slot l

ASSUME CallSitesAssumption ==
  /\ Macros \cap Wrapped = {}
  /\ Wrapped \cup Macros \subseteq Sym
  /\ \A l \in Lib : Declares[l] \subseteq Sym

Callable == Wrapped \cup Macros

Functor(name) == name \o "_impl"

\* What the preprocessor makes of the name of a function.
Expanded(s) == IF s \in Macros THEN Functor(s) ELSE s

\* The name <MODULE>_HAS_SYMBOL compares with NULL: on its way to the macro
\* that pastes the suffix the argument is expanded.
Asked(s) == Functor(Expanded(s))

-----------------------------------------------------------------------------
\* After XEW_SUCCESS a call of any function of the module ends in the library
\* whose header declares it if that library could be opened and has the
\* function, and HAS_SYMBOL is false if not.  The wrappers, the functors and
\* the look-ups are generated apart from each other; for this to hold all the
\* lists have to agree for every function.  (HAS_SYMBOL is false of a function
\* without a library only in a process that exports no wrapper: see the run
\* exported.)
ServedFromHome ==
  phase = "running" /\ Quiet =>
    \A t \in Thread, m \in Module : Told(t, m) = "SUCCESS" =>
      \A l \in SlotsOf(m) : \E h \in {FirstLoadable(l)} :
        /\ Declares[l] \cap Callable \subseteq SymsOf(m)
        /\ \A s \in Declares[l] \cap Callable :
             functor[s] = IF h # NULL /\ s \in provides[h] THEN h ELSE NULL

\* What the lists must agree on: what an application can call is fetched, by the
\* module whose header declares it and from the library that header is of.
ListsAgree ==
  \A m \in Module : \A l \in SlotsOf(m) :
    Declares[l] \cap Callable \subseteq {s \in SymsOf(m) : LibOf[s] = l}

\* An application that was told XEW_SUCCESS can ask <MODULE>_HAS_SYMBOL of every
\* function that it can call: the name it comes to is the name of a functor.
EveryFunctionCanBeAsked ==
  \A t \in Thread, m \in Module : Told(t, m) = "SUCCESS" =>
    {Asked(s) : s \in Callable \cap SymsOf(m)} \subseteq {Functor(s) : s \in SymsOf(m)}
=============================================================================
