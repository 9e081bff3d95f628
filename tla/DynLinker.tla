----------------------------- MODULE DynLinker -----------------------------
(***************************************************************************)
(* The dynamic linker as source/xew_util.h uses it: dynamic_library_open,  *)
(* dynamic_library_find and dynamic_library_close on a POSIX system        *)
(* (dlopen(path, RTLD_NOW), dlsym, dlclose).  The linker is external to    *)
(* the repository; only what the wrangler can observe of it is modelled:   *)
(*                                                                         *)
(*   - which file names can be opened on this system (loadable) and which  *)
(*     functions each of them defines (provides): both are chosen once,    *)
(*     the system does not change while the process runs;                  *)
(*   - a count of dlopen calls not yet undone by dlclose for each file     *)
(*     (opened); a file stays mapped while it, or a file that needs it,    *)
(*     has a count above zero;                                             *)
(*   - dlsym with a NULL handle, which glibc reads as RTLD_DEFAULT: a      *)
(*     search of the process's global scope.                               *)
(***************************************************************************)
EXTENDS Integers

CONSTANTS
  Soname,     \* names of library files
  Sym,        \* functions of those libraries that the wrangler wraps
  Deps,       \* Deps[f]: the files that f needs, directly or not
  Installs,   \* possible sets of files that can be opened
  Editions,   \* possible functions from a file to the functions it defines
  NULL,       \* the null pointer: no handle, no function
  Wrapper,    \* the address of the wrapper itself, as a value of its functor
  Exported    \* the functions whose wrappers are in the process's global scope:
              \* none, or, in a shared or preloaded build and in an executable
              \* linked with -rdynamic, all that have a wrapper

ASSUME LinkerAssumption ==
  /\ Deps \in [Soname -> SUBSET Soname]
  /\ \A f \in Soname : \A g \in Deps[f] : Deps[g] \subseteq Deps[f]
  /\ Installs \subseteq SUBSET Soname
  /\ \A S \in Installs : \A f \in S : Deps[f] \subseteq S
  /\ Editions \subseteq [Soname -> SUBSET Sym]
  /\ NULL \notin Soname /\ Wrapper \notin Soname /\ NULL # Wrapper
  /\ Exported \subseteq Sym

VARIABLES loadable, provides, opened
linkerVars == <<loadable, provides, opened>>

LinkerInit ==
  /\ loadable \in Installs
  /\ provides \in Editions
  /\ opened = [f \in Soname |-> 0]

LinkerTypeOK ==
  /\ loadable \in SUBSET Soname
  /\ provides \in [Soname -> SUBSET Sym]
  /\ opened \in [Soname -> Int]

\* The files whose code is in the address space on the wrangler's behalf.
Mapped == UNION {{g} \cup Deps[g] : g \in {f \in Soname : opened[f] > 0}}

\* dlopen of a file that can be opened: a new mapping or one more reference.
DlOpen(f) ==
  /\ f \in loadable
  /\ opened' = [opened EXCEPT ![f] = @ + 1]
  /\ UNCHANGED <<loadable, provides>>

\* dlclose of a handle: one reference less.
DlClose(f) ==
  /\ opened' = [opened EXCEPT ![f] = @ - 1]
  /\ UNCHANGED <<loadable, provides>>

\* The values dlsym(h, s) may return.  A wrapper has the name of the function
\* it wraps, so the global scope offers the wrapper wherever it is exported.
\* What dlsym finds in h (or in a file that h needs) is named by h.
\* dlsym on a handle that is no longer mapped is undefined: it may fail or
\* return the address the function had.
DlSym(h, s) ==
  IF h = NULL THEN {IF s \in Exported THEN Wrapper ELSE NULL}
  ELSE {x \in {h, NULL} : /\ x = h => s \in provides[h]
                          /\ x = NULL => h \notin Mapped \/ s \notin provides[h]}
=============================================================================
