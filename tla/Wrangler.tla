------------------------------ MODULE Wrangler ------------------------------
(***************************************************************************)
(* The wrangling logic every generated source file holds, translated from  *)
(* auto/module.template.c and its three instances source/xew_x11.c,        *)
(* source/xew_xcb.c and source/xew_xkbcommon.c: xew<Module>Init with       *)
(* installAtExitHandler, openLibraries (and xew_dynamic_library_open_find  *)
(* of source/xew_util.c) and fetchPointersFromLibrary; atExitHandler; and  *)
(* the function pointers that the wrappers jump through.                   *)
(*                                                                         *)
(* One step is one access to the state that the threads of the process     *)
(* share - the statics is_initialized and result, the handles, the         *)
(* functors - together with the call of the linker or of atexit whose      *)
(* value it stores.  Tests re-read the static they name, as an unoptimised *)
(* build does; a build that keeps the value in a register behaves as one   *)
(* of the interleavings in which nobody wrote to it in between.            *)
(***************************************************************************)
EXTENDS DynLinker, Sequences

CONSTANTS
  Module,      \* wrangled modules linked into the process
  Lib,         \* library slots: the *_lib handles of all modules
  Libs,        \* Libs[m]: slots of m in the order openLibraries fills them
  Required,    \* slots whose absence makes openLibraries fail
  Paths,       \* Paths[l]: the names tried for l, up to the NULL entry
  Syms,        \* Syms[m]: functors of m in the order they are fetched
  LibOf,       \* LibOf[s]: the slot that s is looked up in
  Thread,      \* threads of the application
  App,         \* a cleanup handler the application itself gives to atexit
  MaxCleanups  \* bound: how many of those it registers

Codes == {"SUCCESS", "OPEN_FAILED", "ATEXIT_FAILED"}

ASSUME WranglerAssumption ==
  /\ Libs \in [Module -> Seq(Lib)]
  /\ \A m \in Module : Libs[m] # <<>>
  /\ \A m, n \in Module : \A i \in 1..Len(Libs[m]), j \in 1..Len(Libs[n]) :
       Libs[m][i] = Libs[n][j] => m = n /\ i = j
  /\ Required \subseteq Lib
  /\ Paths \in [Lib -> Seq(Soname)]
  /\ \A k, l \in Lib : \A i \in 1..Len(Paths[k]), j \in 1..Len(Paths[l]) :
       Paths[k][i] = Paths[l][j] => k = l
  /\ Syms \in [Module -> Seq(Sym)]
  /\ LibOf \in [Sym -> Lib]
  /\ \A m \in Module : \A i \in 1..Len(Syms[m]) :
       \E j \in 1..Len(Libs[m]) : LibOf[Syms[m][i]] = Libs[m][j]
  /\ App \notin Module /\ NULL \notin Module \cup Codes
  /\ MaxCleanups \in Nat

VARIABLES
  is_initialized,  \* per module: the static flag of xew<Module>Init
  result,          \* per module: the static result of xew<Module>Init
  lib,             \* per slot: the handle, or NULL
  functor,         \* per function: what <function>_impl points to
  handlers,        \* the atexit list, last registered at the end
  closing,         \* module whose exit handler has closed but not yet cleared
  phase,           \* "running", "exiting" (handlers run) or "ended"
  pc, mod, cur, path,  \* per thread: position in Init, its module and loops
                       \* (mod is NULL outside Init)
  answer           \* per thread and module: what Init last returned, or NULL

sharedVars == <<is_initialized, result, lib, functor>>
exitVars == <<handlers, closing, phase>>
threadVars == <<pc, mod, cur, path, answer>>
vars == <<linkerVars, sharedVars, exitVars, threadVars>>

Labels == {"idle", "mark", "install", "installed", "open", "test", "opened",
           "fetch", "return", "exit"}

Init ==
  /\ LinkerInit
  /\ is_initialized = [m \in Module |-> FALSE]
  /\ result = [m \in Module |-> "SUCCESS"]
  /\ lib = [l \in Lib |-> NULL]
  /\ functor = [s \in Sym |-> NULL]
  /\ handlers = <<>> /\ closing = NULL /\ phase = "running"
  /\ pc = [t \in Thread |-> "idle"]
  /\ mod = [t \in Thread |-> NULL]
  /\ cur = [t \in Thread |-> 1] /\ path = [t \in Thread |-> 1]
  /\ answer = [t \in Thread |-> [m \in Module |-> NULL]]

-----------------------------------------------------------------------------
(* Where a thread inside Init is. *)

Slot(t) == Libs[mod[t]][cur[t]]
Candidate(t) == Paths[Slot(t)][path[t]]
Goto(t, label) == pc' = [pc EXCEPT ![t] = label]
SetResult(t, code) == result' = [result EXCEPT ![mod[t]] = code]

\* The next slot of openLibraries, with its own list of names from the start.
NextSlot(t) ==
  /\ cur' = [cur EXCEPT ![t] = @ + 1]
  /\ path' = [path EXCEPT ![t] = 1]

\* xew_dynamic_library_open_find returned h: store it; only a required
\* library is tested afterwards.
StoreHandle(t, h) ==
  /\ lib' = [lib EXCEPT ![Slot(t)] = h]
  /\ IF Slot(t) \in Required
     THEN Goto(t, "test") /\ UNCHANGED <<cur, path>>
     ELSE NextSlot(t) /\ UNCHANGED pc

-----------------------------------------------------------------------------
(* Mistakes that the steps below could contain.  No specification uses     *)
(* them; each is put in the place of a step to see a property refute it.   *)

\* The early return is missing: every call makes a new attempt.
CallInitAgain(t, m) ==
  /\ pc[t] = "idle"
  /\ mod' = [mod EXCEPT ![t] = m]
  /\ Goto(t, "mark")
  /\ UNCHANGED <<linkerVars, sharedVars, exitVars, cur, path, answer>>

\* is_initialized is never set.
MarkNothing(t) ==
  /\ pc[t] = "mark"
  /\ Goto(t, "install")
  /\ UNCHANGED <<linkerVars, sharedVars, exitVars, mod, cur, path, answer>>

\* An attempt begins by clearing the functors.
MarkAndReset(t) ==
  /\ pc[t] = "mark"
  /\ is_initialized' = [is_initialized EXCEPT ![mod[t]] = TRUE]
  /\ functor' = [s \in Sym |-> NULL]
  /\ Goto(t, "install")
  /\ UNCHANGED <<linkerVars, result, lib, exitVars, mod, cur, path, answer>>

\* The failure of atexit is ignored.
TestInstalledIgnored(t) ==
  /\ pc[t] = "installed"
  /\ Goto(t, "open")
  /\ UNCHANGED <<linkerVars, sharedVars, exitVars, mod, cur, path, answer>>

\* The search stops at the first name that does not open.
OpenMissedGivesUp(t) ==
  /\ pc[t] = "open" /\ cur[t] <= Len(Libs[mod[t]]) /\ path[t] <= Len(Paths[Slot(t)])
  /\ Candidate(t) \notin loadable
  /\ path' = [path EXCEPT ![t] = Len(Paths[Slot(t)]) + 1]
  /\ UNCHANGED <<linkerVars, sharedVars, exitVars, pc, mod, cur, answer>>

\* ++i is missing from the search loop.
OpenMissedStuck(t) ==
  /\ pc[t] = "open" /\ cur[t] <= Len(Libs[mod[t]]) /\ path[t] <= Len(Paths[Slot(t)])
  /\ Candidate(t) \notin loadable
  /\ UNCHANGED vars

\* A required library is not tested.
TestRequiredNever(t) ==
  /\ pc[t] = "test"
  /\ NextSlot(t) /\ Goto(t, "open")
  /\ UNCHANGED <<linkerVars, sharedVars, exitVars, mod, answer>>

\* The functors are numbered from 0.
TestOpenedZero(t) ==
  /\ pc[t] = "opened"
  /\ Goto(t, IF result[mod[t]] = "SUCCESS" THEN "fetch" ELSE "return")
  /\ cur' = [cur EXCEPT ![t] = 0]
  /\ UNCHANGED <<linkerVars, sharedVars, exitVars, mod, path, answer>>

\* The first library is closed as soon as its functions were fetched.
FetchDoneAndClose(t) ==
  /\ pc[t] = "fetch" /\ cur[t] > Len(Syms[mod[t]])
  /\ SetResult(t, "SUCCESS")
  /\ DlClose(lib[Libs[mod[t]][1]])
  /\ lib' = [lib EXCEPT ![Libs[mod[t]][1]] = NULL]
  /\ Goto(t, "return")
  /\ UNCHANGED <<is_initialized, functor, exitVars, mod, cur, path, answer>>

\* The exit handler clears the handle without closing the library.
AtExitHandlerLeaks ==
  /\ phase = "exiting" /\ closing = NULL /\ handlers # <<>>
  /\ handlers[Len(handlers)] \in Module
  /\ handlers' = SubSeq(handlers, 1, Len(handlers) - 1)
  /\ closing' = handlers[Len(handlers)]
  /\ UNCHANGED <<linkerVars, sharedVars, phase, threadVars>>

\* The exit handler closes the library but keeps the handle.
ClearHandleForgotten ==
  /\ closing # NULL
  /\ closing' = NULL
  /\ UNCHANGED <<linkerVars, sharedVars, handlers, phase, threadVars>>

\* The exit handler takes the last library instead of the first.
ClosedSlotLast(m) == Libs[m][Len(Libs[m])]

-----------------------------------------------------------------------------
(* xew<Module>Init, step by step. *)

\* The call: an attempt made before is answered from result.
CallInit(t, m) ==
  /\ pc[t] = "idle"
  /\ mod' = [mod EXCEPT ![t] = m]
  /\ Goto(t, IF is_initialized[m] THEN "return" ELSE "mark")
  /\ UNCHANGED <<linkerVars, sharedVars, exitVars, cur, path, answer>>

Mark(t) ==
  /\ pc[t] = "mark"
  /\ is_initialized' = [is_initialized EXCEPT ![mod[t]] = TRUE]
  /\ Goto(t, "install")
  /\ UNCHANGED <<linkerVars, result, lib, functor, exitVars, mod, cur, path, answer>>

\* atexit may fail, and installAtExitHandler says so.
InstallAtExitHandler(t) ==
  /\ pc[t] = "install"
  /\ \/ /\ handlers' = Append(handlers, mod[t])
        /\ SetResult(t, "SUCCESS")
     \/ /\ SetResult(t, "ATEXIT_FAILED")
        /\ UNCHANGED handlers
  /\ Goto(t, "installed")
  /\ UNCHANGED <<linkerVars, is_initialized, lib, functor, closing, phase,
                 mod, cur, path, answer>>

TestInstalled(t) ==
  /\ pc[t] = "installed"
  /\ Goto(t, IF result[mod[t]] = "SUCCESS" THEN "open" ELSE "return")
  /\ UNCHANGED <<linkerVars, sharedVars, exitVars, mod, cur, path, answer>>

\* One turn of the search loop: the candidate opens ...
OpenFound(t) ==
  /\ pc[t] = "open" /\ cur[t] <= Len(Libs[mod[t]]) /\ path[t] <= Len(Paths[Slot(t)])
  /\ DlOpen(Candidate(t))
  /\ StoreHandle(t, Candidate(t))
  /\ UNCHANGED <<is_initialized, result, functor, exitVars, mod, answer>>

\* ... or it does not and the next one is tried ...
OpenMissed(t) ==
  /\ pc[t] = "open" /\ cur[t] <= Len(Libs[mod[t]]) /\ path[t] <= Len(Paths[Slot(t)])
  /\ Candidate(t) \notin loadable
  /\ path' = [path EXCEPT ![t] = @ + 1]
  /\ UNCHANGED <<linkerVars, sharedVars, exitVars, pc, mod, cur, answer>>

\* ... or the list is at its NULL entry.
OpenExhausted(t) ==
  /\ pc[t] = "open" /\ cur[t] <= Len(Libs[mod[t]]) /\ path[t] > Len(Paths[Slot(t)])
  /\ StoreHandle(t, NULL)
  /\ UNCHANGED <<linkerVars, is_initialized, result, functor, exitVars, mod, answer>>

\* if (<slot> == NULL) return XEW_ERROR_OPEN_FAILED;
TestRequired(t) ==
  /\ pc[t] = "test"
  /\ IF lib[Slot(t)] = NULL
     THEN SetResult(t, "OPEN_FAILED") /\ Goto(t, "opened") /\ UNCHANGED <<cur, path>>
     ELSE NextSlot(t) /\ Goto(t, "open") /\ UNCHANGED result
  /\ UNCHANGED <<linkerVars, is_initialized, lib, functor, exitVars, mod, answer>>

\* Every slot was dealt with: openLibraries returns XEW_SUCCESS.
OpenDone(t) ==
  /\ pc[t] = "open" /\ cur[t] > Len(Libs[mod[t]])
  /\ SetResult(t, "SUCCESS")
  /\ Goto(t, "opened")
  /\ UNCHANGED <<linkerVars, is_initialized, lib, functor, exitVars, mod, cur, path, answer>>

TestOpened(t) ==
  /\ pc[t] = "opened"
  /\ Goto(t, IF result[mod[t]] = "SUCCESS" THEN "fetch" ELSE "return")
  /\ cur' = [cur EXCEPT ![t] = 1]
  /\ UNCHANGED <<linkerVars, sharedVars, exitVars, mod, path, answer>>

\* One _LIBRARY_FIND_IMPL of fetchPointersFromLibrary.
Fetch(t) ==
  /\ pc[t] = "fetch" /\ cur[t] <= Len(Syms[mod[t]])
  /\ LET s == Syms[mod[t]][cur[t]] IN
       \E x \in DlSym(lib[LibOf[s]], s) : functor' = [functor EXCEPT ![s] = x]
  /\ cur' = [cur EXCEPT ![t] = @ + 1]
  /\ UNCHANGED <<linkerVars, is_initialized, result, lib, exitVars, pc, mod, path, answer>>

FetchDone(t) ==
  /\ pc[t] = "fetch" /\ cur[t] > Len(Syms[mod[t]])
  /\ SetResult(t, "SUCCESS")
  /\ Goto(t, "return")
  /\ UNCHANGED <<linkerVars, is_initialized, lib, functor, exitVars, mod, cur, path, answer>>

\* return result; the locals die.
Return(t) ==
  /\ pc[t] = "return"
  /\ answer' = [answer EXCEPT ![t][mod[t]] = result[mod[t]]]
  /\ Goto(t, "idle")
  /\ mod' = [mod EXCEPT ![t] = NULL]
  /\ cur' = [cur EXCEPT ![t] = 1] /\ path' = [path EXCEPT ![t] = 1]
  /\ UNCHANGED <<linkerVars, sharedVars, exitVars>>

InitStep(t) ==
  \/ Mark(t) \/ InstallAtExitHandler(t) \/ TestInstalled(t)
  \/ OpenFound(t) \/ OpenMissed(t) \/ OpenExhausted(t) \/ TestRequired(t) \/ OpenDone(t)
  \/ TestOpened(t) \/ Fetch(t) \/ FetchDone(t) \/ Return(t)

-----------------------------------------------------------------------------
(* The end of the process. *)

\* The application gives atexit a cleanup function that calls wrappers.
RegisterCleanup ==
  /\ phase = "running"
  /\ Len(SelectSeq(handlers, LAMBDA h : h = App)) < MaxCleanups
  /\ handlers' = Append(handlers, App)
  /\ UNCHANGED <<linkerVars, sharedVars, closing, phase, threadVars>>

\* Thread t returns from main or calls exit.
Exit(t) ==
  /\ phase = "running" /\ pc[t] = "idle"
  /\ phase' = "exiting"
  /\ Goto(t, "exit")
  /\ UNCHANGED <<linkerVars, sharedVars, handlers, closing, mod, cur, path, answer>>

\* Handlers run in the reverse of the order they were registered in.
NextHandler == handlers[Len(handlers)]
PopHandler == handlers' = SubSeq(handlers, 1, Len(handlers) - 1)

\* The application's cleanup function is run.
RunCleanup ==
  /\ phase = "exiting" /\ closing = NULL /\ handlers # <<>> /\ NextHandler = App
  /\ PopHandler
  /\ UNCHANGED <<linkerVars, sharedVars, closing, phase, threadVars>>

\* The only slot that the exit handler of m looks at.
ClosedSlot(m) == Libs[m][1]

\* atExitHandler: nothing to close, or the first slot's library is closed ...
AtExitHandler ==
  /\ phase = "exiting" /\ closing = NULL /\ handlers # <<>> /\ NextHandler \in Module
  /\ PopHandler
  /\ LET h == lib[ClosedSlot(NextHandler)] IN
       IF h = NULL
       THEN UNCHANGED <<linkerVars, closing>>
       ELSE DlClose(h) /\ closing' = NextHandler
  /\ UNCHANGED <<sharedVars, phase, threadVars>>

\* ... and its handle cleared.
ClearHandle ==
  /\ closing # NULL
  /\ lib' = [lib EXCEPT ![ClosedSlot(closing)] = NULL]
  /\ closing' = NULL
  /\ UNCHANGED <<linkerVars, is_initialized, result, functor, handlers, phase, threadVars>>

EndProcess ==
  /\ phase = "exiting" /\ closing = NULL /\ handlers = <<>>
  /\ phase' = "ended"
  /\ UNCHANGED <<linkerVars, sharedVars, handlers, closing, threadVars>>

ExitStep == RunCleanup \/ AtExitHandler \/ ClearHandle \/ EndProcess

-----------------------------------------------------------------------------
(* Three kinds of application.                                             *)

Inside(t) == pc[t] \notin {"idle", "exit"}
Quiet == \A t \in Thread : ~Inside(t)

\* Any threads, calling Init and exiting whenever they like.
Next ==
  /\ phase # "ended"
  /\ \/ \E t \in Thread : (\E m \in Module : CallInit(t, m)) \/ InitStep(t) \/ Exit(t)
     \/ RegisterCleanup
     \/ ExitStep

\* Calls of Init do not overlap, none is made after exit has begun, and exit
\* is not called during one: what the three programs in example/ do.
SerialClient ==
  \/ phase = "running" /\ Quiet /\ \E t \in Thread, m \in Module : CallInit(t, m)
  \/ Quiet /\ \E t \in Thread : Exit(t)
SerialNext ==
  /\ phase # "ended"
  /\ SerialClient \/ (\E t \in Thread : InitStep(t)) \/ RegisterCleanup \/ ExitStep

\* Moreover the application registers its cleanup after the modules' Inits.
OrderlyNext ==
  /\ phase # "ended"
  /\ \/ SerialClient
     \/ \E t \in Thread : InitStep(t)
     \/ Quiet /\ (\A m \in Module : is_initialized[m]) /\ RegisterCleanup
     \/ ExitStep

\* A thread inside Init is scheduled until the process ends; nothing makes an
\* application call Init or exit.
Fairness == \A t \in Thread : WF_vars(phase # "ended" /\ InitStep(t))

Spec == Init /\ [][Next]_vars
SerialSpec == Init /\ [][SerialNext]_vars
OrderlySpec == Init /\ [][OrderlyNext]_vars
FairSpec == Spec /\ Fairness
=============================================================================
