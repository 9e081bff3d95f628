--------------------------- MODULE WranglerProofs ---------------------------
(***************************************************************************)
(* Proofs about the wrangling logic for any number of threads, modules,    *)
(* libraries and functions.  One inductive invariant, Safe, carries the    *)
(* safety properties that hold for every application (Spec); each of its   *)
(* conjuncts says one thing about the steps that a thread inside Init, or  *)
(* the exit handler, is in the middle of.                                  *)
(***************************************************************************)
EXTENDS WranglerProperties, TLAPS

\* A thread inside Init works on a module.
InsideModule == \A t \in Thread : Inside(t) => mod[t] \in Module

TypeInv == TypeOK /\ InsideModule

-----------------------------------------------------------------------------
(* Facts about the constants. *)

\* The element of a list of slots, or of functors, is a slot, or a function.
LEMMA TableTypes ==
  /\ \A m \in Module : \A i \in 1..Len(Libs[m]) : Libs[m][i] \in Lib
  /\ \A l \in Lib : \A i \in 1..Len(Paths[l]) : Paths[l][i] \in Soname
  /\ \A m \in Module : \A i \in 1..Len(Syms[m]) : Syms[m][i] \in Sym
  /\ \A s \in Sym : LibOf[s] \in Lib
  /\ \A m \in Module : ClosedSlot(m) \in Lib
BY WranglerAssumption DEF WranglerAssumption, ClosedSlot

\* What dlsym returns is what it found in h, the null pointer, or, given no
\* handle, the wrapper of a function whose wrapper is exported.
LEMMA DlSymRange ==
  ASSUME NEW h, NEW s, NEW x \in DlSym(h, s)
  PROVE  x = h \/ x = NULL \/ (x = Wrapper /\ s \in Exported)
BY DEF DlSym

-----------------------------------------------------------------------------
(* Type correctness. *)

\* The initial states have their types.
LEMMA TypeInit == Init => TypeInv
<1> SUFFICES ASSUME Init PROVE TypeInv
  OBVIOUS
<1> USE LinkerAssumption, WranglerAssumption DEF LinkerAssumption, WranglerAssumption
<1>1. LinkerTypeOK
  BY DEF Init, LinkerInit, LinkerTypeOK
<1>2. InsideModule
  BY DEF Init, InsideModule, Inside
<1>3. handlers \in Seq(Module \cup {App})
  BY DEF Init
<1>4. /\ is_initialized \in [Module -> BOOLEAN]
      /\ result \in [Module -> Codes]
      /\ lib \in [Lib -> Soname \cup {NULL}]
      /\ functor \in [Sym -> Soname \cup {NULL, Wrapper}]
      /\ closing \in Module \cup {NULL}
      /\ phase \in {"running", "exiting", "ended"}
  BY DEF Init, Codes
<1>5. /\ pc \in [Thread -> Labels]
      /\ mod \in [Thread -> Module \cup {NULL}]
      /\ cur \in [Thread -> Nat \ {0}]
      /\ path \in [Thread -> Nat \ {0}]
      /\ answer \in [Thread -> [Module -> Codes \cup {NULL}]]
  BY DEF Init, Labels
<1> QED
  BY <1>1, <1>2, <1>3, <1>4, <1>5 DEF TypeInv, TypeOK

\* No step changes a type.  One step of the proof per action.
LEMMA TypeNext == TypeInv /\ [Next]_vars => TypeInv'
<1> SUFFICES ASSUME TypeInv, [Next]_vars PROVE TypeInv'
  OBVIOUS
<1> USE DEF TypeInv, TypeOK, LinkerTypeOK, InsideModule, Inside, linkerVars,
            sharedVars, exitVars, threadVars
<1> DEFINE GoesOn(t) == \E label \in Labels : pc' = [pc EXCEPT ![t] = label]
           ResultOK == result' \in [Module -> Codes]
           PcOK == pc' \in [Thread -> Labels]
<1>a. \A t \in Thread : GoesOn(t) => PcOK
  OBVIOUS
<1>b. ASSUME NEW t \in Thread, NEW c \in Codes, SetResult(t, c) PROVE ResultOK
  BY <1>b DEF SetResult
<1>c. ASSUME NEW t \in Thread, NextSlot(t)
      PROVE  cur' \in [Thread -> Nat \ {0}] /\ path' \in [Thread -> Nat \ {0}]
  BY <1>c DEF NextSlot
<1>d. ASSUME NEW t \in Thread, NEW h \in Soname \cup {NULL}, pc[t] = "open", StoreHandle(t, h)
      PROVE  /\ lib' \in [Lib -> Soname \cup {NULL}]
             /\ PcOK
             /\ pc' = pc \/ pc' = [pc EXCEPT ![t] = "test"]
             /\ cur' \in [Thread -> Nat \ {0}] /\ path' \in [Thread -> Nat \ {0}]
  <2>1. lib' \in [Lib -> Soname \cup {NULL}]
    BY <1>d DEF StoreHandle
  <2>2. CASE Slot(t) \in Required
    BY <1>d, <2>1, <2>2 DEF StoreHandle, Goto, Labels
  <2>3. CASE Slot(t) \notin Required
    BY <1>d, <1>c, <2>1, <2>3 DEF StoreHandle
  <2> QED
    BY <2>2, <2>3
<1>1. ASSUME NEW t \in Thread, NEW m \in Module, CallInit(t, m) PROVE TypeInv'
  <2>1. PcOK
    BY <1>1, <1>a DEF CallInit, Goto, Labels
  <2> QED
    BY <1>1, <2>1 DEF CallInit, Goto
<1>2. ASSUME NEW t \in Thread, Mark(t) PROVE TypeInv'
  <2>1. PcOK
    BY <1>2, <1>a DEF Mark, Goto, Labels
  <2>2. is_initialized' \in [Module -> BOOLEAN]
    BY <1>2 DEF Mark
  <2> QED
    BY <1>2, <2>1, <2>2 DEF Mark, Goto
<1>3. ASSUME NEW t \in Thread, InstallAtExitHandler(t) PROVE TypeInv'
  <2>1. PcOK
    BY <1>3, <1>a DEF InstallAtExitHandler, Goto, Labels
  <2>2. ResultOK
    BY <1>3, <1>b DEF InstallAtExitHandler, Codes
  <2>3. handlers' \in Seq(Module \cup {App})
    <3>1. mod[t] \in Module
      BY <1>3 DEF InstallAtExitHandler
    <3>2. handlers \in Seq(Module \cup {App})
      OBVIOUS
    <3>3. Append(handlers, mod[t]) \in Seq(Module \cup {App})
      BY <3>1, <3>2
    <3> QED
      BY <1>3, <3>2, <3>3 DEF InstallAtExitHandler
  <2> QED
    BY <1>3, <2>1, <2>2, <2>3 DEF InstallAtExitHandler, Goto
<1>4. ASSUME NEW t \in Thread, TestInstalled(t) PROVE TypeInv'
  <2>1. PcOK
    BY <1>4, <1>a DEF TestInstalled, Goto, Labels
  <2> QED
    BY <1>4, <2>1 DEF TestInstalled, Goto
<1>5. ASSUME NEW t \in Thread, OpenFound(t) PROVE TypeInv'
  <2>1. Candidate(t) \in Soname /\ opened' \in [Soname -> Int]
    BY <1>5 DEF OpenFound, DlOpen
  <2> QED
    BY <1>5, <1>d, <2>1 DEF OpenFound, DlOpen
<1>6. ASSUME NEW t \in Thread, OpenMissed(t) PROVE TypeInv'
  BY <1>6 DEF OpenMissed
<1>7. ASSUME NEW t \in Thread, OpenExhausted(t) PROVE TypeInv'
  BY <1>7, <1>d DEF OpenExhausted
<1>8. ASSUME NEW t \in Thread, TestRequired(t) PROVE TypeInv'
  <2>1. CASE lib[Slot(t)] = NULL
    <3>1. ResultOK /\ PcOK
      BY <1>8, <1>a, <1>b, <2>1 DEF TestRequired, Goto, Labels, Codes
    <3> QED
      BY <1>8, <2>1, <3>1 DEF TestRequired, Goto
  <2>2. CASE lib[Slot(t)] # NULL
    <3>1. PcOK
      BY <1>8, <1>a, <2>2 DEF TestRequired, Goto, Labels
    <3> QED
      BY <1>8, <1>c, <2>2, <3>1 DEF TestRequired, Goto
  <2> QED
    BY <2>1, <2>2
<1>9. ASSUME NEW t \in Thread, OpenDone(t) PROVE TypeInv'
  <2>1. PcOK /\ ResultOK
    BY <1>9, <1>a, <1>b DEF OpenDone, Goto, Labels, Codes
  <2> QED
    BY <1>9, <2>1 DEF OpenDone, Goto
<1>10. ASSUME NEW t \in Thread, TestOpened(t) PROVE TypeInv'
  <2>1. PcOK
    BY <1>10, <1>a DEF TestOpened, Goto, Labels
  <2> QED
    BY <1>10, <2>1 DEF TestOpened, Goto
<1>11. ASSUME NEW t \in Thread, Fetch(t) PROVE TypeInv'
  <2> DEFINE s == Syms[mod[t]][cur[t]]
  <2>1. mod[t] \in Module /\ cur[t] \in 1..Len(Syms[mod[t]])
    <3>1. mod[t] \in Module /\ cur[t] \in Nat \ {0} /\ cur[t] <= Len(Syms[mod[t]])
      BY <1>11 DEF Fetch
    <3>2. Len(Syms[mod[t]]) \in Nat
      BY <3>1, WranglerAssumption DEF WranglerAssumption
    <3> QED
      BY <3>1, <3>2
  <2>2. s \in Sym /\ LibOf[s] \in Lib
    BY <2>1, TableTypes
  <2>3. PICK x \in DlSym(lib[LibOf[s]], s) : functor' = [functor EXCEPT ![s] = x]
    BY <1>11 DEF Fetch
  <2>4. x \in Soname \cup {NULL, Wrapper}
    BY <2>2, DlSymRange
  <2>5. functor' \in [Sym -> Soname \cup {NULL, Wrapper}]
    BY <2>3, <2>4
  <2> QED
    BY <1>11, <2>5 DEF Fetch
<1>12. ASSUME NEW t \in Thread, FetchDone(t) PROVE TypeInv'
  <2>1. PcOK /\ ResultOK
    BY <1>12, <1>a, <1>b DEF FetchDone, Goto, Labels, Codes
  <2> QED
    BY <1>12, <2>1 DEF FetchDone, Goto
<1>13. ASSUME NEW t \in Thread, Return(t) PROVE TypeInv'
  <2>1. PcOK
    BY <1>13, <1>a DEF Return, Goto, Labels
  <2>2. mod[t] \in Module
    BY <1>13 DEF Return
  <2>3. answer' \in [Thread -> [Module -> Codes \cup {NULL}]]
    BY <1>13, <2>2 DEF Return
  <2> QED
    BY <1>13, <2>1, <2>3 DEF Return, Goto
<1>14. ASSUME NEW t \in Thread, Exit(t) PROVE TypeInv'
  BY <1>14 DEF Exit, Goto, Labels
<1>15. CASE RegisterCleanup
  BY <1>15 DEF RegisterCleanup
<1>16. CASE RunCleanup
  BY <1>16 DEF RunCleanup, PopHandler
<1>17. CASE AtExitHandler
  BY <1>17 DEF AtExitHandler, PopHandler, NextHandler, DlClose
<1>18. CASE ClearHandle
  BY <1>18 DEF ClearHandle
<1>19. CASE EndProcess
  BY <1>19 DEF EndProcess
<1>20. CASE UNCHANGED vars
  BY <1>20 DEF vars
<1> QED
  BY <1>1, <1>2, <1>3, <1>4, <1>5, <1>6, <1>7, <1>8, <1>9, <1>10, <1>11, <1>12,
     <1>13, <1>14, <1>15, <1>16, <1>17, <1>18, <1>19, <1>20
  DEF Next, InitStep, ExitStep

\* Every variable keeps its type, whatever the application does.
THEOREM TypeCorrect == Spec => []TypeOK
<1>1. TypeInv => TypeOK
  BY DEF TypeInv
<1> QED
  BY TypeInit, TypeNext, <1>1, PTL DEF Spec

-----------------------------------------------------------------------------
(* What each part of the state is changed by. *)

\* Handles, reference counts and the handle being closed.
LEMMA HandleSteps ==
  ASSUME [Next]_vars
  PROVE  \/ \E t \in Thread : OpenFound(t) \/ OpenExhausted(t)
         \/ AtExitHandler \/ ClearHandle
         \/ UNCHANGED <<opened, lib, closing>>
<1> USE DEF linkerVars, sharedVars, exitVars, threadVars
<1>1. CASE \E t \in Thread : (\E m \in Module : CallInit(t, m)) \/ Exit(t)
  BY <1>1 DEF CallInit, Exit
<1>2. CASE \E t \in Thread : InitStep(t)
  BY <1>2 DEF InitStep, Mark, InstallAtExitHandler, TestInstalled, OpenMissed, TestRequired,
              OpenDone, TestOpened, Fetch, FetchDone, Return
<1>3. CASE RegisterCleanup
  BY <1>3 DEF RegisterCleanup
<1>4. CASE ExitStep
  BY <1>4 DEF ExitStep, RunCleanup, EndProcess
<1>5. CASE UNCHANGED vars
  BY <1>5 DEF vars
<1> QED
  BY <1>1, <1>2, <1>3, <1>4, <1>5 DEF Next

\* Functors.
LEMMA FunctorSteps ==
  ASSUME [Next]_vars
  PROVE  (\E t \in Thread : Fetch(t)) \/ UNCHANGED functor
<1> USE DEF linkerVars, sharedVars, exitVars, threadVars
<1>1. CASE \E t \in Thread : (\E m \in Module : CallInit(t, m)) \/ Exit(t)
  BY <1>1 DEF CallInit, Exit
<1>2. CASE \E t \in Thread : InitStep(t)
  BY <1>2 DEF InitStep, Mark, InstallAtExitHandler, TestInstalled, OpenFound, OpenMissed,
              OpenExhausted, TestRequired, OpenDone, TestOpened, FetchDone, Return
<1>3. CASE RegisterCleanup
  BY <1>3 DEF RegisterCleanup
<1>4. CASE ExitStep
  BY <1>4 DEF ExitStep, RunCleanup, AtExitHandler, ClearHandle, EndProcess
<1>5. CASE UNCHANGED vars
  BY <1>5 DEF vars
<1> QED
  BY <1>1, <1>2, <1>3, <1>4, <1>5 DEF Next

\* The process does not start to run again, and only its exit takes handlers
\* from the atexit list or starts to close a library.
LEMMA RunningSteps ==
  ASSUME [Next]_vars, phase' = "running"
  PROVE  /\ phase = "running"
         /\ ~AtExitHandler
         /\ \/ handlers' = handlers
            \/ \E h : handlers' = Append(handlers, h)
<1> USE DEF linkerVars, sharedVars, exitVars, threadVars
<1>1. CASE \E t \in Thread : (\E m \in Module : CallInit(t, m)) \/ Exit(t)
  BY <1>1 DEF CallInit, Exit, AtExitHandler
<1>2. CASE \E t \in Thread : InitStep(t)
  BY <1>2 DEF InitStep, Mark, InstallAtExitHandler, TestInstalled, OpenFound, OpenMissed,
              OpenExhausted, TestRequired, OpenDone, TestOpened, Fetch, FetchDone, Return,
              AtExitHandler
<1>3. CASE RegisterCleanup
  BY <1>3 DEF RegisterCleanup, AtExitHandler
<1>4. CASE RunCleanup \/ EndProcess
  BY <1>4 DEF RunCleanup, EndProcess
<1>5. CASE AtExitHandler
  BY <1>5 DEF AtExitHandler
<1>6. CASE ClearHandle
  BY <1>6 DEF ClearHandle, AtExitHandler
<1>7. CASE UNCHANGED vars
  BY <1>7 DEF vars, AtExitHandler
<1> QED
  BY <1>1, <1>2, <1>3, <1>4, <1>5, <1>6, <1>7 DEF Next, ExitStep

-----------------------------------------------------------------------------
(* The inductive invariant. *)

\* Nothing is being closed while the process runs.
NothingClosing == phase = "running" => closing = NULL

\* A handle came from the list of its own slot.
HandleNames ==
  \A l \in Lib : lib[l] # NULL => \E i \in 1..Len(Paths[l]) : lib[l] = Paths[l][i]

\* A functor is bound to a file that is open, or to an exported wrapper.
BoundToOpen ==
  phase = "running" =>
    \A s \in Sym :
      /\ functor[s] \in Soname => opened[functor[s]] > 0
      /\ functor[s] = Wrapper => s \in Exported

Registered(m) == \E i \in 1..Len(handlers) : handlers[i] = m

\* A thread gets as far as opening libraries only with the exit handler of
\* its module in the atexit list, its own or another thread's.
OpensRegistered ==
  phase = "running" => \A t \in Thread :
    /\ pc[t] \in {"open", "test", "opened", "fetch"} => Registered(mod[t])
    /\ pc[t] = "installed" /\ result[mod[t]] = "SUCCESS" => Registered(mod[t])

Safe == /\ TypeInv /\ NothingClosing /\ HandleNames /\ HandlesHeld
        /\ BoundToOpen /\ OpensRegistered /\ HandlerBeforeHandle

\* A thread in the search loop is at a slot and, before the end of its list,
\* at a name of that slot.
LEMMA SearchTypes ==
  ASSUME TypeInv, NEW t \in Thread, pc[t] = "open", cur[t] <= Len(Libs[mod[t]])
  PROVE  /\ mod[t] \in Module /\ Slot(t) \in Lib /\ Slot(t) \in SlotsOf(mod[t])
         /\ path[t] <= Len(Paths[Slot(t)]) => /\ path[t] \in 1..Len(Paths[Slot(t)])
                                              /\ Candidate(t) \in Soname
<1>1. mod[t] \in Module /\ cur[t] \in Nat \ {0} /\ path[t] \in Nat \ {0}
  BY DEF TypeInv, TypeOK, InsideModule, Inside
<1>2. Len(Libs[mod[t]]) \in Nat
  BY <1>1, WranglerAssumption DEF WranglerAssumption
<1>3. cur[t] \in 1..Len(Libs[mod[t]])
  BY <1>1, <1>2
<1>4. Slot(t) \in Lib /\ Slot(t) \in SlotsOf(mod[t])
  BY <1>1, <1>3, TableTypes DEF Slot, SlotsOf
<1>5. Len(Paths[Slot(t)]) \in Nat
  BY <1>4, WranglerAssumption DEF WranglerAssumption
<1>6. ASSUME path[t] <= Len(Paths[Slot(t)]) PROVE path[t] \in 1..Len(Paths[Slot(t)])
  BY <1>1, <1>5, <1>6
<1> QED
  BY <1>1, <1>4, <1>6, TableTypes DEF Candidate

\* The slot and the function that a thread fetches.
LEMMA FetchTypes ==
  ASSUME TypeInv, NEW t \in Thread, pc[t] = "fetch", cur[t] <= Len(Syms[mod[t]])
  PROVE  LET s == Syms[mod[t]][cur[t]] IN s \in Sym /\ LibOf[s] \in Lib
<1>1. mod[t] \in Module /\ cur[t] \in Nat \ {0}
  BY DEF TypeInv, TypeOK, InsideModule, Inside
<1>2. Len(Syms[mod[t]]) \in Nat
  BY <1>1, WranglerAssumption DEF WranglerAssumption
<1>3. cur[t] \in 1..Len(Syms[mod[t]])
  BY <1>1, <1>2
<1> QED
  BY <1>1, <1>3, TableTypes

\* Two slots do not hold the same file.
LEMMA HandlesDiffer ==
  ASSUME HandleNames, NEW k \in Lib, NEW l \in Lib, lib[k] = lib[l], lib[k] # NULL
  PROVE  k = l
<1>1. PICK i \in 1..Len(Paths[k]) : lib[k] = Paths[k][i]
  BY DEF HandleNames
<1>2. PICK j \in 1..Len(Paths[l]) : lib[l] = Paths[l][j]
  BY DEF HandleNames
<1>3. \A a, b \in Lib : \A m \in 1..Len(Paths[a]), n \in 1..Len(Paths[b]) :
        Paths[a][m] = Paths[b][n] => a = b
  BY WranglerAssumption DEF WranglerAssumption
<1> QED
  BY <1>1, <1>2, <1>3

LEMMA NothingClosingNext == Safe /\ [Next]_vars => NothingClosing'
<1> SUFFICES ASSUME Safe, [Next]_vars, phase' = "running" PROVE closing' = NULL
  BY DEF NothingClosing
<1>1. closing = NULL /\ ~AtExitHandler
  BY RunningSteps DEF Safe, NothingClosing
<1> QED
  BY <1>1, HandleSteps DEF OpenFound, OpenExhausted, ClearHandle, exitVars

LEMMA HandleNamesNext == Safe /\ [Next]_vars => HandleNames'
<1> SUFFICES ASSUME Safe, [Next]_vars, NEW l \in Lib, lib'[l] # NULL
             PROVE  \E i \in 1..Len(Paths[l]) : lib'[l] = Paths[l][i]
  BY DEF HandleNames
<1> USE DEF Safe
<1>0. lib[l] # NULL => \E i \in 1..Len(Paths[l]) : lib[l] = Paths[l][i]
  BY DEF HandleNames
<1>1. lib \in [Lib -> Soname \cup {NULL}]
  BY DEF TypeInv, TypeOK
<1>2. ASSUME NEW t \in Thread, OpenFound(t) PROVE \E i \in 1..Len(Paths[l]) : lib'[l] = Paths[l][i]
  <2>1. path[t] \in 1..Len(Paths[Slot(t)]) /\ lib' = [lib EXCEPT ![Slot(t)] = Candidate(t)]
    BY <1>2, SearchTypes DEF OpenFound, StoreHandle
  <2> QED
    BY <1>0, <1>1, <2>1 DEF Candidate
<1>3. ASSUME NEW t \in Thread, OpenExhausted(t) PROVE lib'[l] = lib[l]
  BY <1>1, <1>3 DEF OpenExhausted, StoreHandle
<1>4. CASE AtExitHandler
  BY <1>0, <1>4 DEF AtExitHandler, sharedVars
<1>5. CASE ClearHandle
  BY <1>0, <1>1, <1>5 DEF ClearHandle
<1> QED
  BY <1>0, <1>2, <1>3, <1>4, <1>5, HandleSteps

\* A step that opens a file, or finds that none can be opened, only adds
\* references.
LEMMA OpensCount ==
  ASSUME TypeInv, NEW t \in Thread, OpenFound(t) \/ OpenExhausted(t)
  PROVE  /\ \A f \in Soname : opened'[f] >= opened[f] /\ opened'[f] \in Int
         /\ \A l \in Lib : lib'[l] # NULL =>
              lib'[l] = lib[l] \/ (lib'[l] \in Soname /\ opened'[lib'[l]] = opened[lib'[l]] + 1)
         /\ closing' = closing
<1>1. lib \in [Lib -> Soname \cup {NULL}] /\ opened \in [Soname -> Int]
  BY DEF TypeInv, TypeOK, LinkerTypeOK
<1>2. CASE OpenFound(t)
  <2>1. /\ Candidate(t) \in Soname
        /\ opened' = [opened EXCEPT ![Candidate(t)] = @ + 1]
        /\ lib' = [lib EXCEPT ![Slot(t)] = Candidate(t)]
        /\ closing' = closing
    BY <1>2, SearchTypes DEF OpenFound, DlOpen, StoreHandle, exitVars
  <2> QED
    BY <1>1, <2>1
<1>3. CASE OpenExhausted(t)
  BY <1>1, <1>3 DEF OpenExhausted, StoreHandle, linkerVars, exitVars
<1> QED
  BY <1>2, <1>3

\* The handle that the exit handler closes is held once, by its own slot.
LEMMA CloseCounts ==
  ASSUME Safe, AtExitHandler
  PROVE  \/ UNCHANGED <<opened, lib, closing>>
         \/ /\ closing' \in Module /\ lib' = lib
            /\ lib[ClosedSlot(closing')] \in Soname
            /\ opened[lib[ClosedSlot(closing')]] > 0
            /\ opened' = [opened EXCEPT ![lib[ClosedSlot(closing')]] = @ - 1]
<1> DEFINE h == lib[ClosedSlot(NextHandler)]
<1>1. NextHandler \in Module /\ ClosedSlot(NextHandler) \in Lib /\ closing = NULL
  BY TableTypes DEF AtExitHandler
<1>2. CASE h = NULL
  BY <1>2 DEF AtExitHandler, linkerVars, sharedVars
<1>3. CASE h # NULL
  <2>1. h \in Soname
    BY <1>1, <1>3 DEF Safe, TypeInv, TypeOK
  <2>2. opened[h] > 0
    BY <1>1, <1>3 DEF Safe, HandlesHeld
  <2>3. closing' = NextHandler /\ opened' = [opened EXCEPT ![h] = @ - 1] /\ lib' = lib
    BY <1>3 DEF AtExitHandler, DlClose, sharedVars
  <2> QED
    BY <1>1, <2>1, <2>2, <2>3
<1> QED
  BY <1>2, <1>3

\* The counts stay above zero for what is held: opening only adds, and the
\* one handle that closing takes a reference from is the one being cleared.
LEMMA HandlesHeldNext == Safe /\ [Next]_vars => HandlesHeld'
<1> SUFFICES ASSUME Safe, [Next]_vars PROVE HandlesHeld'
  OBVIOUS
<1>1. /\ lib \in [Lib -> Soname \cup {NULL}]
      /\ opened \in [Soname -> Int]
      /\ TypeInv /\ HandlesHeld /\ HandleNames /\ NULL \notin Module /\ NULL \notin Soname
  BY LinkerAssumption, WranglerAssumption
  DEF Safe, TypeInv, TypeOK, LinkerTypeOK, LinkerAssumption, WranglerAssumption
<1>2. ASSUME NEW t \in Thread, OpenFound(t) \/ OpenExhausted(t) PROVE HandlesHeld'
  <2>1. \A f \in Soname : opened'[f] >= opened[f] /\ opened'[f] \in Int
    BY <1>1, <1>2, OpensCount
  <2>2. \A l \in Lib : lib'[l] # NULL =>
          lib'[l] = lib[l] \/ (lib'[l] \in Soname /\ opened'[lib'[l]] = opened[lib'[l]] + 1)
    BY <1>1, <1>2, OpensCount
  <2>3. closing' = closing
    BY <1>1, <1>2, OpensCount
  <2>4. \A f \in Soname : opened'[f] >= 0
    BY <1>1, <2>1 DEF HandlesHeld
  <2>5. ASSUME NEW l \in Lib, lib'[l] # NULL
        PROVE  opened'[lib'[l]] > 0 \/ (closing' # NULL /\ l = ClosedSlot(closing'))
    <3>1. CASE lib'[l] = lib[l]
      <4>1. lib[l] \in Soname
        BY <1>1, <2>5, <3>1
      <4> QED
        BY <1>1, <2>1, <2>3, <2>5, <3>1, <4>1 DEF HandlesHeld
    <3>2. CASE lib'[l] \in Soname /\ opened'[lib'[l]] = opened[lib'[l]] + 1
      BY <1>1, <3>2 DEF HandlesHeld
    <3> QED
      BY <2>2, <2>5, <3>1, <3>2
  <2> QED
    BY <2>4, <2>5 DEF HandlesHeld
<1>3. CASE AtExitHandler
  <2>1. CASE UNCHANGED <<opened, lib, closing>>
    BY <1>1, <2>1 DEF HandlesHeld
  <2>2. CASE /\ closing' \in Module /\ lib' = lib
             /\ lib[ClosedSlot(closing')] \in Soname
             /\ opened[lib[ClosedSlot(closing')]] > 0
             /\ opened' = [opened EXCEPT ![lib[ClosedSlot(closing')]] = @ - 1]
    <3>1. closing = NULL /\ ClosedSlot(closing') \in Lib
      BY <1>3, <2>2, TableTypes DEF AtExitHandler
    <3>2. \A f \in Soname : opened'[f] >= 0
      BY <1>1, <2>2 DEF HandlesHeld
    <3>3. ASSUME NEW l \in Lib, lib'[l] # NULL, l # ClosedSlot(closing') PROVE opened'[lib'[l]] > 0
      <4>1. lib[l] \in Soname /\ opened[lib[l]] > 0
        BY <1>1, <2>2, <3>1, <3>3 DEF HandlesHeld
      <4>2. lib[l] # lib[ClosedSlot(closing')]
        BY <1>1, <2>2, <3>1, <3>3, HandlesDiffer
      <4> QED
        BY <1>1, <2>2, <4>1, <4>2
    <3> QED
      BY <1>1, <2>2, <3>2, <3>3 DEF HandlesHeld
  <2> QED
    BY <1>3, <2>1, <2>2, CloseCounts
<1>4. CASE ClearHandle
  <2>1. /\ closing' = NULL /\ opened' = opened
        /\ lib' = [lib EXCEPT ![ClosedSlot(closing)] = NULL]
    BY <1>4 DEF ClearHandle, linkerVars
  <2> QED
    BY <1>1, <2>1 DEF HandlesHeld
<1>5. CASE UNCHANGED <<opened, lib, closing>>
  BY <1>1, <1>5 DEF HandlesHeld
<1> QED
  BY <1>2, <1>3, <1>4, <1>5, HandleSteps

\* While the process runs, nothing that is open gets closed.
LEMMA OpenStaysOpen ==
  ASSUME Safe, [Next]_vars, phase' = "running", NEW f \in Soname, opened[f] > 0
  PROVE  opened'[f] > 0
<1>1. phase = "running" /\ ~AtExitHandler
  BY RunningSteps
<1>2. ~ClearHandle
  BY <1>1 DEF Safe, NothingClosing, ClearHandle
<1>3. opened \in [Soname -> Int]
  BY DEF Safe, TypeInv, TypeOK, LinkerTypeOK
<1>4. ASSUME NEW t \in Thread, OpenFound(t) \/ OpenExhausted(t) PROVE opened'[f] > 0
  <2>1. opened'[f] >= opened[f] /\ opened'[f] \in Int
    BY <1>4, OpensCount DEF Safe
  <2> QED
    BY <1>3, <2>1
<1> QED
  BY <1>1, <1>2, <1>4, HandleSteps

LEMMA BoundToOpenNext == Safe /\ [Next]_vars => BoundToOpen'
<1> SUFFICES ASSUME Safe, [Next]_vars, phase' = "running", NEW s \in Sym
             PROVE  /\ functor'[s] \in Soname => opened'[functor'[s]] > 0
                    /\ functor'[s] = Wrapper => s \in Exported
  BY DEF BoundToOpen
<1>1. phase = "running" /\ closing = NULL
  BY RunningSteps DEF Safe, NothingClosing
<1>0. /\ functor[s] \in Soname => opened[functor[s]] > 0
      /\ functor[s] = Wrapper => s \in Exported
  <2>1. BoundToOpen
    BY DEF Safe
  <2> QED
    BY <1>1, <2>1 DEF BoundToOpen
<1>2. CASE functor' = functor
  <2>1. functor'[s] = functor[s]
    BY <1>2
  <2>2. functor[s] \in Soname => opened'[functor[s]] > 0
    BY <1>0, OpenStaysOpen
  <2> QED
    BY <1>0, <2>1, <2>2
<1>3. ASSUME NEW t \in Thread, Fetch(t)
      PROVE  /\ functor'[s] \in Soname => opened'[functor'[s]] > 0
             /\ functor'[s] = Wrapper => s \in Exported
  <2> DEFINE q == Syms[mod[t]][cur[t]]
             h == lib[LibOf[q]]
  <2>1. q \in Sym /\ LibOf[q] \in Lib
    BY <1>3, FetchTypes DEF Fetch, Safe
  <2>2. PICK x \in DlSym(h, q) : functor' = [functor EXCEPT ![q] = x]
    BY <1>3 DEF Fetch
  <2>3. x = h \/ x = NULL \/ (x = Wrapper /\ q \in Exported)
    BY DlSymRange
  <2>4. h \in Soname \cup {NULL} /\ (h # NULL => opened[h] > 0)
    BY <1>1, <2>1 DEF Safe, TypeInv, TypeOK, HandlesHeld
  <2>5. functor \in [Sym -> Soname \cup {NULL, Wrapper}] /\ opened' = opened
    BY <1>3 DEF Fetch, linkerVars, Safe, TypeInv, TypeOK
  <2>6. NULL \notin Soname /\ Wrapper \notin Soname /\ Wrapper # NULL
    BY LinkerAssumption DEF LinkerAssumption
  <2>7. CASE s = q
    BY <2>1, <2>2, <2>3, <2>4, <2>5, <2>6, <2>7
  <2>8. CASE s # q
    <3>1. functor'[s] = functor[s]
      BY <2>2, <2>5, <2>8
    <3> QED
      BY <1>0, <2>5, <3>1
  <2> QED
    BY <2>7, <2>8
<1> QED
  BY <1>2, <1>3, FunctorSteps

\* A handler stays in the atexit list until the process exits.
LEMMA RegisteredStays ==
  ASSUME TypeInv, [Next]_vars, phase' = "running", NEW m, Registered(m)
  PROVE  Registered(m)'
<1>1. handlers \in Seq(Module \cup {App})
  BY DEF TypeInv, TypeOK
<1>2. PICK i \in 1..Len(handlers) : handlers[i] = m
  BY DEF Registered
<1>3. CASE handlers' = handlers
  BY <1>2, <1>3 DEF Registered
<1>4. ASSUME NEW h, handlers' = Append(handlers, h) PROVE Registered(m)'
  <2>1. Len(handlers') = Len(handlers) + 1 /\ handlers'[i] = handlers[i]
    BY <1>1, <1>2, <1>4
  <2>2. i \in 1..Len(handlers')
    BY <1>1, <1>2, <2>1
  <2> QED
    BY <1>2, <2>1, <2>2 DEF Registered
<1> QED
  BY <1>3, <1>4, RunningSteps

\* How a thread gets to the place where libraries are opened.
LEMMA ControlSteps ==
  ASSUME TypeInv, [Next]_vars, NEW u \in Thread
  PROVE  /\ pc'[u] \in {"open", "test", "opened", "fetch"} =>
              /\ mod'[u] = mod[u]
              /\ \/ pc[u] \in {"open", "test", "opened", "fetch"}
                 \/ pc[u] = "installed" /\ result[mod[u]] = "SUCCESS"
         /\ pc'[u] = "installed" =>
              /\ mod'[u] = mod[u]
              /\ pc[u] = "installed" \/ InstallAtExitHandler(u)
<1> USE DEF Goto, linkerVars, sharedVars, exitVars, threadVars
<1>0. pc \in [Thread -> Labels] /\ mod \in [Thread -> Module \cup {NULL}]
  BY DEF TypeInv, TypeOK
<1>1. CASE \E t \in Thread : (\E m \in Module : CallInit(t, m)) \/ Exit(t) \/ Mark(t) \/ Return(t)
  BY <1>0, <1>1 DEF CallInit, Exit, Mark, Return
<1>2. CASE \E t \in Thread : InstallAtExitHandler(t) \/ TestInstalled(t)
  BY <1>0, <1>2 DEF InstallAtExitHandler, TestInstalled
<1>3. CASE \E t \in Thread : OpenFound(t) \/ OpenMissed(t) \/ OpenExhausted(t)
  BY <1>0, <1>3 DEF OpenFound, OpenMissed, OpenExhausted, StoreHandle
<1>4. CASE \E t \in Thread : TestRequired(t) \/ OpenDone(t) \/ TestOpened(t)
  BY <1>0, <1>4 DEF TestRequired, OpenDone, TestOpened
<1>5. CASE \E t \in Thread : Fetch(t) \/ FetchDone(t)
  BY <1>0, <1>5 DEF Fetch, FetchDone
<1>6. CASE RegisterCleanup \/ ExitStep
  BY <1>6 DEF RegisterCleanup, ExitStep, RunCleanup, AtExitHandler, ClearHandle, EndProcess
<1>7. CASE UNCHANGED vars
  BY <1>7 DEF vars
<1> QED
  BY <1>1, <1>2, <1>3, <1>4, <1>5, <1>6, <1>7 DEF Next, InitStep

\* Init's result becomes XEW_SUCCESS only when the exit handler is in place.
LEMMA ResultSteps ==
  ASSUME Safe, [Next]_vars, phase' = "running", NEW m \in Module, result'[m] = "SUCCESS"
  PROVE  result[m] = "SUCCESS" \/ Registered(m)'
<1> USE DEF linkerVars, sharedVars, exitVars, threadVars
<1>0. result \in [Module -> Codes] /\ TypeInv /\ phase = "running"
  BY RunningSteps DEF Safe, TypeInv, TypeOK
<1>1. ASSUME NEW t \in Thread, InstallAtExitHandler(t)
      PROVE  result[m] = "SUCCESS" \/ Registered(m)'
  <2>1. CASE result' = [result EXCEPT ![mod[t]] = "ATEXIT_FAILED"]
    BY <1>0, <2>1
  <2>2. CASE handlers' = Append(handlers, mod[t]) /\ result' = [result EXCEPT ![mod[t]] = "SUCCESS"]
    <3>1. handlers \in Seq(Module \cup {App})
      BY <1>0 DEF TypeInv, TypeOK
    <3>2. Len(handlers') \in 1..Len(handlers') /\ handlers'[Len(handlers')] = mod[t]
      BY <2>2, <3>1
    <3>3. Registered(mod[t])'
      BY <2>2, <3>2, <1>1 DEF Registered, InstallAtExitHandler
    <3>4. mod'[t] = mod[t]
      BY <1>1 DEF InstallAtExitHandler
    <3>5. CASE mod[t] = m
      BY <3>2, <3>5 DEF Registered
    <3>6. CASE mod[t] # m
      BY <1>0, <2>2, <3>6
    <3> QED
      BY <3>5, <3>6
  <2> QED
    BY <1>1, <2>1, <2>2 DEF InstallAtExitHandler, SetResult
<1>2. ASSUME NEW t \in Thread, OpenDone(t) \/ FetchDone(t)
      PROVE  result[m] = "SUCCESS" \/ Registered(m)'
  <2>1. Registered(mod[t])
    BY <1>0, <1>2 DEF OpenDone, FetchDone, Safe, OpensRegistered
  <2>2. result' = [result EXCEPT ![mod[t]] = "SUCCESS"]
    BY <1>2 DEF OpenDone, FetchDone, SetResult
  <2>3. CASE m = mod[t]
    BY <1>0, <2>1, <2>3, RegisteredStays
  <2>4. CASE m # mod[t]
    BY <1>0, <2>2, <2>4
  <2> QED
    BY <2>3, <2>4
<1>3. ASSUME NEW t \in Thread, TestRequired(t) PROVE result[m] = "SUCCESS"
  BY <1>0, <1>3 DEF TestRequired, SetResult
<1>4. CASE \E t \in Thread : (\E n \in Module : CallInit(t, n)) \/ Exit(t)
  BY <1>4 DEF CallInit, Exit
<1>5. CASE \E t \in Thread : \/ Mark(t) \/ TestInstalled(t) \/ OpenFound(t) \/ OpenMissed(t)
                              \/ OpenExhausted(t) \/ TestOpened(t) \/ Fetch(t) \/ Return(t)
  BY <1>5 DEF Mark, TestInstalled, OpenFound, OpenMissed, OpenExhausted, TestOpened, Fetch, Return
<1>6. CASE RegisterCleanup \/ ExitStep
  BY <1>6 DEF RegisterCleanup, ExitStep, RunCleanup, AtExitHandler, ClearHandle, EndProcess
<1>7. CASE UNCHANGED vars
  BY <1>7 DEF vars
<1> QED
  BY <1>1, <1>2, <1>3, <1>4, <1>5, <1>6, <1>7 DEF Next, InitStep

LEMMA OpensRegisteredNext == Safe /\ [Next]_vars => OpensRegistered'
<1> SUFFICES ASSUME Safe, [Next]_vars, phase' = "running", NEW u \in Thread, NEW m, mod'[u] = m
             PROVE  /\ pc'[u] \in {"open", "test", "opened", "fetch"} => Registered(m)'
                    /\ pc'[u] = "installed" /\ result'[m] = "SUCCESS" => Registered(m)'
  BY DEF OpensRegistered, Registered
<1>0. phase = "running" /\ TypeInv /\ OpensRegistered
  BY RunningSteps DEF Safe
<1>1. ASSUME pc'[u] \in {"open", "test", "opened", "fetch"} PROVE Registered(m)'
  <2>1. mod[u] = m /\ Registered(m)
    BY <1>0, <1>1, ControlSteps DEF OpensRegistered
  <2> QED
    BY <1>0, <2>1, RegisteredStays
<1>2. ASSUME pc'[u] = "installed", result'[m] = "SUCCESS" PROVE Registered(m)'
  <2>1. mod[u] = m /\ (pc[u] = "installed" \/ InstallAtExitHandler(u))
    BY <1>0, <1>2, ControlSteps
  <2>2. m \in Module
    BY <1>0, <2>1 DEF InstallAtExitHandler, TypeInv, InsideModule, Inside
  <2>3. CASE pc[u] = "installed"
    <3>1. result[m] = "SUCCESS" => Registered(m)
      BY <1>0, <2>1, <2>3 DEF OpensRegistered
    <3> QED
      BY <1>0, <1>2, <2>2, <3>1, ResultSteps, RegisteredStays
  <2>4. CASE InstallAtExitHandler(u)
    <3>1. handlers \in Seq(Module \cup {App}) /\ result \in [Module -> Codes]
      BY <1>0 DEF TypeInv, TypeOK
    <3>2. handlers' = Append(handlers, m)
      BY <1>2, <2>1, <2>2, <2>4, <3>1 DEF InstallAtExitHandler, SetResult
    <3>3. Len(handlers') \in 1..Len(handlers') /\ handlers'[Len(handlers')] = m
      BY <3>1, <3>2
    <3> QED
      BY <3>3 DEF Registered
  <2> QED
    BY <2>1, <2>3, <2>4
<1> QED
  BY <1>1, <1>2

LEMMA HandlerBeforeHandleNext == Safe /\ [Next]_vars => HandlerBeforeHandle'
<1> SUFFICES ASSUME Safe, [Next]_vars, phase' = "running", NEW m \in Module,
                    NEW l \in SlotsOf(m), lib'[l] # NULL
             PROVE  Registered(m)'
  BY DEF HandlerBeforeHandle, Registered
<1>1. /\ phase = "running" /\ ~AtExitHandler /\ TypeInv /\ OpensRegistered
      /\ HandlerBeforeHandle /\ NothingClosing
  BY RunningSteps DEF Safe
<1>2. ~ClearHandle
  BY <1>1 DEF NothingClosing, ClearHandle
<1>3. CASE lib'[l] = lib[l]
  <2>1. Registered(m)
    BY <1>1, <1>3 DEF HandlerBeforeHandle, Registered
  <2> QED
    BY <1>1, <2>1, RegisteredStays
<1>4. ASSUME NEW t \in Thread, OpenFound(t), lib'[l] # lib[l] PROVE Registered(m)'
  <2>1. pc[t] = "open" /\ cur[t] <= Len(Libs[mod[t]]) /\ lib' = [lib EXCEPT ![Slot(t)] = Candidate(t)]
    BY <1>4 DEF OpenFound, StoreHandle
  <2>2. l = Slot(t)
    BY <1>1, <1>4, <2>1 DEF TypeInv, TypeOK
  <2>3. mod[t] \in Module /\ l \in SlotsOf(mod[t])
    BY <1>1, <2>1, <2>2, SearchTypes
  <2>4. mod[t] = m
    <3>1. PICK i \in 1..Len(Libs[m]) : l = Libs[m][i]
      BY DEF SlotsOf
    <3>2. PICK j \in 1..Len(Libs[mod[t]]) : l = Libs[mod[t]][j]
      BY <2>3 DEF SlotsOf
    <3>3. \A a, b \in Module : \A x \in 1..Len(Libs[a]), y \in 1..Len(Libs[b]) :
            Libs[a][x] = Libs[b][y] => a = b
      BY WranglerAssumption DEF WranglerAssumption
    <3> QED
      BY <2>3, <3>1, <3>2, <3>3
  <2>5. Registered(m)
    BY <1>1, <2>1, <2>4 DEF OpensRegistered
  <2> QED
    BY <1>1, <2>5, RegisteredStays
<1>5. ASSUME NEW t \in Thread, OpenExhausted(t) PROVE lib'[l] = lib[l]
  BY <1>1, <1>5 DEF OpenExhausted, StoreHandle, TypeInv, TypeOK
<1> QED
  BY <1>1, <1>2, <1>3, <1>4, <1>5, HandleSteps

-----------------------------------------------------------------------------
(* The theorems. *)

LEMMA SafeInit == Init => Safe
<1> SUFFICES ASSUME Init PROVE Safe
  OBVIOUS
<1>1. TypeInv
  BY TypeInit
<1>2. NULL \notin Soname /\ NULL # Wrapper
  BY LinkerAssumption DEF LinkerAssumption
<1>3. NothingClosing /\ HandleNames /\ HandlesHeld
  BY DEF Init, LinkerInit, NothingClosing, HandleNames, HandlesHeld
<1>4. BoundToOpen
  BY <1>2 DEF Init, BoundToOpen
<1>5. OpensRegistered
  BY DEF Init, OpensRegistered
<1>6. HandlerBeforeHandle
  <2>1. \A m \in Module : \A l \in SlotsOf(m) : lib[l] = NULL
    BY TableTypes DEF Init, SlotsOf
  <2> QED
    BY <2>1 DEF HandlerBeforeHandle
<1> QED
  BY <1>1, <1>3, <1>4, <1>5, <1>6 DEF Safe

LEMMA SafeNext == Safe /\ [Next]_vars => Safe'
BY TypeNext, NothingClosingNext, HandleNamesNext, HandlesHeldNext, BoundToOpenNext,
   OpensRegisteredNext, HandlerBeforeHandleNext
DEF Safe

\* The inductive invariant holds whatever the application does.
THEOREM SafeAlways == Spec => []Safe
BY SafeInit, SafeNext, PTL DEF Spec

\* Handles are never closed more often than opened, and a stored handle is
\* held, for any number of threads that race through Init and any number of
\* exit handlers.
THEOREM HandlesAlwaysHeld == Spec => []HandlesHeld
<1>1. Safe => HandlesHeld
  BY DEF Safe
<1> QED
  BY SafeAlways, <1>1, PTL

\* A module that holds a library has its exit handler in the atexit list, also
\* when atexit fails for one thread and succeeds for another.
THEOREM HandlerAlwaysFirst == Spec => []HandlerBeforeHandle
<1>1. Safe => HandlerBeforeHandle
  BY DEF Safe
<1> QED
  BY SafeAlways, <1>1, PTL

\* Where the wrappers are not exported, what HAS_SYMBOL reports can be called.
THEOREM AvailableIsCallable ==
  ASSUME Exported = {}
  PROVE  Spec => []AvailableMeansCallable
<1>1. Safe => AvailableMeansCallable
  <2> SUFFICES ASSUME Safe, phase = "running", NEW s \in Sym, HasSymbol(s)
               PROVE  CallOutcome(s) = "library"
    BY DEF AvailableMeansCallable
  <2>1. functor[s] \in Soname \cup {NULL, Wrapper} /\ functor[s] # NULL /\ BoundToOpen
    BY DEF Safe, TypeInv, TypeOK, HasSymbol
  <2>2. functor[s] # Wrapper /\ opened[functor[s]] > 0 /\ functor[s] \in Soname
    BY <2>1 DEF BoundToOpen
  <2>3. functor[s] \in Mapped
    BY <2>2 DEF Mapped
  <2> QED
    BY <2>1, <2>2, <2>3 DEF CallOutcome
<1> QED
  BY SafeAlways, <1>1, PTL

\* Applications whose calls do not overlap are applications: what is proved
\* of Spec holds of SerialSpec and of OrderlySpec.
THEOREM SerialIsSpec == (SerialSpec => Spec) /\ (OrderlySpec => Spec)
<1>1. [SerialNext]_vars => [Next]_vars
  BY DEF SerialNext, SerialClient, Next
<1>2. [OrderlyNext]_vars => [Next]_vars
  BY DEF OrderlyNext, SerialClient, Next
<1> QED
  BY <1>1, <1>2, PTL DEF SerialSpec, OrderlySpec, Spec
=============================================================================
