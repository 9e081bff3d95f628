---------------------------- MODULE SearchProofs ----------------------------
(***************************************************************************)
(* What the search for the libraries comes to when any number of threads   *)
(* make it at the same time.  Every thread tries the names of a slot in    *)
(* the same order and the installed files do not change, so whoever        *)
(* searches finds the first name that opens, or none: a handle that one    *)
(* thread stores again is the handle that was there, a failure is never    *)
(* the fault of a race, and a functor fetched again gets its old value.    *)
(***************************************************************************)
EXTENDS WranglerProofs, FiniteSetTheorems

\* The names of l before number n do not open.
Earlier(l, n) == \A i \in 1..Len(Paths[l]) : i < n => Paths[l][i] \notin loadable

\* None of the names of l opens.
Missing(l) == \A i \in 1..Len(Paths[l]) : Paths[l][i] \notin loadable

RequiredMissing(m) == \E l \in SlotsOf(m) \cap Required : Missing(l)

\* A thread that has not reached the search has its loop at the first name.
FromStart == \A t \in Thread :
  pc[t] \in {"idle", "mark", "install", "installed"} => path[t] = 1

\* A thread in the search loop has tried the earlier names in vain.
SearchMissed == \A t \in Thread :
  pc[t] = "open" /\ cur[t] <= Len(Libs[mod[t]]) => Earlier(Slot(t), path[t])

\* A stored handle is the first of its names that opens.
FirstHeld == \A l \in Lib : lib[l] # NULL =>
  \E i \in 1..Len(Paths[l]) : lib[l] = Paths[l][i] /\ lib[l] \in loadable /\ Earlier(l, i)

\* A thread that tests for a required library sees NULL only where none opens.
TestMissed == phase = "running" => \A t \in Thread :
  pc[t] = "test" => /\ Slot(t) \in SlotsOf(mod[t]) \cap Required
                    /\ lib[Slot(t)] = NULL => Missing(Slot(t))

\* OPEN_FAILED, in the static result and as the value of a call.
FailureMeansMissing ==
  phase = "running" => \A m \in Module : result[m] = "OPEN_FAILED" => RequiredMissing(m)
ToldMeansMissing ==
  phase = "running" => \A t \in Thread, m \in Module :
    Told(t, m) = "OPEN_FAILED" => RequiredMissing(m)

Search == /\ FromStart /\ SearchMissed /\ FirstHeld
          /\ TestMissed /\ FailureMeansMissing /\ ToldMeansMissing

\* A bound functor is what the handle of its slot offers.
BoundFirst == phase = "running" => \A s \in Sym :
  functor[s] # NULL => functor[s] = lib[LibOf[s]] /\ s \in provides[functor[s]]

-----------------------------------------------------------------------------
(* What a step leaves alone. *)

\* The files of the system do not change while the process runs.
LEMMA SystemStays == [Next]_vars => UNCHANGED <<loadable, provides>>
<1> SUFFICES ASSUME [Next]_vars PROVE UNCHANGED <<loadable, provides>>
  OBVIOUS
<1> USE DEF linkerVars
<1>1. CASE \E t \in Thread : (\E m \in Module : CallInit(t, m)) \/ Exit(t)
  BY <1>1 DEF CallInit, Exit
<1>2. CASE \E t \in Thread : OpenFound(t)
  BY <1>2 DEF OpenFound, DlOpen
<1>3. CASE \E t \in Thread : \/ Mark(t) \/ InstallAtExitHandler(t) \/ TestInstalled(t)
                              \/ OpenMissed(t) \/ OpenExhausted(t) \/ TestRequired(t)
                              \/ OpenDone(t) \/ TestOpened(t) \/ Fetch(t) \/ FetchDone(t)
                              \/ Return(t)
  BY <1>3 DEF Mark, InstallAtExitHandler, TestInstalled, OpenMissed, OpenExhausted,
              TestRequired, OpenDone, TestOpened, Fetch, FetchDone, Return
<1>4. CASE RegisterCleanup
  BY <1>4 DEF RegisterCleanup
<1>5. CASE ExitStep
  BY <1>5 DEF ExitStep, RunCleanup, AtExitHandler, ClearHandle, EndProcess, DlClose
<1>6. CASE UNCHANGED vars
  BY <1>6 DEF vars
<1> QED
  BY <1>1, <1>2, <1>3, <1>4, <1>5, <1>6 DEF Next, InitStep

\* A thread is where it was, or made a step of its own.
LEMMA OwnSteps ==
  ASSUME TypeInv, [Next]_vars, NEW u \in Thread
  PROVE  \/ pc'[u] = pc[u] /\ mod'[u] = mod[u] /\ cur'[u] = cur[u] /\ path'[u] = path[u]
         \/ (\E m \in Module : CallInit(u, m)) \/ InitStep(u) \/ Exit(u)
<1> USE DEF Goto, linkerVars, sharedVars, exitVars, threadVars
<1>0. /\ pc \in [Thread -> Labels] /\ mod \in [Thread -> Module \cup {NULL}]
      /\ cur \in [Thread -> Nat \ {0}] /\ path \in [Thread -> Nat \ {0}]
  BY DEF TypeInv, TypeOK
<1>1. ASSUME NEW t \in Thread, t # u, (\E m \in Module : CallInit(t, m)) \/ Exit(t)
      PROVE  pc'[u] = pc[u] /\ mod'[u] = mod[u] /\ cur'[u] = cur[u] /\ path'[u] = path[u]
  BY <1>0, <1>1 DEF CallInit, Exit
<1>2. ASSUME NEW t \in Thread, t # u, InitStep(t)
      PROVE  pc'[u] = pc[u] /\ mod'[u] = mod[u] /\ cur'[u] = cur[u] /\ path'[u] = path[u]
  <2>1. CASE Mark(t) \/ InstallAtExitHandler(t) \/ TestInstalled(t) \/ Return(t)
    BY <1>0, <1>2, <2>1 DEF Mark, InstallAtExitHandler, TestInstalled, Return
  <2>2. CASE OpenFound(t) \/ OpenMissed(t) \/ OpenExhausted(t)
    BY <1>0, <1>2, <2>2 DEF OpenFound, OpenMissed, OpenExhausted, StoreHandle, NextSlot
  <2>3. CASE TestRequired(t) \/ OpenDone(t) \/ TestOpened(t)
    BY <1>0, <1>2, <2>3 DEF TestRequired, OpenDone, TestOpened, NextSlot
  <2>4. CASE Fetch(t) \/ FetchDone(t)
    BY <1>0, <1>2, <2>4 DEF Fetch, FetchDone
  <2> QED
    BY <1>2, <2>1, <2>2, <2>3, <2>4 DEF InitStep
<1>3. CASE RegisterCleanup \/ ExitStep
  BY <1>3 DEF RegisterCleanup, ExitStep, RunCleanup, AtExitHandler, ClearHandle, EndProcess
<1>4. CASE UNCHANGED vars
  BY <1>4 DEF vars
<1> QED
  BY <1>1, <1>2, <1>3, <1>4 DEF Next

\* While the process runs, handles change only in the search of some thread.
LEMMA RunningHandles ==
  ASSUME Safe, [Next]_vars, phase' = "running"
  PROVE  (\E t \in Thread : OpenFound(t) \/ OpenExhausted(t)) \/ lib' = lib
<1>1. ~AtExitHandler /\ closing = NULL
  BY RunningSteps DEF Safe, NothingClosing
<1> QED
  BY <1>1, HandleSteps DEF ClearHandle

-----------------------------------------------------------------------------
(* Two searches for one slot agree. *)

\* The name at which a thread finds a library is the first that opens.
LEMMA FoundIsFirst ==
  ASSUME TypeInv, SearchMissed, NEW t \in Thread, OpenFound(t)
  PROVE  /\ Slot(t) \in Lib /\ path[t] \in 1..Len(Paths[Slot(t)])
         /\ Candidate(t) = Paths[Slot(t)][path[t]]
         /\ Candidate(t) \in loadable /\ Candidate(t) \in Soname
         /\ Earlier(Slot(t), path[t])
         /\ lib' = [lib EXCEPT ![Slot(t)] = Candidate(t)]
<1>1. pc[t] = "open" /\ cur[t] <= Len(Libs[mod[t]]) /\ path[t] <= Len(Paths[Slot(t)])
  BY DEF OpenFound
<1> QED
  BY <1>1, SearchTypes DEF SearchMissed, Candidate, OpenFound, DlOpen, StoreHandle

\* A thread that reaches the end of the list had no chance.
LEMMA ExhaustedIsMissing ==
  ASSUME TypeInv, SearchMissed, NEW t \in Thread, OpenExhausted(t)
  PROVE  /\ Slot(t) \in Lib /\ Missing(Slot(t))
         /\ lib' = [lib EXCEPT ![Slot(t)] = NULL]
<1>1. pc[t] = "open" /\ cur[t] <= Len(Libs[mod[t]]) /\ path[t] > Len(Paths[Slot(t)])
  BY DEF OpenExhausted
<1>2. Slot(t) \in Lib /\ Earlier(Slot(t), path[t]) /\ path[t] \in Nat
  BY <1>1, SearchTypes DEF SearchMissed, TypeInv, TypeOK
<1>3. Len(Paths[Slot(t)]) \in Nat
  BY <1>2, WranglerAssumption DEF WranglerAssumption
<1>4. Missing(Slot(t))
  BY <1>1, <1>2, <1>3 DEF Earlier, Missing
<1> QED
  BY <1>2, <1>4 DEF OpenExhausted, StoreHandle

\* A handle that was stored stays what it is while the process runs.
LEMMA StoredStays ==
  ASSUME Safe, SearchMissed, FirstHeld, [Next]_vars, phase' = "running",
         NEW l \in Lib, lib[l] # NULL
  PROVE  lib'[l] = lib[l]
<1>0. TypeInv /\ lib \in [Lib -> Soname \cup {NULL}]
  BY DEF Safe, TypeInv, TypeOK
<1>1. PICK i \in 1..Len(Paths[l]) :
        lib[l] = Paths[l][i] /\ lib[l] \in loadable /\ Earlier(l, i)
  BY DEF FirstHeld
<1>2. ASSUME NEW t \in Thread, OpenFound(t) PROVE lib'[l] = lib[l]
  <2>1. CASE l = Slot(t)
    <3>1. /\ path[t] \in 1..Len(Paths[l]) /\ Paths[l][path[t]] \in loadable
          /\ Earlier(l, path[t]) /\ lib'[l] = Paths[l][path[t]]
      BY <1>0, <1>2, <2>1, FoundIsFirst
    <3>2. ~(i < path[t]) /\ ~(path[t] < i)
      BY <1>1, <3>1 DEF Earlier
    <3>3. Len(Paths[l]) \in Nat
      BY WranglerAssumption DEF WranglerAssumption
    <3>4. i = path[t]
      BY <1>1, <3>1, <3>2, <3>3
    <3> QED
      BY <1>1, <3>1, <3>4
  <2>2. CASE l # Slot(t)
    BY <1>0, <1>2, <2>2, FoundIsFirst
  <2> QED
    BY <2>1, <2>2
<1>3. ASSUME NEW t \in Thread, OpenExhausted(t) PROVE lib'[l] = lib[l]
  <2>1. l # Slot(t)
    BY <1>0, <1>1, <1>3, ExhaustedIsMissing DEF Missing
  <2> QED
    BY <1>0, <1>3, <2>1, ExhaustedIsMissing
<1> QED
  BY <1>2, <1>3, RunningHandles

-----------------------------------------------------------------------------
(* Search is inductive. *)

LEMMA FromStartNext == Safe /\ FromStart /\ [Next]_vars => FromStart'
<1> SUFFICES ASSUME Safe, FromStart, [Next]_vars, NEW u \in Thread,
                    pc'[u] \in {"idle", "mark", "install", "installed"}
             PROVE  path'[u] = 1
  BY DEF FromStart
<1> USE DEF Goto
<1>0. /\ TypeInv /\ pc \in [Thread -> Labels] /\ path \in [Thread -> Nat \ {0}]
  BY DEF Safe, TypeInv, TypeOK
<1>1. CASE pc'[u] = pc[u] /\ path'[u] = path[u]
  BY <1>1 DEF FromStart
<1>2. CASE (\E m \in Module : CallInit(u, m)) \/ Exit(u)
  BY <1>0, <1>2 DEF CallInit, Exit, FromStart, threadVars
<1>3. CASE Mark(u) \/ InstallAtExitHandler(u)
  BY <1>0, <1>3 DEF Mark, InstallAtExitHandler, FromStart
<1>4. CASE TestInstalled(u) \/ TestOpened(u) \/ OpenDone(u) \/ FetchDone(u)
  BY <1>0, <1>4 DEF TestInstalled, TestOpened, OpenDone, FetchDone
<1>5. CASE OpenFound(u) \/ OpenMissed(u) \/ OpenExhausted(u)
  BY <1>0, <1>5 DEF OpenFound, OpenMissed, OpenExhausted, StoreHandle, NextSlot
<1>6. CASE TestRequired(u) \/ Fetch(u)
  BY <1>0, <1>6 DEF TestRequired, Fetch
<1>7. CASE Return(u)
  BY <1>0, <1>7 DEF Return
<1> QED
  BY <1>0, <1>1, <1>2, <1>3, <1>4, <1>5, <1>6, <1>7, OwnSteps DEF InitStep

LEMMA SearchMissedNext ==
  Safe /\ FromStart /\ SearchMissed /\ [Next]_vars => SearchMissed'
<1> SUFFICES ASSUME Safe, FromStart, SearchMissed, [Next]_vars, NEW u \in Thread,
                    pc'[u] = "open", cur'[u] <= Len(Libs[mod'[u]]),
                    NEW l, l = Libs[mod'[u]][cur'[u]], NEW n, n = path'[u]
             PROVE  Earlier(l, n)'
  BY DEF SearchMissed, Slot
<1> USE DEF Goto
<1>0. /\ TypeInv /\ pc \in [Thread -> Labels] /\ mod \in [Thread -> Module \cup {NULL}]
      /\ cur \in [Thread -> Nat \ {0}] /\ path \in [Thread -> Nat \ {0}]
      /\ loadable' = loadable
  BY SystemStays DEF Safe, TypeInv, TypeOK
<1>a. ASSUME path'[u] = 1 PROVE Earlier(l, n)'
  <2>1. ASSUME NEW i \in 1..Len(Paths[l]) PROVE ~(i < 1)
    OBVIOUS
  <2> QED
    BY <1>a, <2>1 DEF Earlier
<1>1. CASE pc'[u] = pc[u] /\ mod'[u] = mod[u] /\ cur'[u] = cur[u] /\ path'[u] = path[u]
  BY <1>0, <1>1 DEF SearchMissed, Slot, Earlier
<1>2. CASE (\E m \in Module : CallInit(u, m)) \/ Exit(u) \/ Mark(u) \/ InstallAtExitHandler(u)
  BY <1>0, <1>2 DEF CallInit, Exit, Mark, InstallAtExitHandler
<1>3. CASE TestInstalled(u)
  BY <1>0, <1>3, <1>a DEF TestInstalled, FromStart
<1>4. CASE OpenFound(u) \/ OpenExhausted(u) \/ TestRequired(u)
  <2>1. path'[u] = 1
    BY <1>0, <1>4 DEF OpenFound, OpenExhausted, TestRequired, StoreHandle, NextSlot
  <2> QED
    BY <1>a, <2>1
<1>5. CASE OpenMissed(u)
  <2>1. /\ pc[u] = "open" /\ cur[u] <= Len(Libs[mod[u]]) /\ Candidate(u) \notin loadable
        /\ mod'[u] = mod[u] /\ cur'[u] = cur[u] /\ path'[u] = path[u] + 1
        /\ path[u] <= Len(Paths[Slot(u)])
    BY <1>0, <1>5 DEF OpenMissed
  <2>2. Earlier(Slot(u), path[u]) /\ path[u] \in 1..Len(Paths[Slot(u)])
    BY <1>0, <2>1, SearchTypes DEF SearchMissed
  <2>3. ASSUME NEW i \in 1..Len(Paths[Slot(u)]), i < path[u] + 1
        PROVE  Paths[Slot(u)][i] \notin loadable
    <3>1. i < path[u] \/ i = path[u]
      BY <2>2, <2>3
    <3> QED
      BY <2>1, <2>2, <3>1 DEF Earlier, Candidate
  <2> QED
    BY <1>0, <2>1, <2>3 DEF Earlier, Slot
<1>6. CASE OpenDone(u) \/ TestOpened(u) \/ Fetch(u) \/ FetchDone(u) \/ Return(u)
  BY <1>0, <1>6 DEF OpenDone, TestOpened, Fetch, FetchDone, Return
<1> QED
  BY <1>0, <1>1, <1>2, <1>3, <1>4, <1>5, <1>6, OwnSteps DEF InitStep

LEMMA FirstHeldNext == Safe /\ SearchMissed /\ FirstHeld /\ [Next]_vars => FirstHeld'
<1> SUFFICES ASSUME Safe, SearchMissed, FirstHeld, [Next]_vars, NEW l \in Lib, lib'[l] # NULL
             PROVE  \E i \in 1..Len(Paths[l]) :
                      lib'[l] = Paths[l][i] /\ lib'[l] \in loadable' /\ Earlier(l, i)'
  BY DEF FirstHeld
<1>0. /\ TypeInv /\ lib \in [Lib -> Soname \cup {NULL}] /\ loadable' = loadable
  BY SystemStays DEF Safe, TypeInv, TypeOK
<1>1. CASE lib'[l] = lib[l]
  BY <1>0, <1>1 DEF FirstHeld, Earlier
<1>2. ASSUME NEW t \in Thread, OpenFound(t), lib'[l] # lib[l]
      PROVE  \E i \in 1..Len(Paths[l]) :
               lib'[l] = Paths[l][i] /\ lib'[l] \in loadable' /\ Earlier(l, i)'
  <2>1. l = Slot(t)
    BY <1>0, <1>2, FoundIsFirst
  <2> QED
    BY <1>0, <1>2, <2>1, FoundIsFirst DEF Earlier
<1>3. ASSUME NEW t \in Thread, OpenExhausted(t) PROVE lib'[l] = lib[l]
  BY <1>0, <1>3, ExhaustedIsMissing
<1>4. CASE ClearHandle
  <2>1. lib' = [lib EXCEPT ![ClosedSlot(closing)] = NULL]
    BY <1>4 DEF ClearHandle
  <2>2. lib'[l] = lib[l]
    BY <1>0, <2>1
  <2> QED
    BY <1>1, <2>2
<1>5. CASE AtExitHandler
  BY <1>1, <1>5 DEF AtExitHandler, sharedVars
<1> QED
  BY <1>1, <1>2, <1>3, <1>4, <1>5, HandleSteps

\* A handle that is NULL now was NULL before, or no name of its slot opens.
LEMMA NullSteps ==
  ASSUME Safe, SearchMissed, [Next]_vars, phase' = "running",
         NEW l \in Lib, lib'[l] = NULL
  PROVE  lib[l] = NULL \/ Missing(l)
<1>0. TypeInv /\ lib \in [Lib -> Soname \cup {NULL}] /\ NULL \notin Soname
  BY LinkerAssumption DEF LinkerAssumption, Safe, TypeInv, TypeOK
<1>1. ASSUME NEW t \in Thread, OpenFound(t) PROVE lib[l] = NULL
  BY <1>0, <1>1, FoundIsFirst
<1>2. ASSUME NEW t \in Thread, OpenExhausted(t) PROVE lib[l] = NULL \/ Missing(l)
  BY <1>0, <1>2, ExhaustedIsMissing
<1> QED
  BY <1>1, <1>2, RunningHandles

LEMMA TestMissedNext ==
  Safe /\ SearchMissed /\ TestMissed /\ [Next]_vars => TestMissed'
<1> SUFFICES ASSUME Safe, SearchMissed, TestMissed, [Next]_vars, phase' = "running",
                    NEW u \in Thread, pc'[u] = "test",
                    NEW l, l = Libs[mod'[u]][cur'[u]], NEW m, m = mod'[u]
             PROVE  l \in SlotsOf(m) \cap Required /\ (lib'[l] = NULL => Missing(l)')
  BY DEF TestMissed, Slot
<1> SUFFICES l \in SlotsOf(m) \cap Required /\ (lib'[l] = NULL => Missing(l))
  BY SystemStays DEF Missing
<1> USE DEF Goto
<1>0. /\ TypeInv /\ pc \in [Thread -> Labels] /\ lib \in [Lib -> Soname \cup {NULL}]
      /\ NULL \notin Soname /\ Required \subseteq Lib /\ phase = "running"
  BY RunningSteps, LinkerAssumption, WranglerAssumption
  DEF LinkerAssumption, WranglerAssumption, Safe, TypeInv, TypeOK
<1>1. CASE pc'[u] = pc[u] /\ mod'[u] = mod[u] /\ cur'[u] = cur[u]
  <2>1. l = Slot(u) /\ l \in SlotsOf(m) \cap Required /\ (lib[l] = NULL => Missing(l))
    BY <1>0, <1>1 DEF TestMissed, Slot
  <2> QED
    BY <1>0, <2>1, NullSteps
<1>2. ASSUME OpenFound(u) \/ OpenExhausted(u)
      PROVE  l = Slot(u) /\ l \in SlotsOf(m) \cap Required
  <2>1. pc[u] = "open" /\ cur[u] <= Len(Libs[mod[u]]) /\ mod'[u] = mod[u]
    BY <1>2 DEF OpenFound, OpenExhausted
  <2>2. cur'[u] = cur[u] /\ Slot(u) \in Required
    BY <1>0, <1>2, <2>1 DEF OpenFound, OpenExhausted, StoreHandle
  <2> QED
    BY <1>0, <2>1, <2>2, SearchTypes DEF Slot
<1>3. CASE OpenFound(u)
  <2>1. lib'[l] \in Soname
    BY <1>0, <1>2, <1>3, FoundIsFirst
  <2> QED
    BY <1>0, <1>2, <1>3, <2>1
<1>4. CASE OpenExhausted(u)
  BY <1>0, <1>2, <1>4, ExhaustedIsMissing
<1>5. CASE (\E n \in Module : CallInit(u, n)) \/ Exit(u) \/ Mark(u) \/ InstallAtExitHandler(u)
  BY <1>0, <1>5 DEF CallInit, Exit, Mark, InstallAtExitHandler
<1>6. CASE TestInstalled(u) \/ TestRequired(u) \/ OpenDone(u) \/ TestOpened(u)
  BY <1>0, <1>6 DEF TestInstalled, TestRequired, OpenDone, TestOpened
<1>7. CASE OpenMissed(u) \/ Fetch(u) \/ FetchDone(u) \/ Return(u)
  BY <1>0, <1>7 DEF OpenMissed, Fetch, FetchDone, Return
<1> QED
  BY <1>0, <1>1, <1>3, <1>4, <1>5, <1>6, <1>7, OwnSteps DEF InitStep

\* Only the test for a required library makes the result OPEN_FAILED.
LEMMA OpenFailedSteps ==
  ASSUME TypeInv, [Next]_vars, NEW m \in Module, result'[m] = "OPEN_FAILED"
  PROVE  \/ result[m] = "OPEN_FAILED"
         \/ \E t \in Thread : mod[t] = m /\ pc[t] = "test" /\ lib[Slot(t)] = NULL
<1> USE DEF linkerVars, sharedVars, exitVars, threadVars
<1>0. result \in [Module -> Codes]
  BY DEF TypeInv, TypeOK
<1>1. ASSUME NEW t \in Thread, TestRequired(t), result'[m] # result[m]
      PROVE  mod[t] = m /\ pc[t] = "test" /\ lib[Slot(t)] = NULL
  BY <1>0, <1>1 DEF TestRequired, SetResult
<1>2. CASE \E t \in Thread : InstallAtExitHandler(t) \/ OpenDone(t) \/ FetchDone(t)
  BY <1>0, <1>2 DEF InstallAtExitHandler, OpenDone, FetchDone, SetResult
<1>3. CASE \E t \in Thread : (\E n \in Module : CallInit(t, n)) \/ Exit(t)
  BY <1>3 DEF CallInit, Exit
<1>4. CASE \E t \in Thread : \/ Mark(t) \/ TestInstalled(t) \/ OpenFound(t) \/ OpenMissed(t)
                              \/ OpenExhausted(t) \/ TestOpened(t) \/ Fetch(t) \/ Return(t)
  BY <1>4 DEF Mark, TestInstalled, OpenFound, OpenMissed, OpenExhausted, TestOpened, Fetch, Return
<1>5. CASE RegisterCleanup \/ ExitStep
  BY <1>5 DEF RegisterCleanup, ExitStep, RunCleanup, AtExitHandler, ClearHandle, EndProcess
<1>6. CASE UNCHANGED vars
  BY <1>6 DEF vars
<1> QED
  BY <1>1, <1>2, <1>3, <1>4, <1>5, <1>6 DEF Next, InitStep

LEMMA FailureMeansMissingNext ==
  Safe /\ TestMissed /\ FailureMeansMissing /\ [Next]_vars => FailureMeansMissing'
<1> SUFFICES ASSUME Safe, TestMissed, FailureMeansMissing, [Next]_vars, phase' = "running",
                    NEW m \in Module, result'[m] = "OPEN_FAILED"
             PROVE  RequiredMissing(m)'
  BY DEF FailureMeansMissing
<1> SUFFICES RequiredMissing(m)
  BY SystemStays DEF RequiredMissing, Missing
<1>1. phase = "running" /\ TypeInv
  BY RunningSteps DEF Safe
<1>2. CASE result[m] = "OPEN_FAILED"
  BY <1>1, <1>2 DEF FailureMeansMissing
<1>3. ASSUME NEW t \in Thread, mod[t] = m, pc[t] = "test", lib[Slot(t)] = NULL
      PROVE  RequiredMissing(m)
  BY <1>1, <1>3 DEF TestMissed, RequiredMissing
<1> QED
  BY <1>1, <1>2, <1>3, OpenFailedSteps

\* A thread is told what the static holds when it returns.
LEMMA AnswerSteps ==
  ASSUME TypeInv, [Next]_vars, NEW t \in Thread, NEW m \in Module
  PROVE  answer'[t][m] = answer[t][m] \/ answer'[t][m] = result[m]
<1> USE DEF linkerVars, sharedVars, exitVars, threadVars
<1>0. answer \in [Thread -> [Module -> Codes \cup {NULL}]]
  BY DEF TypeInv, TypeOK
<1>1. CASE \E u \in Thread : Return(u)
  BY <1>0, <1>1 DEF Return
<1>2. CASE \E u \in Thread : (\E n \in Module : CallInit(u, n)) \/ Exit(u)
  BY <1>2 DEF CallInit, Exit
<1>3. CASE \E u \in Thread : \/ Mark(u) \/ InstallAtExitHandler(u) \/ TestInstalled(u)
                              \/ OpenFound(u) \/ OpenMissed(u) \/ OpenExhausted(u)
                              \/ TestRequired(u) \/ OpenDone(u) \/ TestOpened(u)
                              \/ Fetch(u) \/ FetchDone(u)
  BY <1>3 DEF Mark, InstallAtExitHandler, TestInstalled, OpenFound, OpenMissed, OpenExhausted,
              TestRequired, OpenDone, TestOpened, Fetch, FetchDone
<1>4. CASE RegisterCleanup \/ ExitStep
  BY <1>4 DEF RegisterCleanup, ExitStep, RunCleanup, AtExitHandler, ClearHandle, EndProcess
<1>5. CASE UNCHANGED vars
  BY <1>5 DEF vars
<1> QED
  BY <1>1, <1>2, <1>3, <1>4, <1>5 DEF Next, InitStep

LEMMA ToldMeansMissingNext ==
  Safe /\ FailureMeansMissing /\ ToldMeansMissing /\ [Next]_vars => ToldMeansMissing'
<1> SUFFICES ASSUME Safe, FailureMeansMissing, ToldMeansMissing, [Next]_vars,
                    phase' = "running", NEW t \in Thread, NEW m \in Module,
                    answer'[t][m] = "OPEN_FAILED"
             PROVE  RequiredMissing(m)'
  BY DEF ToldMeansMissing, Told
<1> SUFFICES RequiredMissing(m)
  BY SystemStays DEF RequiredMissing, Missing
<1>1. phase = "running" /\ TypeInv
  BY RunningSteps DEF Safe
<1> QED
  BY <1>1, AnswerSteps DEF ToldMeansMissing, FailureMeansMissing, Told

LEMMA SearchInit == Init => Search
<1> SUFFICES ASSUME Init PROVE Search
  OBVIOUS
<1>1. FromStart /\ SearchMissed /\ TestMissed
  BY DEF Init, FromStart, SearchMissed, TestMissed
<1>2. FirstHeld /\ FailureMeansMissing
  BY DEF Init, FirstHeld, FailureMeansMissing
<1>3. ToldMeansMissing
  <2>1. NULL # "OPEN_FAILED"
    BY WranglerAssumption DEF WranglerAssumption, Codes
  <2> QED
    BY <2>1 DEF Init, ToldMeansMissing, Told
<1> QED
  BY <1>1, <1>2, <1>3 DEF Search

LEMMA SearchNext == Safe /\ Search /\ [Next]_vars => Search'
BY FromStartNext, SearchMissedNext, FirstHeldNext, TestMissedNext,
   FailureMeansMissingNext, ToldMeansMissingNext
DEF Search

\* The search invariant holds whatever the application does.
THEOREM SearchAlways == Spec => []Search
BY SafeAlways, SearchInit, SearchNext, PTL DEF Spec

\* The same files are opened and found whichever thread searches: a library
\* that one thread has stored is not replaced while the process runs.
THEOREM HandlesStay ==
  Spec => [][phase' = "running" => \A l \in Lib : lib[l] # NULL => lib'[l] = lib[l]]_vars
<1>1. Safe /\ Search /\ [Next]_vars =>
        (phase' = "running" => \A l \in Lib : lib[l] # NULL => lib'[l] = lib[l])
  BY StoredStays DEF Search
<1> QED
  BY <1>1, SafeAlways, SearchAlways, PTL DEF Spec

\* While the process runs, OPEN_FAILED is reported only where a required library
\* cannot be opened under any of its names, however many threads search for it.
THEOREM FailureAlwaysJustified == Spec => []FailureIsJustified
<1>1. Search => FailureIsJustified
  <2>1. ASSUME NEW l, Missing(l) PROVE FirstLoadable(l) = NULL
    BY <2>1 DEF Missing, FirstLoadable
  <2> QED
    BY <2>1 DEF Search, ToldMeansMissing, RequiredMissing, FailureIsJustified
<1> QED
  BY <1>1, SearchAlways, PTL

-----------------------------------------------------------------------------
(* Functors that are fetched again. *)

\* What a fetch finds for a functor: the same as before, if it was bound.
LEMMA FetchAgain ==
  ASSUME Exported = {}, Safe, BoundFirst, phase = "running",
         NEW s \in Sym, NEW x \in DlSym(lib[LibOf[s]], s)
  PROVE  /\ functor[s] # NULL => x = functor[s]
         /\ x # NULL => x = lib[LibOf[s]] /\ s \in provides[x]
<1>1. /\ functor[s] \in Soname \cup {NULL, Wrapper} /\ functor[s] # Wrapper
      /\ functor[s] \in Soname => opened[functor[s]] > 0
  BY DEF Safe, TypeInv, TypeOK, BoundToOpen
<1>2. CASE lib[LibOf[s]] = NULL
  BY <1>2 DEF DlSym, BoundFirst
<1>3. CASE lib[LibOf[s]] # NULL
  <2> DEFINE h == lib[LibOf[s]]
  <2>1. x \in {h, NULL} /\ (x = h => s \in provides[h])
    BY <1>3 DEF DlSym
  <2>2. ASSUME functor[s] # NULL PROVE x = functor[s]
    <3>1. functor[s] = h /\ s \in provides[h] /\ h \in Mapped
      BY <1>1, <2>2 DEF BoundFirst, Mapped
    <3>2. x # NULL
      BY <1>3, <3>1 DEF DlSym
    <3> QED
      BY <2>1, <3>1, <3>2
  <2> QED
    BY <2>1, <2>2
<1> QED
  BY <1>2, <1>3

\* While the process runs a bound functor does not change.
LEMMA FunctorStays ==
  ASSUME Exported = {}, Safe, BoundFirst, [Next]_vars, phase' = "running"
  PROVE  \A s \in Sym :
           /\ functor[s] # NULL => functor'[s] = functor[s]
           /\ functor[s] = NULL /\ functor'[s] # NULL =>
                functor'[s] = lib[LibOf[s]] /\ s \in provides[functor'[s]] /\ lib' = lib
<1>0. TypeInv /\ phase = "running" /\ functor \in [Sym -> Soname \cup {NULL, Wrapper}]
  BY RunningSteps DEF Safe, TypeInv, TypeOK
<1>1. ASSUME NEW t \in Thread, Fetch(t), NEW s \in Sym
      PROVE  /\ functor[s] # NULL => functor'[s] = functor[s]
             /\ functor[s] = NULL /\ functor'[s] # NULL =>
                  functor'[s] = lib[LibOf[s]] /\ s \in provides[functor'[s]] /\ lib' = lib
  <2> DEFINE q == Syms[mod[t]][cur[t]]
  <2>1. q \in Sym /\ lib' = lib
    BY <1>0, <1>1, FetchTypes DEF Fetch
  <2>2. PICK x \in DlSym(lib[LibOf[q]], q) : functor' = [functor EXCEPT ![q] = x]
    BY <1>1 DEF Fetch
  <2>3. CASE s = q
    <3>1. functor'[s] = x
      BY <1>0, <2>2, <2>3
    <3>2. /\ functor[s] # NULL => x = functor[s]
          /\ x # NULL => x = lib[LibOf[s]] /\ s \in provides[x]
      BY <1>0, <2>1, <2>2, <2>3, FetchAgain
    <3> QED
      BY <2>1, <3>1, <3>2
  <2>4. CASE s # q
    BY <1>0, <2>2, <2>4
  <2> QED
    BY <2>3, <2>4
<1> QED
  BY <1>1, FunctorSteps

LEMMA BoundFirstNext ==
  ASSUME Exported = {}
  PROVE  Safe /\ Search /\ BoundFirst /\ [Next]_vars => BoundFirst'
<1> SUFFICES ASSUME Safe, Search, BoundFirst, [Next]_vars, phase' = "running",
                    NEW s \in Sym, functor'[s] # NULL
             PROVE  functor'[s] = lib'[LibOf[s]] /\ s \in provides'[functor'[s]]
  BY DEF BoundFirst
<1>1. phase = "running" /\ provides' = provides
  BY RunningSteps, SystemStays
<1>2. CASE functor[s] # NULL
  <2>1. functor'[s] = functor[s] /\ functor[s] = lib[LibOf[s]] /\ s \in provides[functor[s]]
    BY <1>1, <1>2, FunctorStays DEF BoundFirst
  <2>2. lib'[LibOf[s]] = lib[LibOf[s]]
    BY <1>2, <2>1, StoredStays, TableTypes DEF Search
  <2> QED
    BY <1>1, <2>1, <2>2
<1>3. CASE functor[s] = NULL
  BY <1>1, <1>3, FunctorStays
<1> QED
  BY <1>2, <1>3

\* Where the wrappers are not exported, fetching the functions again - by a
\* second thread, into the same statics - changes no functor that was bound.
THEOREM BoundFunctorsAlwaysStay ==
  ASSUME Exported = {}
  PROVE  Spec => BoundFunctorsStay
<1>1. Init => BoundFirst
  BY DEF Init, BoundFirst
<1>2. Spec => []BoundFirst
  BY <1>1, SafeAlways, SearchAlways, BoundFirstNext, PTL DEF Spec
<1>3. Safe /\ BoundFirst /\ [Next]_vars =>
        (phase' = "running" => \A s \in Sym : HasSymbol(s) => functor'[s] = functor[s])
  BY FunctorStays DEF HasSymbol
<1> QED
  BY <1>2, <1>3, SafeAlways, PTL DEF Spec, BoundFunctorsStay

-----------------------------------------------------------------------------
(* Each thread makes one attempt for each module. *)

\* A thread at work on a module was told nothing of it yet; the module is marked
\* once any thread is past the mark, or was told something.
OneAttempt == \A t \in Thread :
  /\ pc[t] \notin {"idle", "exit", "return"} => Told(t, mod[t]) = NULL
  /\ pc[t] \notin {"idle", "exit", "mark"} => is_initialized[mod[t]]
  /\ \A m \in Module : Told(t, m) # NULL => is_initialized[m]

\* The threads that have been where the exit handler of m is registered, and
\* those that are done with slot i of m.
Tried(m) == {t \in Thread :
  \/ Told(t, m) # NULL
  \/ mod[t] = m /\ pc[t] \notin {"idle", "exit", "mark", "install"}}
Searched(m, i) == {t \in Thread :
  \/ Told(t, m) # NULL
  \/ mod[t] = m /\ \/ pc[t] \in {"opened", "fetch", "return"}
                   \/ pc[t] = "test" /\ cur[t] >= i
                   \/ pc[t] = "open" /\ cur[t] > i}

Registrations(m) == {i \in 1..Len(handlers) : handlers[i] = m}
RegistrationsCounted ==
  \A m \in Module : Cardinality(Registrations(m)) <= Cardinality(Tried(m))

\* File f is the name of slot i of m.
Names(f, m, i) == \E j \in 1..Len(Paths[Libs[m][i]]) : f = Paths[Libs[m][i]][j]
OpensCounted ==
  \A f \in Soname, m \in Module : \A i \in 1..Len(Libs[m]) :
    Names(f, m, i) => opened[f] <= Cardinality(Searched(m, i))
OthersClosed ==
  \A f \in Soname : opened[f] <= 0 \/ \E m \in Module : \E i \in 1..Len(Libs[m]) : Names(f, m, i)

Attempts == OneAttempt /\ RegistrationsCounted /\ OpensCounted /\ OthersClosed

\* What a thread was told is kept or is the result of a return.
LEMMA ToldSteps ==
  ASSUME TypeInv, [Next]_vars, NEW t \in Thread, NEW m \in Module
  PROVE  /\ Told(t, m) # NULL => Told(t, m)' # NULL
         /\ Told(t, m)' = Told(t, m) \/ (Return(t) /\ mod[t] = m /\ Told(t, m)' # NULL)
<1> USE DEF linkerVars, sharedVars, exitVars, threadVars, Told
<1>0. /\ answer \in [Thread -> [Module -> Codes \cup {NULL}]]
      /\ result \in [Module -> Codes] /\ NULL \notin Codes
  BY WranglerAssumption DEF TypeInv, TypeOK, WranglerAssumption
<1>1. ASSUME NEW u \in Thread, (\E n \in Module : CallInit(u, n)) \/ Exit(u)
      PROVE  answer' = answer
  BY <1>1 DEF CallInit, Exit
<1>2. ASSUME NEW u \in Thread, InitStep(u), ~Return(u) PROVE answer' = answer
  BY <1>2 DEF InitStep, Mark, InstallAtExitHandler, TestInstalled, OpenFound, OpenMissed,
              OpenExhausted, TestRequired, OpenDone, TestOpened, Fetch, FetchDone
<1>3. ASSUME NEW u \in Thread, Return(u)
      PROVE  /\ answer[t][m] # NULL => answer'[t][m] # NULL
             /\ answer'[t][m] = answer[t][m] \/ (Return(t) /\ mod[t] = m /\ answer'[t][m] # NULL)
  <2>1. /\ mod[u] \in Module /\ result[mod[u]] # NULL
        /\ answer' = [answer EXCEPT ![u][mod[u]] = result[mod[u]]]
    BY <1>0, <1>3 DEF Return, TypeInv, InsideModule, Inside
  <2>2. CASE t = u /\ m = mod[u]
    BY <1>0, <1>3, <2>1, <2>2
  <2>3. CASE ~(t = u /\ m = mod[u])
    <3>1. answer'[t][m] = answer[t][m]
      BY <1>0, <2>1, <2>3
    <3> QED
      BY <3>1
  <2> QED
    BY <2>2, <2>3
<1>4. CASE RegisterCleanup \/ ExitStep
  BY <1>4 DEF RegisterCleanup, ExitStep, RunCleanup, AtExitHandler, ClearHandle, EndProcess
<1>5. CASE UNCHANGED vars
  BY <1>5 DEF vars
<1> QED
  BY <1>1, <1>2, <1>3, <1>4, <1>5 DEF Next

\* A module that was marked stays marked.
LEMMA MarkedStays ==
  ASSUME TypeInv, [Next]_vars
  PROVE  /\ \A m \in Module : is_initialized[m] => is_initialized'[m]
         /\ \A t \in Thread : Mark(t) => is_initialized'[mod[t]]
<1> USE DEF linkerVars, sharedVars, exitVars, threadVars
<1>0. is_initialized \in [Module -> BOOLEAN]
  BY DEF TypeInv, TypeOK
<1>1. ASSUME NEW u \in Thread, (\E n \in Module : CallInit(u, n)) \/ Exit(u)
      PROVE  is_initialized' = is_initialized
  BY <1>1 DEF CallInit, Exit
<1>2. ASSUME NEW u \in Thread, InitStep(u), ~Mark(u) PROVE is_initialized' = is_initialized
  BY <1>2 DEF InitStep, InstallAtExitHandler, TestInstalled, OpenFound, OpenMissed,
              OpenExhausted, TestRequired, OpenDone, TestOpened, Fetch, FetchDone, Return
<1>3. ASSUME NEW u \in Thread, Mark(u)
      PROVE  /\ is_initialized'[mod[u]]
             /\ \A m \in Module : is_initialized[m] => is_initialized'[m]
  <2>1. mod[u] \in Module
    BY <1>3 DEF Mark, TypeInv, InsideModule, Inside
  <2> QED
    BY <1>0, <1>3, <2>1 DEF Mark
<1>4. ASSUME RegisterCleanup \/ ExitStep PROVE is_initialized' = is_initialized
  BY <1>4 DEF RegisterCleanup, ExitStep, RunCleanup, AtExitHandler, ClearHandle, EndProcess
<1>5. ASSUME UNCHANGED vars PROVE is_initialized' = is_initialized
  BY <1>5 DEF vars
<1>6. \A m \in Module : is_initialized[m] => is_initialized'[m]
  BY <1>1, <1>2, <1>3, <1>4, <1>5 DEF Next
<1> QED
  BY <1>3, <1>6

\* What a step of one thread makes of its place in the attempt.
LEMMA OwnProgress ==
  ASSUME TypeInv, OneAttempt, [Next]_vars, NEW u \in Thread, NEW m \in Module, mod[u] = m
  PROVE  /\ pc[u] \notin {"idle", "exit", "mark", "install"} =>
              Told(u, m)' # NULL \/ (mod'[u] = m /\ pc'[u] \notin {"idle", "exit", "mark", "install"})
         /\ pc[u] \in {"opened", "fetch", "return"} =>
              Told(u, m)' # NULL \/ (mod'[u] = m /\ pc'[u] \in {"opened", "fetch", "return"})
         /\ \A i \in Nat :
              (pc[u] = "test" /\ cur[u] >= i) \/ (pc[u] = "open" /\ cur[u] > i) =>
                /\ mod'[u] = m
                /\ \/ pc'[u] = "opened"
                   \/ pc'[u] = "test" /\ cur'[u] >= i
                   \/ pc'[u] = "open" /\ cur'[u] > i
<1> USE DEF Goto, linkerVars, sharedVars, exitVars, threadVars
<1>0. /\ pc \in [Thread -> Labels] /\ mod \in [Thread -> Module \cup {NULL}]
      /\ cur \in [Thread -> Nat \ {0}]
  BY DEF TypeInv, TypeOK
<1>1. ASSUME (\E n \in Module : CallInit(u, n)) \/ Exit(u)
      PROVE  pc[u] = "idle"
  BY <1>1 DEF CallInit, Exit
<1>2. CASE Mark(u) \/ InstallAtExitHandler(u)
  BY <1>0, <1>2 DEF Mark, InstallAtExitHandler
<1>3. CASE TestInstalled(u)
  BY <1>0, <1>3 DEF TestInstalled
<1>4. CASE OpenFound(u) \/ OpenExhausted(u)
  BY <1>0, <1>4 DEF OpenFound, OpenExhausted, StoreHandle, NextSlot
<1>5. CASE OpenMissed(u)
  BY <1>0, <1>5 DEF OpenMissed
<1>6. CASE TestRequired(u)
  BY <1>0, <1>6 DEF TestRequired, NextSlot
<1>7. CASE OpenDone(u) \/ TestOpened(u)
  BY <1>0, <1>7 DEF OpenDone, TestOpened
<1>8. CASE Fetch(u) \/ FetchDone(u)
  BY <1>0, <1>8 DEF Fetch, FetchDone
<1>9. CASE Return(u)
  <2>1. Told(u, m)' # NULL
    <3>1. /\ answer \in [Thread -> [Module -> Codes \cup {NULL}]]
          /\ result[m] # NULL
      BY WranglerAssumption DEF TypeInv, TypeOK, WranglerAssumption
    <3> QED
      BY <1>9, <3>1 DEF Return, Told
  <2> QED
    BY <1>0, <1>9, <2>1 DEF Return
<1> QED
  BY <1>1, <1>2, <1>3, <1>4, <1>5, <1>6, <1>7, <1>8, <1>9, OwnSteps DEF InitStep

LEMMA OneAttemptNext == TypeInv /\ OneAttempt /\ [Next]_vars => OneAttempt'
<1> SUFFICES ASSUME TypeInv, OneAttempt, [Next]_vars, NEW t \in Thread
             PROVE  /\ pc'[t] \notin {"idle", "exit", "return"} => answer'[t][mod'[t]] = NULL
                    /\ pc'[t] \notin {"idle", "exit", "mark"} => is_initialized'[mod'[t]]
                    /\ \A m \in Module : answer'[t][m] # NULL => is_initialized'[m]
  BY DEF OneAttempt, Told
<1> USE DEF Goto, Told
<1>0. /\ pc \in [Thread -> Labels] /\ mod \in [Thread -> Module \cup {NULL}]
      /\ pc[t] \notin {"idle", "exit"} => mod[t] \in Module
      /\ pc[t] \notin {"idle", "exit", "return"} => answer[t][mod[t]] = NULL
      /\ pc[t] \notin {"idle", "exit", "mark"} => is_initialized[mod[t]]
      /\ \A m \in Module : answer[t][m] # NULL => is_initialized[m]
  BY DEF TypeInv, TypeOK, InsideModule, Inside, OneAttempt
<1>a. \A m \in Module :
        answer'[t][m] = answer[t][m] \/ (Return(t) /\ mod[t] = m /\ answer'[t][m] # NULL)
  BY ToldSteps
<1>b. /\ \A m \in Module : is_initialized[m] => is_initialized'[m]
      /\ Mark(t) => is_initialized'[mod[t]]
  BY MarkedStays
<1>1. \A m \in Module : answer'[t][m] # NULL => is_initialized'[m]
  BY <1>0, <1>a, <1>b DEF Return
<1>2. ASSUME pc'[t] = pc[t], mod'[t] = mod[t]
      PROVE  /\ pc'[t] \notin {"idle", "exit", "return"} => answer'[t][mod'[t]] = NULL
             /\ pc'[t] \notin {"idle", "exit", "mark"} => is_initialized'[mod'[t]]
  BY <1>0, <1>2, <1>a, <1>b DEF Return
<1>3. ASSUME NEW m \in Module, CallInit(t, m)
      PROVE  /\ pc'[t] \notin {"idle", "exit", "return"} => answer'[t][mod'[t]] = NULL
             /\ pc'[t] \notin {"idle", "exit", "mark"} => is_initialized'[mod'[t]]
  BY <1>0, <1>3 DEF CallInit, sharedVars
<1>4. ASSUME InitStep(t)
      PROVE  /\ pc'[t] \notin {"idle", "exit", "return"} => answer'[t][mod'[t]] = NULL
             /\ pc'[t] \notin {"idle", "exit", "mark"} => is_initialized'[mod'[t]]
  <2>1. CASE Return(t)
    BY <1>0, <2>1 DEF Return
  <2>2. CASE Mark(t)
    BY <1>0, <1>a, <1>b, <2>2 DEF Mark, Return
  <2>3. ASSUME ~Return(t), ~Mark(t)
        PROVE  mod'[t] = mod[t] /\ pc[t] \notin {"idle", "exit", "return", "mark"}
    BY <1>0, <1>4, <2>3 DEF InitStep, InstallAtExitHandler, TestInstalled, OpenFound,
       OpenMissed, OpenExhausted, TestRequired, OpenDone, TestOpened, Fetch, FetchDone
  <2> QED
    BY <1>0, <1>a, <1>b, <2>1, <2>2, <2>3
<1>5. CASE Exit(t)
  BY <1>0, <1>1, <1>5 DEF Exit
<1> QED
  BY <1>1, <1>2, <1>3, <1>4, <1>5, OwnSteps

\* No thread ever leaves these sets.
LEMMA ThreadsStay ==
  ASSUME TypeInv, OneAttempt, [Next]_vars, NEW m \in Module
  PROVE  /\ Tried(m) \subseteq Tried(m)'
         /\ \A i \in Nat : Searched(m, i) \subseteq Searched(m, i)'
<1>1. ASSUME NEW u \in Tried(m) PROVE u \in Tried(m)'
  BY <1>1, OwnProgress, ToldSteps DEF Tried, Told
<1>2. ASSUME NEW i \in Nat, NEW u \in Searched(m, i) PROVE u \in Searched(m, i)'
  <2>1. CASE Told(u, m) # NULL
    BY <2>1, ToldSteps DEF Searched, Told
  <2>2. CASE mod[u] = m /\ pc[u] \in {"opened", "fetch", "return"}
    BY <2>2, OwnProgress DEF Searched, Told
  <2>3. CASE mod[u] = m /\ ((pc[u] = "test" /\ cur[u] >= i) \/ (pc[u] = "open" /\ cur[u] > i))
    BY <2>3, OwnProgress DEF Searched, Told
  <2> QED
    BY <2>1, <2>2, <2>3 DEF Searched
<1> QED
  BY <1>1, <1>2

\* Sets of threads in numbers: one that grows does not shrink, and one that
\* gets a new element has at least one more.
LEMMA Growing ==
  ASSUME NEW T, IsFiniteSet(T), NEW S, S \subseteq T
  PROVE  /\ Cardinality(S) \in Nat /\ Cardinality(T) \in Nat
         /\ Cardinality(S) <= Cardinality(T)
         /\ \A x \in T \ S : Cardinality(S) + 1 <= Cardinality(T)
<1>1. IsFiniteSet(S) /\ Cardinality(S) <= Cardinality(T)
  BY FS_Subset
<1>2. Cardinality(S) \in Nat /\ Cardinality(T) \in Nat
  BY <1>1, FS_CardinalityType
<1>3. ASSUME NEW x \in T \ S PROVE Cardinality(S) + 1 <= Cardinality(T)
  <2>1. S \cup {x} \subseteq T /\ Cardinality(S \cup {x}) = Cardinality(S) + 1
    BY <1>1, FS_AddElement
  <2>2. Cardinality(S \cup {x}) <= Cardinality(T)
    BY <2>1, FS_Subset
  <2> QED
    BY <2>1, <2>2
<1> QED
  BY <1>1, <1>2, <1>3

\* The atexit list: kept, one longer, or one shorter.
LEMMA ListChanges ==
  ASSUME TypeInv, [Next]_vars
  PROVE  \/ handlers' = handlers
         \/ handlers' = Append(handlers, App)
         \/ \E t \in Thread : InstallAtExitHandler(t) /\ handlers' = Append(handlers, mod[t])
         \/ handlers # <<>> /\ PopHandler
<1> USE DEF linkerVars, sharedVars, exitVars, threadVars
<1>1. CASE \E t \in Thread : (\E m \in Module : CallInit(t, m)) \/ Exit(t)
  BY <1>1 DEF CallInit, Exit
<1>2. ASSUME NEW t \in Thread, InitStep(t), ~InstallAtExitHandler(t) PROVE handlers' = handlers
  BY <1>2 DEF InitStep, Mark, TestInstalled, OpenFound, OpenMissed,
              OpenExhausted, TestRequired, OpenDone, TestOpened, Fetch, FetchDone, Return
<1>3. ASSUME NEW t \in Thread, InstallAtExitHandler(t)
      PROVE  handlers' = handlers \/ handlers' = Append(handlers, mod[t])
  BY <1>3 DEF InstallAtExitHandler
<1>4. CASE RegisterCleanup
  BY <1>4 DEF RegisterCleanup
<1>5. CASE ExitStep
  BY <1>5 DEF ExitStep, RunCleanup, AtExitHandler, ClearHandle, EndProcess
<1>6. CASE UNCHANGED vars
  BY <1>6 DEF vars
<1> QED
  BY <1>1, <1>2, <1>3, <1>4, <1>5, <1>6 DEF Next

LEMMA RegistrationsNext ==
  ASSUME IsFiniteSet(Thread), TypeInv, OneAttempt, RegistrationsCounted, [Next]_vars
  PROVE  RegistrationsCounted'
<1> SUFFICES ASSUME NEW m \in Module
             PROVE  Cardinality(Registrations(m)') <= Cardinality(Tried(m)')
  BY DEF RegistrationsCounted
<1> DEFINE n == Len(handlers)
<1>0. handlers \in Seq(Module \cup {App}) /\ n \in Nat
  BY DEF TypeInv, TypeOK
<1>1. /\ Tried(m) \subseteq Tried(m)'
      /\ IsFiniteSet(Tried(m)) /\ IsFiniteSet(Tried(m)')
  <2>1. Tried(m) \subseteq Thread /\ Tried(m)' \subseteq Thread
    BY DEF Tried
  <2> QED
    BY <2>1, ThreadsStay, FS_Subset
<1>2. /\ IsFiniteSet(Registrations(m))
      /\ Cardinality(Registrations(m)) \in Nat
      /\ Cardinality(Registrations(m)) <= Cardinality(Tried(m))
  <2>1. Registrations(m) \subseteq 1..n /\ IsFiniteSet(1..n)
    BY <1>0, FS_Interval DEF Registrations
  <2>2. IsFiniteSet(Registrations(m))
    BY <2>1, FS_Subset
  <2> QED
    BY <2>2, FS_CardinalityType DEF RegistrationsCounted
<1>3. ASSUME Registrations(m)' \subseteq Registrations(m)
      PROVE  Cardinality(Registrations(m)') <= Cardinality(Tried(m)')
  BY <1>1, <1>2, <1>3, Growing
<1>4. CASE handlers' = handlers
  BY <1>3, <1>4 DEF Registrations
<1>5. CASE handlers' = Append(handlers, App)
  <2>1. Registrations(m)' \subseteq Registrations(m)
    BY <1>0, <1>5, WranglerAssumption DEF Registrations, WranglerAssumption
  <2> QED
    BY <1>3, <2>1
<1>6. CASE handlers # <<>> /\ PopHandler
  <2>1. Registrations(m)' \subseteq Registrations(m)
    BY <1>0, <1>6 DEF Registrations, PopHandler
  <2> QED
    BY <1>3, <2>1
<1>7. ASSUME NEW t \in Thread, InstallAtExitHandler(t), handlers' = Append(handlers, mod[t])
      PROVE  Cardinality(Registrations(m)') <= Cardinality(Tried(m)')
  <2>0. mod[t] \in Module
    BY <1>7 DEF InstallAtExitHandler, TypeInv, InsideModule, Inside
  <2>1. CASE mod[t] # m
    <3>1. Registrations(m)' \subseteq Registrations(m)
      BY <1>0, <1>7, <2>0, <2>1 DEF Registrations
    <3> QED
      BY <1>3, <3>1
  <2>2. CASE mod[t] = m
    <3>1. Registrations(m)' = Registrations(m) \cup {n + 1} /\ n + 1 \notin Registrations(m)
      BY <1>0, <1>7, <2>0, <2>2 DEF Registrations
    <3>2. Cardinality(Registrations(m)') = Cardinality(Registrations(m)) + 1
      BY <1>2, <3>1, FS_AddElement
    <3>3. t \notin Tried(m)
      BY <1>7, <2>2 DEF InstallAtExitHandler, OneAttempt, Tried
    <3>4. t \in Tried(m)'
      BY <1>7, <2>2 DEF InstallAtExitHandler, Goto, Tried, TypeInv, TypeOK
    <3>5. Cardinality(Tried(m)) + 1 <= Cardinality(Tried(m)') /\ Cardinality(Tried(m)) \in Nat
      BY <1>1, <3>3, <3>4, Growing
    <3>6. Cardinality(Tried(m)') \in Nat
      BY <1>1, FS_CardinalityType
    <3> QED
      BY <1>2, <3>2, <3>5, <3>6
  <2> QED
    BY <2>1, <2>2
<1> QED
  BY <1>4, <1>5, <1>6, <1>7, ListChanges

\* A reference is added in the search of some thread only.
LEMMA OpenedSteps ==
  ASSUME Safe, [Next]_vars, NEW f \in Soname
  PROVE  \/ opened'[f] <= opened[f]
         \/ \E t \in Thread : /\ OpenFound(t) /\ f = Candidate(t)
                            /\ opened'[f] = opened[f] + 1
<1>0. opened \in [Soname -> Int]
  BY DEF Safe, TypeInv, TypeOK, LinkerTypeOK
<1>1. ASSUME NEW t \in Thread, OpenFound(t)
      PROVE  opened'[f] = opened[f] \/ (f = Candidate(t) /\ opened'[f] = opened[f] + 1)
  BY <1>0, <1>1 DEF OpenFound, DlOpen
<1>2. ASSUME NEW t \in Thread, OpenExhausted(t) PROVE opened' = opened
  BY <1>2 DEF OpenExhausted, linkerVars
<1>3. CASE AtExitHandler
  BY <1>0, <1>3 DEF AtExitHandler, DlClose, linkerVars
<1>4. ASSUME ClearHandle PROVE opened' = opened
  BY <1>4 DEF ClearHandle, linkerVars
<1> QED
  BY <1>0, <1>1, <1>2, <1>3, <1>4, HandleSteps

\* A file is a name of one slot.
LEMMA OneSlot ==
  ASSUME NEW f, NEW k \in Lib, NEW l \in Lib,
         \E a \in 1..Len(Paths[k]) : f = Paths[k][a],
         \E b \in 1..Len(Paths[l]) : f = Paths[l][b]
  PROVE  k = l
<1>1. PICK a \in 1..Len(Paths[k]) : f = Paths[k][a]
  OBVIOUS
<1>2. PICK b \in 1..Len(Paths[l]) : f = Paths[l][b]
  OBVIOUS
<1>3. \A x, y \in Lib : \A i \in 1..Len(Paths[x]), j \in 1..Len(Paths[y]) :
        Paths[x][i] = Paths[y][j] => x = y
  BY WranglerAssumption DEF WranglerAssumption
<1> QED
  BY <1>1, <1>2, <1>3

LEMMA OpensNext ==
  ASSUME IsFiniteSet(Thread), Safe, OneAttempt, OpensCounted, OthersClosed, [Next]_vars
  PROVE  OpensCounted' /\ OthersClosed'
<1>0. /\ opened \in [Soname -> Int] /\ opened' \in [Soname -> Int]
      /\ cur \in [Thread -> Nat \ {0}] /\ TypeInv
  BY TypeNext DEF Safe, TypeInv, TypeOK, LinkerTypeOK
<1>1. ASSUME NEW m \in Module, NEW i \in 1..Len(Libs[m])
      PROVE  /\ Searched(m, i) \subseteq Searched(m, i)'
             /\ IsFiniteSet(Searched(m, i)')
             /\ Cardinality(Searched(m, i)) \in Nat /\ Cardinality(Searched(m, i)') \in Nat
             /\ Cardinality(Searched(m, i)) <= Cardinality(Searched(m, i)')
  <2>1. Searched(m, i)' \subseteq Thread /\ i \in Nat
    BY DEF Searched
  <2>2. Searched(m, i) \subseteq Searched(m, i)' /\ IsFiniteSet(Searched(m, i)')
    BY <1>0, <2>1, ThreadsStay, FS_Subset
  <2> QED
    BY <2>2, Growing
\* The slot that a thread in its search is at.
<1>2. ASSUME NEW t \in Thread, OpenFound(t), NEW m, m = mod[t], NEW i, i = cur[t]
      PROVE  /\ m \in Module /\ i \in 1..Len(Libs[m]) /\ Names(Candidate(t), m, i)
             /\ t \notin Searched(m, i) /\ t \in Searched(m, i)'
  <2>0. mod[t] \in Module /\ pc[t] = "open" /\ Len(Libs[mod[t]]) \in Nat
    <3>1. pc[t] = "open"
      BY <1>2 DEF OpenFound
    <3>2. mod[t] \in Module
      BY <1>0, <3>1 DEF TypeInv, InsideModule, Inside
    <3> QED
      BY <3>1, <3>2, WranglerAssumption DEF WranglerAssumption
  <2>1. /\ m \in Module /\ pc[t] = "open" /\ i \in Nat \ {0}
        /\ i <= Len(Libs[m]) /\ Len(Libs[m]) \in Nat
    BY <1>0, <1>2, <2>0 DEF OpenFound
  <2>2. Names(Candidate(t), m, i)
    BY <1>0, <1>2, <2>1, SearchTypes DEF OpenFound, Names, Candidate, Slot
  <2>3. t \notin Searched(m, i)
    BY <1>2, <2>1 DEF OneAttempt, Searched
  <2>4. mod'[t] = m /\ ((pc'[t] = "test" /\ cur'[t] = i) \/ (pc'[t] = "open" /\ cur'[t] = i + 1))
    <3>1. pc \in [Thread -> Labels]
      BY DEF Safe, TypeInv, TypeOK
    <3>2. CASE Slot(t) \in Required
      BY <1>0, <1>2, <2>1, <3>1, <3>2 DEF OpenFound, StoreHandle, Goto
    <3>3. CASE Slot(t) \notin Required
      BY <1>0, <1>2, <2>1, <3>1, <3>3 DEF OpenFound, StoreHandle, NextSlot
    <3> QED
      BY <3>2, <3>3
  <2>5. t \in Searched(m, i)'
    BY <2>1, <2>4 DEF Searched
  <2> QED
    BY <2>1, <2>2, <2>3, <2>5
<1>3. OpensCounted'
  <2> SUFFICES ASSUME NEW f \in Soname, NEW m \in Module, NEW i \in 1..Len(Libs[m]),
                      Names(f, m, i)
               PROVE  opened'[f] <= Cardinality(Searched(m, i)')
    BY DEF OpensCounted, Names
  <2>0. opened[f] <= Cardinality(Searched(m, i)) /\ opened[f] \in Int /\ opened'[f] \in Int
    BY <1>0 DEF OpensCounted
  <2>1. CASE opened'[f] <= opened[f]
    BY <1>1, <2>0, <2>1
  <2>2. ASSUME NEW t \in Thread, OpenFound(t), f = Candidate(t), opened'[f] = opened[f] + 1
        PROVE  opened'[f] <= Cardinality(Searched(m, i)')
    <3>1. m = mod[t] /\ i = cur[t]
      <4>1. \A x, y \in Module : \A a \in 1..Len(Libs[x]), b \in 1..Len(Libs[y]) :
              Libs[x][a] = Libs[y][b] => x = y /\ a = b
        BY WranglerAssumption DEF WranglerAssumption
      <4>2. /\ mod[t] \in Module /\ cur[t] \in 1..Len(Libs[mod[t]])
            /\ Names(f, mod[t], cur[t])
        BY <1>2, <2>2
      <4>3. Libs[m][i] \in Lib /\ Libs[mod[t]][cur[t]] \in Lib
        BY <4>2, TableTypes
      <4>4. Libs[m][i] = Libs[mod[t]][cur[t]]
        <5>1. \A k, l \in Lib :
                /\ \E a \in 1..Len(Paths[k]) : f = Paths[k][a]
                /\ \E b \in 1..Len(Paths[l]) : f = Paths[l][b]
                => k = l
          BY OneSlot
        <5>2. /\ \E a \in 1..Len(Paths[Libs[m][i]]) : f = Paths[Libs[m][i]][a]
              /\ \E b \in 1..Len(Paths[Libs[mod[t]][cur[t]]]) : f = Paths[Libs[mod[t]][cur[t]]][b]
          BY <4>2 DEF Names
        <5> QED
          BY <4>3, <5>1, <5>2
      <4> QED
        BY <4>1, <4>2, <4>4
    <3>2. t \in Searched(m, i)' \ Searched(m, i)
      BY <1>2, <2>2, <3>1
    <3>3. Cardinality(Searched(m, i)) + 1 <= Cardinality(Searched(m, i)')
      BY <1>1, <3>2, Growing
    <3> QED
      BY <1>1, <2>0, <2>2, <3>3
  <2> QED
    BY <2>1, <2>2, OpenedSteps
<1>4. OthersClosed'
  <2> SUFFICES ASSUME NEW f \in Soname
               PROVE  \/ opened'[f] <= 0
                      \/ \E m \in Module : \E i \in 1..Len(Libs[m]) : Names(f, m, i)
    BY DEF OthersClosed, Names
  <2>1. CASE opened'[f] <= opened[f]
    BY <1>0, <2>1 DEF OthersClosed
  <2>2. ASSUME NEW t \in Thread, OpenFound(t), f = Candidate(t)
        PROVE  \E m \in Module : \E i \in 1..Len(Libs[m]) : Names(f, m, i)
    <3>1. /\ mod[t] \in Module /\ cur[t] \in 1..Len(Libs[mod[t]])
          /\ Names(f, mod[t], cur[t])
      BY <1>2, <2>2
    <3> QED
      BY <3>1
  <2> QED
    BY <2>1, <2>2, OpenedSteps
<1> QED
  BY <1>3, <1>4

LEMMA AttemptsNext ==
  ASSUME IsFiniteSet(Thread)
  PROVE  Safe /\ Attempts /\ [Next]_vars => Attempts'
<1> SUFFICES ASSUME Safe, Attempts, [Next]_vars PROVE Attempts'
  OBVIOUS
<1> QED
  BY OneAttemptNext, RegistrationsNext, OpensNext DEF Attempts, Safe

LEMMA AttemptsInit == ASSUME IsFiniteSet(Thread) PROVE Init => Attempts
<1> SUFFICES ASSUME Init PROVE Attempts
  OBVIOUS
<1>1. OneAttempt
  BY DEF Init, OneAttempt, Told
<1>2. RegistrationsCounted
  <2> SUFFICES ASSUME NEW m \in Module
               PROVE  Cardinality(Registrations(m)) <= Cardinality(Tried(m))
    BY DEF RegistrationsCounted
  <2>1. Registrations(m) = {} /\ Tried(m) \subseteq Thread
    BY DEF Init, Registrations, Tried
  <2>2. Cardinality(Tried(m)) \in Nat
    BY <2>1, FS_Subset, FS_CardinalityType
  <2> QED
    BY <2>1, <2>2, FS_EmptySet
<1>3. OpensCounted
  <2> SUFFICES ASSUME NEW f \in Soname, NEW m \in Module, NEW i \in 1..Len(Libs[m])
               PROVE  opened[f] <= Cardinality(Searched(m, i))
    BY DEF OpensCounted
  <2>1. Searched(m, i) \subseteq Thread
    BY DEF Searched
  <2>2. Cardinality(Searched(m, i)) \in Nat
    BY <2>1, FS_Subset, FS_CardinalityType
  <2> QED
    BY <2>2 DEF Init, LinkerInit
<1>4. OthersClosed
  <2>1. ASSUME NEW f \in Soname PROVE opened[f] <= 0
    <3>1. opened[f] = 0
      BY DEF Init, LinkerInit
    <3> QED
      BY <3>1
  <2> QED
    BY <2>1 DEF OthersClosed
<1> QED
  BY <1>1, <1>2, <1>3, <1>4 DEF Attempts

\* Repeated calls of Init, by any finite number of threads and in any order, use
\* up neither the atexit list nor the reference counts of the libraries.
THEOREM AttemptsAlwaysBounded ==
  ASSUME IsFiniteSet(Thread)
  PROVE  Spec => []AttemptsBounded
<1>1. Safe /\ Attempts => AttemptsBounded
  <2> SUFFICES ASSUME Safe, Attempts PROVE AttemptsBounded
    OBVIOUS
  <2>0. Cardinality(Thread) \in Nat /\ opened \in [Soname -> Int]
    BY FS_CardinalityType DEF Safe, TypeInv, TypeOK, LinkerTypeOK
  <2>1. ASSUME NEW m \in Module PROVE Cardinality(Registrations(m)) <= Cardinality(Thread)
    <3>1. Tried(m) \subseteq Thread
      BY DEF Tried
    <3>2. Cardinality(Tried(m)) \in Nat /\ Cardinality(Tried(m)) <= Cardinality(Thread)
      BY <3>1, Growing
    <3>3. Registrations(m) \subseteq 1..Len(handlers) /\ Len(handlers) \in Nat
      BY DEF Registrations, Safe, TypeInv, TypeOK
    <3>4. Cardinality(Registrations(m)) \in Nat
      <4>1. IsFiniteSet(1..Len(handlers))
        BY <3>3, FS_Interval
      <4>2. IsFiniteSet(Registrations(m))
        BY <3>3, <4>1, FS_Subset
      <4> QED
        BY <4>2, FS_CardinalityType
    <3> QED
      BY <2>0, <3>2, <3>4 DEF Attempts, RegistrationsCounted
  <2>2. ASSUME NEW f \in Soname PROVE opened[f] <= Cardinality(Thread)
    <3>1. CASE opened[f] <= 0
      BY <2>0, <3>1
    <3>2. ASSUME NEW m \in Module, NEW i \in 1..Len(Libs[m]), Names(f, m, i)
          PROVE  opened[f] <= Cardinality(Thread)
      <4>1. Searched(m, i) \subseteq Thread
        BY DEF Searched
      <4>2. Cardinality(Searched(m, i)) \in Nat /\ Cardinality(Searched(m, i)) <= Cardinality(Thread)
        BY <4>1, Growing
      <4> QED
        BY <2>0, <3>2, <4>2 DEF Attempts, OpensCounted
    <3> QED
      BY <3>1, <3>2 DEF Attempts, OthersClosed
  <2> QED
    BY <2>1, <2>2 DEF AttemptsBounded, Registrations
<1> QED
  BY <1>1, AttemptsInit, AttemptsNext, SafeAlways, PTL DEF Spec
=============================================================================
