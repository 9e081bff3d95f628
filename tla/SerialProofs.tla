---------------------------- MODULE SerialProofs ----------------------------
(***************************************************************************)
(* What applications whose calls of Init do not overlap can rely on        *)
(* (SerialSpec), for any number of modules, libraries, functions and       *)
(* threads that take turns: the attempt is made once, its outcome is kept, *)
(* success means that the work is done, failure that nothing was bound.    *)
(***************************************************************************)
EXTENDS SearchProofs, CallSites

\* At most one thread is inside Init, and only while the process runs.
Alone == \A t \in Thread : Inside(t) =>
  phase = "running" /\ \A u \in Thread : Inside(u) => u = t

\* The attempt is marked by its first step.
Begun == \A t \in Thread : Inside(t) => (is_initialized[mod[t]] <=> pc[t] # "mark")

\* A thread is making the attempt of m.
Working(m) == \E t \in Thread : Inside(t) /\ mod[t] = m /\ pc[t] # "return"

\* Nobody has an answer before the attempt is over, and then all have the same.
Untold == \A m \in Module : Working(m) => \A u \in Thread : Told(u, m) = NULL
Kept == \A t \in Thread, m \in Module :
  Told(t, m) # NULL => is_initialized[m] /\ Told(t, m) = result[m]

\* A functor is bound only by an attempt that opened its libraries.
Fetching == \A t \in Thread : pc[t] = "fetch" => result[mod[t]] = "SUCCESS"
Bound == \A m \in Module : \A s \in SymsOf(m) : functor[s] # NULL =>
  /\ is_initialized[m] /\ result[m] = "SUCCESS"
  /\ \A t \in Thread : Inside(t) /\ mod[t] = m => pc[t] \in {"fetch", "return"}

Serial == Alone /\ Begun /\ Untold /\ Kept /\ Fetching /\ Bound

-----------------------------------------------------------------------------
(* The steps of such an application. *)

\* A function belongs to one module.
LEMMA OneModule ==
  ASSUME NEW m \in Module, NEW n \in Module, NEW s \in SymsOf(m), s \in SymsOf(n)
  PROVE  m = n
<1>1. PICK i \in 1..Len(Syms[m]) : s = Syms[m][i]
  BY DEF SymsOf
<1>2. PICK j \in 1..Len(Syms[n]) : s = Syms[n][j]
  BY DEF SymsOf
<1>3. PICK x \in 1..Len(Libs[m]) : LibOf[s] = Libs[m][x]
  BY <1>1, WranglerAssumption DEF WranglerAssumption
<1>4. PICK y \in 1..Len(Libs[n]) : LibOf[s] = Libs[n][y]
  BY <1>2, WranglerAssumption DEF WranglerAssumption
<1>5. \A a, b \in Module : \A p \in 1..Len(Libs[a]), q \in 1..Len(Libs[b]) :
        Libs[a][p] = Libs[b][q] => a = b
  BY WranglerAssumption DEF WranglerAssumption
<1> QED
  BY <1>3, <1>4, <1>5

\* Who moves: the thread that is inside Init, or, when none is, one that calls
\* it or exits; anything else leaves what Init decides alone.
LEMMA SerialCases ==
  ASSUME Safe, Alone, [SerialNext]_vars
  PROVE  \/ \E t \in Thread : InitStep(t)
         \/ Quiet /\ phase = "running" /\ \E t \in Thread, m \in Module : CallInit(t, m)
         \/ Quiet /\ \E t \in Thread : Exit(t)
         \/ /\ UNCHANGED <<loadable, provides, is_initialized, result, functor, threadVars>>
            /\ \/ UNCHANGED <<opened, lib, closing, phase>>
               \/ Quiet
<1> USE DEF linkerVars, sharedVars, exitVars
<1>1. CASE SerialClient
  BY <1>1 DEF SerialClient
<1>2. CASE RegisterCleanup
  BY <1>2 DEF RegisterCleanup
<1>3. CASE ExitStep
  <2>1. phase # "running"
    BY <1>3 DEF ExitStep, RunCleanup, AtExitHandler, ClearHandle, EndProcess, Safe,
                NothingClosing
  <2>2. Quiet
    BY <2>1 DEF Alone, Quiet
  <2>3. UNCHANGED <<loadable, provides, is_initialized, result, functor, threadVars>>
    BY <1>3 DEF ExitStep, RunCleanup, AtExitHandler, ClearHandle, EndProcess, DlClose
  <2> QED
    BY <2>2, <2>3
<1>4. CASE UNCHANGED vars
  BY <1>4 DEF vars
<1> QED
  BY <1>1, <1>2, <1>3, <1>4 DEF SerialNext

\* A step of Init concerns the thread's own module.
LEMMA InitFrame ==
  ASSUME TypeInv, NEW t \in Thread, InitStep(t)
  PROVE  /\ Inside(t) /\ mod[t] \in Module /\ phase' = phase
         /\ \A m \in Module \ {mod[t]} :
              result'[m] = result[m] /\ is_initialized'[m] = is_initialized[m]
         /\ \A u \in Thread, m \in Module :
              answer'[u][m] = answer[u][m] \/ (u = t /\ m = mod[t] /\ Return(t))
         /\ \A u \in Thread \ {t} : pc'[u] = pc[u] /\ mod'[u] = mod[u]
         /\ mod'[t] = mod[t] \/ (Return(t) /\ pc'[t] = "idle")
<1> USE DEF Goto, SetResult, linkerVars, sharedVars, exitVars, threadVars
<1>0. /\ pc \in [Thread -> Labels] /\ mod \in [Thread -> Module \cup {NULL}]
      /\ result \in [Module -> Codes] /\ is_initialized \in [Module -> BOOLEAN]
      /\ answer \in [Thread -> [Module -> Codes \cup {NULL}]]
  BY DEF TypeInv, TypeOK
<1>1. Inside(t) /\ mod[t] \in Module
  <2>1. pc[t] \notin {"idle", "exit"}
    BY DEF InitStep, Mark, InstallAtExitHandler, TestInstalled, OpenFound, OpenMissed,
           OpenExhausted, TestRequired, OpenDone, TestOpened, Fetch, FetchDone, Return
  <2> QED
    BY <2>1 DEF Inside, TypeInv, InsideModule
<1>2. CASE Mark(t)
  BY <1>0, <1>1, <1>2 DEF Mark
<1>3. CASE InstallAtExitHandler(t)
  BY <1>0, <1>1, <1>3 DEF InstallAtExitHandler
<1>4. CASE OpenFound(t) \/ OpenMissed(t) \/ OpenExhausted(t)
  BY <1>0, <1>1, <1>4 DEF OpenFound, OpenMissed, OpenExhausted, StoreHandle
<1>5. CASE TestInstalled(t) \/ TestOpened(t) \/ Fetch(t)
  BY <1>0, <1>1, <1>5 DEF TestInstalled, TestOpened, Fetch
<1>6. CASE TestRequired(t) \/ OpenDone(t) \/ FetchDone(t)
  BY <1>0, <1>1, <1>6 DEF TestRequired, OpenDone, FetchDone
<1>7. CASE Return(t)
  BY <1>0, <1>1, <1>7 DEF Return
<1> QED
  BY <1>2, <1>3, <1>4, <1>5, <1>6, <1>7 DEF InitStep

\* What a step of Init does to its own module's flag and result.
LEMMA InitOwn ==
  ASSUME TypeInv, NEW t \in Thread, InitStep(t)
  PROVE  /\ pc[t] = "mark" => is_initialized'[mod[t]] /\ pc'[t] = "install"
         /\ pc[t] # "mark" => is_initialized' = is_initialized /\ pc'[t] # "mark"
         /\ pc[t] = "return" => Return(t) /\ pc'[t] = "idle" /\ result' = result
         /\ pc[t] = "fetch" => pc'[t] \in {"fetch", "return"}
                               /\ (result' = result \/ result'[mod[t]] = "SUCCESS")
         /\ pc'[t] = "fetch" => result'[mod[t]] = "SUCCESS" \/ pc[t] = "fetch"
         /\ Inside(t)' \/ Return(t)
         /\ pc'[t] # "return" \/ pc[t] # "return"
<1> USE DEF Goto, SetResult, Inside, linkerVars, sharedVars, exitVars, threadVars
<1>0. /\ pc \in [Thread -> Labels] /\ mod \in [Thread -> Module \cup {NULL}]
      /\ result \in [Module -> Codes] /\ is_initialized \in [Module -> BOOLEAN]
      /\ mod[t] \in Module
  BY InitFrame DEF TypeInv, TypeOK
<1>2. CASE Mark(t)
  BY <1>0, <1>2 DEF Mark
<1>3. CASE InstallAtExitHandler(t)
  BY <1>0, <1>3 DEF InstallAtExitHandler
<1>4. CASE OpenFound(t) \/ OpenMissed(t) \/ OpenExhausted(t)
  BY <1>0, <1>4 DEF OpenFound, OpenMissed, OpenExhausted, StoreHandle
<1>5. CASE TestInstalled(t) \/ TestOpened(t)
  BY <1>0, <1>5 DEF TestInstalled, TestOpened
<1>6. CASE TestRequired(t) \/ OpenDone(t)
  BY <1>0, <1>6 DEF TestRequired, OpenDone
<1>7. CASE Fetch(t) \/ FetchDone(t)
  BY <1>0, <1>7 DEF Fetch, FetchDone
<1>8. CASE Return(t)
  BY <1>0, <1>8 DEF Return
<1> QED
  BY <1>2, <1>3, <1>4, <1>5, <1>6, <1>7, <1>8 DEF InitStep

-----------------------------------------------------------------------------
(* Serial is inductive. *)

LEMMA SerialInit == Init => Serial
<1> SUFFICES ASSUME Init PROVE Serial
  OBVIOUS
<1>1. Alone /\ Begun /\ Untold /\ Fetching
  BY DEF Init, Inside, Alone, Begun, Untold, Working, Fetching
<1>2. Kept
  BY DEF Init, Kept, Told
<1>3. Bound
  <2>1. \A m \in Module : SymsOf(m) \subseteq Sym
    BY TableTypes DEF SymsOf
  <2> QED
    BY <2>1 DEF Init, Bound
<1> QED
  BY <1>1, <1>2, <1>3 DEF Serial

LEMMA AloneNext == Safe /\ Serial /\ [SerialNext]_vars => Alone'
<1> SUFFICES ASSUME Safe, Serial, [SerialNext]_vars, NEW v \in Thread, Inside(v)'
             PROVE  phase' = "running" /\ \A u \in Thread : Inside(u)' => u = v
  BY DEF Alone
<1>0. TypeInv /\ Alone /\ pc \in [Thread -> Labels]
  BY DEF Safe, Serial, TypeInv, TypeOK
<1>1. ASSUME NEW t \in Thread, InitStep(t)
      PROVE  phase' = "running" /\ \A u \in Thread : Inside(u)' => u = v
  <2>1. \A u \in Thread : Inside(u)' => u = t
    BY <1>0, <1>1, InitFrame DEF Alone, Inside
  <2> QED
    BY <1>0, <1>1, <2>1, InitFrame DEF Alone
<1>2. CASE Quiet /\ phase = "running" /\ \E t \in Thread, m \in Module : CallInit(t, m)
  BY <1>0, <1>2 DEF CallInit, Goto, Quiet, Inside, exitVars
<1>3. CASE Quiet /\ \E t \in Thread : Exit(t)
  BY <1>0, <1>3 DEF Exit, Goto, Quiet, Inside
<1>4. CASE UNCHANGED threadVars /\ (phase' = phase \/ Quiet)
  BY <1>0, <1>4 DEF threadVars, Quiet, Inside, Alone
<1> QED
  BY <1>0, <1>1, <1>2, <1>3, <1>4, SerialCases

LEMMA BegunNext == Safe /\ Serial /\ [SerialNext]_vars => Begun'
<1> SUFFICES ASSUME Safe, Serial, [SerialNext]_vars, NEW v \in Thread, Inside(v)'
             PROVE  is_initialized'[mod'[v]] <=> pc'[v] # "mark"
  BY DEF Begun
<1>0. /\ TypeInv /\ Alone /\ Begun
      /\ pc \in [Thread -> Labels] /\ mod \in [Thread -> Module \cup {NULL}]
  BY DEF Safe, Serial, TypeInv, TypeOK
<1>1. ASSUME NEW t \in Thread, InitStep(t)
      PROVE  is_initialized'[mod'[v]] <=> pc'[v] # "mark"
  <2>1. v = t
    BY <1>0, <1>1, InitFrame DEF Alone, Inside
  <2>2. mod'[t] = mod[t]
    BY <1>0, <1>1, <2>1, InitFrame DEF Inside
  <2> QED
    BY <1>0, <1>1, <2>1, <2>2, InitFrame, InitOwn DEF Begun
<1>2. CASE Quiet /\ \E t \in Thread, m \in Module : CallInit(t, m)
  BY <1>0, <1>2 DEF CallInit, Goto, Quiet, Inside, sharedVars
<1>3. CASE Quiet /\ \E t \in Thread : Exit(t)
  BY <1>0, <1>3 DEF Exit, Goto, Quiet, Inside
<1>4. CASE UNCHANGED <<is_initialized, threadVars>>
  BY <1>0, <1>4 DEF threadVars, Inside, Begun
<1> QED
  BY <1>0, <1>1, <1>2, <1>3, <1>4, SerialCases

LEMMA UntoldNext == Safe /\ Serial /\ [SerialNext]_vars => Untold'
<1> SUFFICES ASSUME Safe, Serial, [SerialNext]_vars, NEW m \in Module, NEW v \in Thread,
                    Inside(v)', mod'[v] = m, pc'[v] # "return", NEW u \in Thread
             PROVE  answer'[u][m] = NULL
  BY DEF Untold, Working, Told
<1>0. /\ TypeInv /\ Alone /\ Untold /\ Kept
      /\ pc \in [Thread -> Labels] /\ mod \in [Thread -> Module \cup {NULL}]
  BY DEF Safe, Serial, TypeInv, TypeOK
<1>1. ASSUME NEW t \in Thread, InitStep(t) PROVE answer'[u][m] = NULL
  <2>1. v = t
    BY <1>0, <1>1, InitFrame DEF Alone, Inside
  <2>2. ~Return(t) /\ mod[t] = m
    BY <1>0, <1>1, <2>1, InitFrame DEF Inside, Return, Goto
  <2>3. Inside(t) /\ pc[t] # "return"
    BY <1>0, <1>1, <2>2, InitFrame, InitOwn
  <2> QED
    BY <1>0, <1>1, <2>2, <2>3, InitFrame DEF Untold, Working, Told
<1>2. CASE Quiet /\ \E t \in Thread, n \in Module : CallInit(t, n)
  <2>1. PICK t \in Thread, n \in Module : CallInit(t, n)
    BY <1>2
  <2>2. v = t /\ n = m /\ ~is_initialized[m] /\ answer' = answer
    BY <1>0, <1>2, <2>1 DEF CallInit, Goto, Quiet, Inside
  <2> QED
    BY <1>0, <2>2 DEF Kept, Told
<1>3. CASE Quiet /\ \E t \in Thread : Exit(t)
  BY <1>0, <1>3 DEF Exit, Goto, Quiet, Inside
<1>4. CASE UNCHANGED threadVars
  BY <1>0, <1>4 DEF threadVars, Inside, Untold, Working, Told
<1> QED
  BY <1>0, <1>1, <1>2, <1>3, <1>4, SerialCases

LEMMA KeptNext == Safe /\ Serial /\ [SerialNext]_vars => Kept'
<1> SUFFICES ASSUME Safe, Serial, [SerialNext]_vars, NEW m \in Module, NEW v \in Thread,
                    answer'[v][m] # NULL
             PROVE  is_initialized'[m] /\ answer'[v][m] = result'[m]
  BY DEF Kept, Told
<1>0. TypeInv /\ Alone /\ Begun /\ Untold /\ Kept
  BY DEF Safe, Serial
<1>1. ASSUME NEW t \in Thread, InitStep(t)
      PROVE  is_initialized'[m] /\ answer'[v][m] = result'[m]
  <2>1. CASE m # mod[t]
    BY <1>0, <1>1, <2>1, InitFrame DEF Kept, Told
  <2>2. CASE m = mod[t] /\ pc[t] = "return"
    <3>1. Return(t) /\ result' = result /\ is_initialized' = is_initialized /\ is_initialized[m]
      BY <1>0, <1>1, <2>2, InitFrame, InitOwn DEF Begun
    <3>2. answer'[v][m] = answer[v][m] \/ answer'[v][m] = result[m]
      BY <1>0, <2>2, <3>1 DEF Return, TypeInv, TypeOK
    <3> QED
      BY <1>0, <3>1, <3>2 DEF Kept, Told
  <2>3. CASE m = mod[t] /\ pc[t] # "return"
    <3>1. Working(m) /\ ~Return(t)
      BY <1>1, <1>0, <2>3, InitFrame DEF Working, Return
    <3>2. answer'[v][m] = answer[v][m] /\ answer[v][m] = NULL
      BY <1>0, <1>1, <3>1, InitFrame DEF Untold, Told
    <3> QED
      BY <3>2
  <2> QED
    BY <2>1, <2>2, <2>3
<1>2. CASE \E t \in Thread, n \in Module : CallInit(t, n)
  BY <1>0, <1>2 DEF CallInit, sharedVars, Kept, Told
<1>3. CASE \E t \in Thread : Exit(t)
  BY <1>0, <1>3 DEF Exit, sharedVars, Kept, Told
<1>4. CASE UNCHANGED <<is_initialized, result, threadVars>>
  BY <1>0, <1>4 DEF threadVars, Kept, Told
<1> QED
  BY <1>0, <1>1, <1>2, <1>3, <1>4, SerialCases

LEMMA FetchingNext == Safe /\ Serial /\ [SerialNext]_vars => Fetching'
<1> SUFFICES ASSUME Safe, Serial, [SerialNext]_vars, NEW v \in Thread, pc'[v] = "fetch"
             PROVE  result'[mod'[v]] = "SUCCESS"
  BY DEF Fetching
<1>0. /\ TypeInv /\ Alone /\ Fetching
      /\ pc \in [Thread -> Labels] /\ mod \in [Thread -> Module \cup {NULL}]
  BY DEF Safe, Serial, TypeInv, TypeOK
<1>1. ASSUME NEW t \in Thread, InitStep(t) PROVE result'[mod'[v]] = "SUCCESS"
  <2>1. v = t
    BY <1>0, <1>1, InitFrame DEF Alone, Inside
  <2>2. mod'[t] = mod[t]
    BY <1>0, <1>1, <2>1, InitFrame
  <2> QED
    BY <1>0, <1>1, <2>1, <2>2, InitOwn DEF Fetching
<1>2. CASE \E t \in Thread, n \in Module : CallInit(t, n)
  BY <1>0, <1>2 DEF CallInit, Goto, sharedVars, Fetching
<1>3. CASE \E t \in Thread : Exit(t)
  BY <1>0, <1>3 DEF Exit, Goto, sharedVars, Fetching
<1>4. CASE UNCHANGED <<result, threadVars>>
  BY <1>0, <1>4 DEF threadVars, Fetching
<1> QED
  BY <1>0, <1>1, <1>2, <1>3, <1>4, SerialCases

LEMMA BoundNext == Safe /\ Serial /\ [SerialNext]_vars => Bound'
<1> SUFFICES ASSUME Safe, Serial, [SerialNext]_vars, NEW m \in Module, NEW s \in SymsOf(m),
                    functor'[s] # NULL
             PROVE  /\ is_initialized'[m] /\ result'[m] = "SUCCESS"
                    /\ \A v \in Thread : Inside(v)' /\ mod'[v] = m => pc'[v] \in {"fetch", "return"}
  BY DEF Bound
<1> DEFINE Done == /\ is_initialized'[m] /\ result'[m] = "SUCCESS"
                   /\ \A v \in Thread : Inside(v)' /\ mod'[v] = m => pc'[v] \in {"fetch", "return"}
<1>0. /\ TypeInv /\ Alone /\ Begun /\ Fetching /\ Bound
      /\ pc \in [Thread -> Labels] /\ mod \in [Thread -> Module \cup {NULL}]
      /\ functor \in [Sym -> Soname \cup {NULL, Wrapper}]
  BY DEF Safe, Serial, TypeInv, TypeOK
<1>1. ASSUME NEW t \in Thread, InitStep(t) PROVE Done
  <2>1. \A v \in Thread : Inside(v)' => v = t
    BY <1>0, <1>1, InitFrame DEF Alone, Inside
  <2>2. CASE mod[t] # m
    <3>1. functor[s] # NULL
      <4>1. CASE Fetch(t)
        <5> DEFINE q == Syms[mod[t]][cur[t]]
        <5>1. q \in SymsOf(mod[t])
          <6>1. cur[t] \in Nat \ {0} /\ cur[t] <= Len(Syms[mod[t]]) /\ mod[t] \in Module
            BY <1>0, <1>1, <4>1, InitFrame DEF Fetch, TypeInv, TypeOK
          <6>2. Len(Syms[mod[t]]) \in Nat
            BY <6>1, WranglerAssumption DEF WranglerAssumption
          <6> QED
            BY <6>1, <6>2 DEF SymsOf
        <5>2. q # s
          BY <1>0, <1>1, <2>2, <5>1, OneModule, InitFrame
        <5> QED
          BY <1>0, <4>1, <5>2 DEF Fetch
      <4>2. CASE ~Fetch(t)
        BY <1>0, <1>1, <4>2
        DEF InitStep, Mark, InstallAtExitHandler, TestInstalled, OpenFound, OpenMissed,
            OpenExhausted, TestRequired, OpenDone, TestOpened, FetchDone, Return, sharedVars
      <4> QED
        BY <4>1, <4>2
    <3>2. is_initialized'[m] /\ result'[m] = "SUCCESS"
      BY <1>0, <1>1, <2>2, <3>1, InitFrame DEF Bound
    <3>3. ~(Inside(t)' /\ mod'[t] = m)
      BY <1>0, <1>1, <2>2, InitFrame DEF Inside
    <3> QED
      BY <2>1, <3>2, <3>3
  <2>3. CASE mod[t] = m
    <3>1. pc[t] \in {"fetch", "return"}
      <4>1. CASE Fetch(t)
        BY <4>1 DEF Fetch
      <4>2. CASE ~Fetch(t)
        <5>1. functor' = functor
          BY <1>1, <4>2
          DEF InitStep, Mark, InstallAtExitHandler, TestInstalled, OpenFound, OpenMissed,
              OpenExhausted, TestRequired, OpenDone, TestOpened, FetchDone, Return, sharedVars
        <5> QED
          BY <1>0, <1>1, <2>3, <5>1, InitFrame DEF Bound
      <4> QED
        BY <4>1, <4>2
    <3>2. is_initialized'[m]
      BY <1>0, <1>1, <2>3, <3>1, InitFrame, InitOwn DEF Begun
    <3>3. CASE pc[t] = "fetch"
      <4>1. result[m] = "SUCCESS"
        BY <1>0, <2>3, <3>3 DEF Fetching
      <4> QED
        BY <1>0, <1>1, <2>1, <2>3, <3>2, <3>3, <4>1, InitOwn
    <3>4. CASE pc[t] = "return"
      <4>1. functor' = functor /\ result' = result /\ pc'[t] = "idle"
        BY <1>0, <1>1, <3>4, InitOwn DEF Return, sharedVars
      <4>2. result[m] = "SUCCESS"
        BY <1>0, <4>1 DEF Bound
      <4> QED
        BY <2>1, <3>2, <4>1, <4>2 DEF Inside
    <3> QED
      BY <3>1, <3>3, <3>4
  <2> QED
    BY <2>2, <2>3
<1>2. CASE Quiet /\ \E t \in Thread, n \in Module : CallInit(t, n)
  BY <1>0, <1>2 DEF CallInit, Goto, Quiet, Inside, sharedVars, Bound
<1>3. CASE Quiet /\ \E t \in Thread : Exit(t)
  BY <1>0, <1>3 DEF Exit, Goto, Quiet, Inside, sharedVars, Bound
<1>4. CASE UNCHANGED <<is_initialized, result, functor, threadVars>>
  BY <1>0, <1>4 DEF threadVars, Inside, Bound
<1> QED
  BY <1>0, <1>1, <1>2, <1>3, <1>4, SerialCases

\* The invariant of serial applications; it is shown together with those that
\* hold of every application.
THEOREM SerialAlways == SerialSpec => [](Safe /\ Search /\ Serial)
<1>1. Safe /\ Serial /\ [SerialNext]_vars => Serial'
  BY AloneNext, BegunNext, UntoldNext, KeptNext, FetchingNext, BoundNext DEF Serial
<1> QED
  BY <1>1, SerialIsSpec, SafeAlways, SearchAlways, SerialInit, PTL DEF SerialSpec

\* All calls of Init for a module, by whichever thread and whenever, return
\* what the first one did.
THEOREM OneAnswerAlways == SerialSpec => OneAnswer
<1>1. Safe /\ Serial /\ [SerialNext]_vars =>
        \A t, u \in Thread, m \in Module :
          Told(t, m) # NULL /\ Told(u, m)' # NULL => Told(u, m)' = Told(t, m)
  <2> SUFFICES ASSUME Safe, Serial, [SerialNext]_vars, NEW t \in Thread, NEW u \in Thread,
                      NEW m \in Module, answer[t][m] # NULL, answer'[u][m] # NULL
               PROVE  answer'[u][m] = answer[t][m]
    BY DEF Told
  <2>1. [Next]_vars /\ TypeInv
    BY DEF SerialNext, SerialClient, Next, Safe
  <2>2. answer[t][m] = result[m]
    BY DEF Serial, Kept, Told
  <2>3. answer'[u][m] = answer[u][m] \/ answer'[u][m] = result[m]
    BY <2>1, AnswerSteps
  <2>4. answer[u][m] # NULL => answer[u][m] = result[m]
    BY DEF Serial, Kept, Told
  <2> QED
    BY <2>2, <2>3, <2>4
<1> QED
  BY <1>1, SerialAlways, PTL DEF SerialSpec, OneAnswer

\* A failed Init leaves no function of its module available, now or later.
THEOREM FailureNeverBinds == SerialSpec => []FailureBindsNothing
<1>1. Serial => FailureBindsNothing
  <2> SUFFICES ASSUME Serial, NEW t \in Thread, NEW m \in Module,
                      Told(t, m) \in {"OPEN_FAILED", "ATEXIT_FAILED"}, NEW s \in SymsOf(m)
               PROVE  functor[s] = NULL
    BY DEF FailureBindsNothing, HasSymbol
  <2>1. Told(t, m) # NULL
    BY WranglerAssumption DEF WranglerAssumption, Codes
  <2>2. result[m] # "SUCCESS"
    BY <2>1 DEF Serial, Kept
  <2> QED
    BY <2>2 DEF Serial, Bound
<1> QED
  BY <1>1, SerialAlways, PTL

-----------------------------------------------------------------------------
(* XEW_SUCCESS means that the module is ready. *)

\* Slot l was searched for, and found if it is required.
Served(l) == /\ lib[l] = NULL => Missing(l)
             /\ l \in Required => lib[l] # NULL
AllServed(m) == \A l \in SlotsOf(m) : Served(l)

\* Functor s holds what dlsym says of it.
Fetched(s) == functor[s] \in DlSym(lib[LibOf[s]], s)
Ready(m) == AllServed(m) /\ \A s \in SymsOf(m) : Fetched(s)

\* The loops start at their first element ...
CurFromStart == \A t \in Thread :
  pc[t] \in {"idle", "mark", "install", "installed"} => cur[t] = 1

\* ... and have dealt with the elements before the one they are at.
OpenLoop == phase = "running" => \A t \in Thread : pc[t] \in {"open", "test"} =>
  \A j \in 1..Len(Libs[mod[t]]) : j < cur[t] => Served(Libs[mod[t]][j])
OpenedAll == phase = "running" => \A t \in Thread :
  pc[t] = "fetch" \/ (pc[t] = "opened" /\ result[mod[t]] = "SUCCESS") => AllServed(mod[t])
FetchLoop == phase = "running" => \A t \in Thread : pc[t] = "fetch" =>
  \A j \in 1..Len(Syms[mod[t]]) : j < cur[t] => Fetched(Syms[mod[t]][j])

\* A module whose attempt is over and succeeded is ready.
OverMeansReady == phase = "running" => \A m \in Module :
  is_initialized[m] /\ result[m] = "SUCCESS" /\ ~Working(m) => Ready(m)

Progress == CurFromStart /\ OpenLoop /\ OpenedAll /\ FetchLoop /\ OverMeansReady

\* What was searched for stays so.
LEMMA ServedStays ==
  ASSUME Safe, Search, [Next]_vars, phase' = "running", NEW l \in Lib, Served(l)
  PROVE  Served(l)'
<1>1. lib'[l] = NULL => lib[l] = NULL \/ Missing(l)
  BY NullSteps DEF Search
<1>2. lib[l] # NULL => lib'[l] = lib[l]
  BY StoredStays DEF Search
<1>3. Missing(l)' <=> Missing(l)
  BY SystemStays DEF Missing
<1> QED
  BY <1>1, <1>2, <1>3 DEF Served

\* A handle is mapped while the process runs.
LEMMA HandleMapped ==
  ASSUME Safe, phase = "running", NEW l \in Lib, lib[l] # NULL
  PROVE  lib[l] \in Mapped
<1>1. lib[l] \in Soname /\ opened[lib[l]] > 0
  BY DEF Safe, TypeInv, TypeOK, NothingClosing, HandlesHeld
<1> QED
  BY <1>1 DEF Mapped

\* What was fetched stays so, although libraries are opened in the meantime.
LEMMA FetchedStays ==
  ASSUME Safe, Search, [Next]_vars, phase' = "running",
         NEW s \in Sym, Served(LibOf[s]), Fetched(s)
  PROVE  Fetched(s)'
<1> DEFINE l == LibOf[s]
<1>0. /\ TypeInv /\ l \in Lib /\ phase = "running" /\ UNCHANGED <<loadable, provides>>
      /\ functor \in [Sym -> Soname \cup {NULL, Wrapper}]
  BY TableTypes, RunningSteps, SystemStays DEF Safe, TypeInv, TypeOK
<1>1. lib'[l] = lib[l]
  <2>1. CASE lib[l] # NULL
    BY <1>0, <2>1, StoredStays DEF Search
  <2>2. CASE lib[l] = NULL
    <3>1. Missing(l)
      BY <2>2 DEF Served
    <3>2. lib'[l] # NULL => \E i \in 1..Len(Paths[l]) : lib'[l] = Paths[l][i] /\ lib'[l] \in loadable
      BY <1>0, FirstHeldNext DEF Search, FirstHeld
    <3> QED
      BY <2>2, <3>1, <3>2 DEF Missing
  <2> QED
    BY <2>1, <2>2
<1>2. ASSUME NEW t \in Thread, Fetch(t), s = Syms[mod[t]][cur[t]] PROVE Fetched(s)'
  <2>1. PICK x \in DlSym(lib[l], s) : functor' = [functor EXCEPT ![s] = x]
    BY <1>2 DEF Fetch
  <2>2. functor'[s] = x /\ opened' = opened
    BY <1>0, <1>2, <2>1 DEF Fetch, linkerVars
  <2> QED
    BY <1>0, <1>1, <2>1, <2>2 DEF Fetched, DlSym, Mapped
<1>3. CASE functor'[s] = functor[s]
  <2>1. CASE lib[l] = NULL
    BY <1>1, <1>3, <2>1 DEF Fetched, DlSym
  <2>2. CASE lib[l] # NULL
    <3>1. /\ functor[s] \in {lib[l], NULL}
          /\ functor[s] = lib[l] => s \in provides[lib[l]]
          /\ functor[s] = NULL => s \notin provides[lib[l]]
      BY <1>0, <2>2, HandleMapped DEF Fetched, DlSym
    <3> QED
      BY <1>0, <1>1, <1>3, <2>2, <3>1 DEF Fetched, DlSym
  <2> QED
    BY <2>1, <2>2
<1>4. ASSUME NEW t \in Thread, Fetch(t), s # Syms[mod[t]][cur[t]] PROVE functor'[s] = functor[s]
  BY <1>0, <1>4 DEF Fetch
<1> QED
  BY <1>2, <1>3, <1>4, FunctorSteps

\* The library of a function is one of its module.
LEMMA LibOfSlot ==
  ASSUME NEW m \in Module, NEW s \in SymsOf(m)
  PROVE  LibOf[s] \in SlotsOf(m)
<1>1. PICK i \in 1..Len(Syms[m]) : s = Syms[m][i]
  BY DEF SymsOf
<1> QED
  BY <1>1, WranglerAssumption DEF WranglerAssumption, SlotsOf

LEMMA ReadyStays ==
  ASSUME Safe, Search, [Next]_vars, phase' = "running", NEW m \in Module
  PROVE  /\ AllServed(m) => AllServed(m)'
         /\ Ready(m) => Ready(m)'
<1>1. SlotsOf(m) \subseteq Lib /\ SymsOf(m) \subseteq Sym
  BY TableTypes DEF SlotsOf, SymsOf
<1>2. AllServed(m) => AllServed(m)'
  BY <1>1, ServedStays DEF AllServed
<1>4. ASSUME Ready(m), NEW s \in SymsOf(m) PROVE Fetched(s)'
  BY <1>1, <1>4, LibOfSlot, FetchedStays DEF Ready, AllServed
<1> QED
  BY <1>2, <1>4 DEF Ready

\* The pieces of a list that a loop at position n, or past the end, has done.
LEMMA ServedUpTo ==
  ASSUME TypeInv, NEW t \in Thread, mod[t] \in Module, cur[t] > Len(Libs[mod[t]]),
         \A j \in 1..Len(Libs[mod[t]]) : j < cur[t] => Served(Libs[mod[t]][j])
  PROVE  AllServed(mod[t])
<1>1. ASSUME NEW l \in SlotsOf(mod[t]) PROVE Served(l)
  <2>1. PICK j \in 1..Len(Libs[mod[t]]) : l = Libs[mod[t]][j]
    BY DEF SlotsOf
  <2>2. Len(Libs[mod[t]]) \in Nat /\ cur[t] \in Nat
    BY WranglerAssumption DEF WranglerAssumption, TypeInv, TypeOK
  <2>3. j < cur[t]
    BY <2>1, <2>2
  <2> QED
    BY <2>1, <2>3
<1> QED
  BY <1>1 DEF AllServed

LEMMA FetchedUpTo ==
  ASSUME TypeInv, NEW t \in Thread, mod[t] \in Module, cur[t] > Len(Syms[mod[t]]),
         \A j \in 1..Len(Syms[mod[t]]) : j < cur[t] => Fetched(Syms[mod[t]][j])
  PROVE  \A s \in SymsOf(mod[t]) : Fetched(s)
<1>1. ASSUME NEW s \in SymsOf(mod[t]) PROVE Fetched(s)
  <2>1. PICK j \in 1..Len(Syms[mod[t]]) : s = Syms[mod[t]][j]
    BY DEF SymsOf
  <2>2. Len(Syms[mod[t]]) \in Nat /\ cur[t] \in Nat
    BY WranglerAssumption DEF WranglerAssumption, TypeInv, TypeOK
  <2>3. j < cur[t]
    BY <2>1, <2>2
  <2> QED
    BY <2>1, <2>3
<1> QED
  BY <1>1

LEMMA CurFromStartNext == Safe /\ CurFromStart /\ [Next]_vars => CurFromStart'
<1> SUFFICES ASSUME Safe, CurFromStart, [Next]_vars, NEW u \in Thread,
                    pc'[u] \in {"idle", "mark", "install", "installed"}
             PROVE  cur'[u] = 1
  BY DEF CurFromStart
<1> USE DEF Goto
<1>0. TypeInv /\ pc \in [Thread -> Labels] /\ cur \in [Thread -> Nat \ {0}]
  BY DEF Safe, TypeInv, TypeOK
<1>1. CASE pc'[u] = pc[u] /\ cur'[u] = cur[u]
  BY <1>1 DEF CurFromStart
<1>2. CASE (\E m \in Module : CallInit(u, m)) \/ Exit(u)
  BY <1>0, <1>2 DEF CallInit, Exit, CurFromStart, threadVars
<1>3. CASE Mark(u) \/ InstallAtExitHandler(u)
  BY <1>0, <1>3 DEF Mark, InstallAtExitHandler, CurFromStart
<1>4. CASE TestInstalled(u) \/ TestOpened(u) \/ OpenDone(u) \/ FetchDone(u)
  BY <1>0, <1>4 DEF TestInstalled, TestOpened, OpenDone, FetchDone
<1>5. CASE OpenFound(u) \/ OpenMissed(u) \/ OpenExhausted(u)
  BY <1>0, <1>5 DEF OpenFound, OpenMissed, OpenExhausted, StoreHandle, NextSlot
<1>6. CASE TestRequired(u) \/ Fetch(u)
  BY <1>0, <1>6 DEF TestRequired, Fetch
<1>7. CASE Return(u)
  BY <1>0, <1>7 DEF Return
<1> QED
  BY <1>0, <1>1, <1>2, <1>3, <1>4, <1>5, <1>6, <1>7, OwnSteps DEF InitStep

\* The search loop; it holds of racing threads too.
LEMMA OpenLoopNext ==
  Safe /\ Search /\ CurFromStart /\ OpenLoop /\ [Next]_vars => OpenLoop'
<1> SUFFICES ASSUME Safe, Search, CurFromStart, OpenLoop, [Next]_vars, phase' = "running",
                    NEW u \in Thread, pc'[u] \in {"open", "test"},
                    NEW m, m = mod'[u], NEW j \in 1..Len(Libs[m]), j < cur'[u]
             PROVE  Served(Libs[m][j])'
  BY DEF OpenLoop
<1> USE DEF Goto
<1>0. /\ TypeInv /\ pc \in [Thread -> Labels] /\ mod \in [Thread -> Module \cup {NULL}]
      /\ cur \in [Thread -> Nat \ {0}] /\ lib \in [Lib -> Soname \cup {NULL}]
      /\ NULL \notin Soname /\ phase = "running" /\ TypeInv'
  BY RunningSteps, LinkerAssumption, TypeNext DEF LinkerAssumption, Safe, TypeInv, TypeOK
<1>m. m \in Module /\ Libs[m][j] \in Lib
  <2>1. m \in Module
    BY <1>0 DEF TypeInv, InsideModule, Inside
  <2> QED
    BY <2>1, TableTypes
<1>a. ASSUME pc[u] \in {"open", "test"}, m = mod[u], j < cur[u] PROVE Served(Libs[m][j])'
  <2>1. Served(Libs[m][j])
    BY <1>0, <1>a DEF OpenLoop
  <2> QED
    BY <1>m, <2>1, ServedStays
<1>1. CASE pc'[u] = pc[u] /\ mod'[u] = mod[u] /\ cur'[u] = cur[u]
  BY <1>1, <1>a
<1>2. CASE (\E n \in Module : CallInit(u, n)) \/ Exit(u) \/ Mark(u) \/ InstallAtExitHandler(u)
  BY <1>0, <1>2 DEF CallInit, Exit, Mark, InstallAtExitHandler
<1>3. CASE TestInstalled(u)
  <2>1. cur'[u] = 1
    BY <1>0, <1>3 DEF TestInstalled, CurFromStart
  <2> QED
    BY <2>1
<1>4. CASE OpenFound(u) \/ OpenExhausted(u)
  <2>1. /\ pc[u] = "open" /\ m = mod[u] /\ cur[u] <= Len(Libs[m])
        /\ cur'[u] = cur[u] \/ (cur'[u] = cur[u] + 1 /\ Slot(u) \notin Required)
    BY <1>0, <1>4 DEF OpenFound, OpenExhausted, StoreHandle, NextSlot
  <2>2. CASE j < cur[u]
    BY <1>a, <2>1, <2>2
  <2>3. CASE ~(j < cur[u])
    <3>1. j = cur[u] /\ Slot(u) \notin Required /\ Libs[m][j] = Slot(u)
      BY <1>0, <2>1, <2>3 DEF Slot
    <3>2. CASE OpenFound(u)
      <4>1. lib'[Slot(u)] \in Soname
        BY <1>0, <3>2, FoundIsFirst DEF Search
      <4> QED
        BY <1>0, <3>1, <4>1 DEF Served
    <3>3. CASE OpenExhausted(u)
      <4>1. Missing(Libs[m][j])'
        BY <1>0, <3>1, <3>3, ExhaustedIsMissing, SystemStays DEF Search, Missing
      <4> QED
        BY <3>1, <4>1 DEF Served
    <3> QED
      BY <1>4, <3>2, <3>3
  <2> QED
    BY <2>2, <2>3
<1>5. CASE OpenMissed(u)
  BY <1>0, <1>5, <1>a DEF OpenMissed
<1>6. CASE TestRequired(u)
  <2>1. /\ pc[u] = "test" /\ m = mod[u] /\ lib[Slot(u)] # NULL /\ cur'[u] = cur[u] + 1
        /\ lib' = lib
    BY <1>0, <1>6 DEF TestRequired, NextSlot
  <2>2. CASE j < cur[u]
    BY <1>a, <2>1, <2>2
  <2>3. CASE ~(j < cur[u])
    <3>1. j = cur[u] /\ Libs[m][j] = Slot(u)
      BY <1>0, <2>1, <2>3 DEF Slot
    <3> QED
      BY <2>1, <3>1 DEF Served
  <2> QED
    BY <2>2, <2>3
<1>7. CASE OpenDone(u) \/ TestOpened(u) \/ Fetch(u) \/ FetchDone(u) \/ Return(u)
  BY <1>0, <1>7 DEF OpenDone, TestOpened, Fetch, FetchDone, Return
<1> QED
  BY <1>0, <1>1, <1>2, <1>3, <1>4, <1>5, <1>6, <1>7, OwnSteps DEF InitStep

LEMMA OpenedAllNext ==
  Safe /\ Search /\ Serial /\ Progress /\ [SerialNext]_vars => OpenedAll'
<1> SUFFICES ASSUME Safe, Search, Serial, Progress, [SerialNext]_vars, phase' = "running",
                    NEW u \in Thread, NEW m, m = mod'[u],
                    pc'[u] = "fetch" \/ (pc'[u] = "opened" /\ result'[m] = "SUCCESS")
             PROVE  AllServed(m)'
  BY DEF OpenedAll
<1> USE DEF Goto
<1>0. /\ TypeInv /\ pc \in [Thread -> Labels] /\ mod \in [Thread -> Module \cup {NULL}]
      /\ result \in [Module -> Codes] /\ phase = "running" /\ TypeInv' /\ [Next]_vars
      /\ Alone /\ OpenLoop /\ OpenedAll
  BY RunningSteps, TypeNext DEF Safe, TypeInv, TypeOK, SerialNext, SerialClient, Next,
                                Serial, Progress
<1>m. m \in Module
  BY <1>0 DEF TypeInv, InsideModule, Inside
<1>1. ASSUME NEW t \in Thread, InitStep(t) PROVE AllServed(m)'
  <2>1. u = t
    BY <1>0, <1>1, InitFrame DEF Alone, Inside
  <2>2. m = mod[u]
    BY <1>0, <1>1, <2>1, InitFrame
  <2>3. CASE OpenDone(u)
    <3>1. AllServed(m)
      BY <1>0, <1>m, <2>2, <2>3, ServedUpTo DEF OpenDone, OpenLoop
    <3> QED
      BY <1>0, <1>m, <3>1, ReadyStays
  <2>4. CASE TestOpened(u) \/ Fetch(u)
    <3>1. pc[u] = "fetch" \/ (pc[u] = "opened" /\ result[m] = "SUCCESS")
      BY <1>0, <2>2, <2>4 DEF TestOpened, Fetch
    <3> QED
      BY <1>0, <1>m, <2>2, <3>1, ReadyStays DEF OpenedAll
  <2>5. CASE TestRequired(u)
    BY <1>0, <1>m, <2>2, <2>5 DEF TestRequired, SetResult
  <2>6. CASE Mark(u) \/ InstallAtExitHandler(u) \/ TestInstalled(u) \/ OpenMissed(u)
    BY <1>0, <2>6 DEF Mark, InstallAtExitHandler, TestInstalled, OpenMissed
  <2>7. CASE OpenFound(u) \/ OpenExhausted(u)
    BY <1>0, <2>7 DEF OpenFound, OpenExhausted, StoreHandle
  <2>8. CASE FetchDone(u) \/ Return(u)
    BY <1>0, <2>8 DEF FetchDone, Return
  <2> QED
    BY <1>1, <2>1, <2>3, <2>4, <2>5, <2>6, <2>7, <2>8 DEF InitStep
<1>2. CASE Quiet /\ \E t \in Thread, n \in Module : CallInit(t, n)
  BY <1>0, <1>2 DEF CallInit, Quiet, Inside
<1>3. CASE \E t \in Thread : Exit(t)
  BY <1>3 DEF Exit
<1>4. CASE UNCHANGED <<result, threadVars>>
  <2>1. AllServed(m)
    BY <1>0, <1>4 DEF threadVars, OpenedAll
  <2> QED
    BY <1>0, <1>m, <2>1, ReadyStays
<1> QED
  BY <1>0, <1>1, <1>2, <1>3, <1>4, SerialCases

LEMMA FetchLoopNext ==
  Safe /\ Search /\ Serial /\ Progress /\ [SerialNext]_vars => FetchLoop'
<1> SUFFICES ASSUME Safe, Search, Serial, Progress, [SerialNext]_vars, phase' = "running",
                    NEW u \in Thread, NEW m, m = mod'[u], pc'[u] = "fetch",
                    NEW j \in 1..Len(Syms[m]), j < cur'[u]
             PROVE  Fetched(Syms[m][j])'
  BY DEF FetchLoop
<1> USE DEF Goto
<1>0. /\ TypeInv /\ pc \in [Thread -> Labels] /\ mod \in [Thread -> Module \cup {NULL}]
      /\ cur \in [Thread -> Nat \ {0}] /\ functor \in [Sym -> Soname \cup {NULL, Wrapper}]
      /\ phase = "running" /\ TypeInv' /\ [Next]_vars /\ Alone /\ OpenedAll /\ FetchLoop
  BY RunningSteps, TypeNext DEF Safe, TypeInv, TypeOK, SerialNext, SerialClient, Next,
                                Serial, Progress
<1>m. m \in Module /\ Syms[m][j] \in Sym /\ LibOf[Syms[m][j]] \in SlotsOf(m)
  <2>1. m \in Module
    BY <1>0 DEF TypeInv, InsideModule, Inside
  <2>2. Syms[m][j] \in SymsOf(m)
    BY DEF SymsOf
  <2> QED
    BY <2>1, <2>2, TableTypes, LibOfSlot
<1>a. ASSUME pc[u] = "fetch", m = mod[u], j < cur[u] PROVE Fetched(Syms[m][j])'
  <2>1. Fetched(Syms[m][j]) /\ Served(LibOf[Syms[m][j]])
    BY <1>0, <1>m, <1>a DEF FetchLoop, OpenedAll, AllServed
  <2> QED
    BY <1>0, <1>m, <2>1, FetchedStays
<1>1. ASSUME NEW t \in Thread, InitStep(t) PROVE Fetched(Syms[m][j])'
  <2>1. u = t
    BY <1>0, <1>1, InitFrame DEF Alone, Inside
  <2>2. m = mod[u]
    BY <1>0, <1>1, <2>1, InitFrame
  <2>3. CASE Fetch(u)
    <3>1. pc[u] = "fetch" /\ cur'[u] = cur[u] + 1 /\ lib' = lib /\ UNCHANGED linkerVars
      BY <1>0, <2>3 DEF Fetch
    <3>2. CASE j < cur[u]
      BY <1>a, <2>2, <3>1, <3>2
    <3>3. CASE ~(j < cur[u])
      <4>1. j = cur[u]
        BY <1>0, <3>1, <3>3
      <4>2. functor'[Syms[m][j]] \in DlSym(lib[LibOf[Syms[m][j]]], Syms[m][j])
        BY <1>0, <1>m, <2>2, <2>3, <4>1 DEF Fetch
      <4> QED
        BY <3>1, <4>2 DEF Fetched, DlSym, Mapped, linkerVars
    <3> QED
      BY <3>2, <3>3
  <2>4. CASE TestOpened(u)
    <3>1. cur'[u] = 1
      BY <1>0, <2>4 DEF TestOpened
    <3> QED
      BY <3>1
  <2>5. CASE TestRequired(u) \/ OpenDone(u)
    BY <1>0, <2>5 DEF TestRequired, OpenDone
  <2>8. CASE FetchDone(u) \/ Return(u)
    BY <1>0, <2>8 DEF FetchDone, Return
  <2>6. CASE Mark(u) \/ InstallAtExitHandler(u) \/ TestInstalled(u) \/ OpenMissed(u)
    BY <1>0, <2>6 DEF Mark, InstallAtExitHandler, TestInstalled, OpenMissed
  <2>7. CASE OpenFound(u) \/ OpenExhausted(u)
    BY <1>0, <2>7 DEF OpenFound, OpenExhausted, StoreHandle
  <2> QED
    BY <1>1, <2>1, <2>3, <2>4, <2>5, <2>6, <2>7, <2>8 DEF InitStep
<1>2. CASE Quiet /\ \E t \in Thread, n \in Module : CallInit(t, n)
  BY <1>0, <1>2 DEF CallInit, Quiet, Inside
<1>3. CASE \E t \in Thread : Exit(t)
  BY <1>3 DEF Exit
<1>4. CASE UNCHANGED threadVars
  BY <1>0, <1>4, <1>a DEF threadVars
<1> QED
  BY <1>0, <1>1, <1>2, <1>3, <1>4, SerialCases

LEMMA OverMeansReadyNext ==
  Safe /\ Search /\ Serial /\ Progress /\ [SerialNext]_vars => OverMeansReady'
<1> SUFFICES ASSUME Safe, Search, Serial, Progress, [SerialNext]_vars, phase' = "running",
                    NEW m \in Module, is_initialized'[m], result'[m] = "SUCCESS", ~Working(m)'
             PROVE  Ready(m)'
  BY DEF OverMeansReady
<1> USE DEF Goto
<1>0. /\ TypeInv /\ pc \in [Thread -> Labels] /\ mod \in [Thread -> Module \cup {NULL}]
      /\ result \in [Module -> Codes] /\ is_initialized \in [Module -> BOOLEAN]
      /\ phase = "running" /\ [Next]_vars
      /\ Alone /\ OpenedAll /\ FetchLoop /\ OverMeansReady
  BY RunningSteps DEF Safe, TypeInv, TypeOK, SerialNext, SerialClient, Next, Serial, Progress
<1>r. ASSUME Ready(m) PROVE Ready(m)'
  BY <1>0, <1>r, ReadyStays
<1>1. ASSUME NEW t \in Thread, InitStep(t) PROVE Ready(m)
  <2>1. \A u \in Thread : Inside(u) => u = t
    BY <1>0, <1>1, InitFrame DEF Alone
  <2>2. CASE mod[t] # m \/ Return(t)
    <3>1. ~Working(m)
      BY <2>1, <2>2 DEF Working, Return
    <3>2. is_initialized[m] /\ result[m] = "SUCCESS"
      <4>1. CASE mod[t] # m
        BY <1>0, <1>1, <4>1, InitFrame
      <4>2. CASE Return(t)
        BY <4>2 DEF Return, sharedVars
      <4> QED
        BY <2>2, <4>1, <4>2
    <3> QED
      BY <1>0, <3>1, <3>2 DEF OverMeansReady
  <2>3. CASE mod[t] = m /\ ~Return(t)
    <3>1. mod'[t] = m /\ Inside(t)'
      BY <1>0, <1>1, <2>3, InitFrame, InitOwn
    <3>2. pc'[t] = "return"
      BY <3>1 DEF Working
    <3>3. FetchDone(t)
      <4>1. ~TestInstalled(t) /\ ~TestOpened(t)
        BY <1>0, <2>3, <3>2 DEF TestInstalled, TestOpened, sharedVars
      <4>2. ~Mark(t) /\ ~InstallAtExitHandler(t) /\ ~OpenMissed(t) /\ ~Fetch(t)
        BY <1>0, <3>2 DEF Mark, InstallAtExitHandler, OpenMissed, Fetch
      <4>3. ~OpenFound(t) /\ ~OpenExhausted(t)
        BY <1>0, <3>2 DEF OpenFound, OpenExhausted, StoreHandle
      <4>4. ~TestRequired(t) /\ ~OpenDone(t)
        BY <1>0, <3>2 DEF TestRequired, OpenDone
      <4> QED
        BY <1>1, <2>3, <4>1, <4>2, <4>3, <4>4 DEF InitStep
    <3>4. /\ AllServed(m) /\ cur[t] > Len(Syms[mod[t]])
          /\ \A j \in 1..Len(Syms[mod[t]]) : j < cur[t] => Fetched(Syms[mod[t]][j])
      BY <1>0, <2>3, <3>3 DEF FetchDone, OpenedAll, FetchLoop
    <3> QED
      BY <1>0, <2>3, <3>4, FetchedUpTo DEF Ready
  <2> QED
    BY <2>2, <2>3
<1>2. ASSUME Quiet, is_initialized' = is_initialized, result' = result PROVE Ready(m)
  BY <1>0, <1>2 DEF Quiet, Working, OverMeansReady
<1>3. CASE Quiet /\ \E t \in Thread, n \in Module : CallInit(t, n)
  BY <1>2, <1>3, <1>r DEF CallInit, sharedVars
<1>4. CASE \E t \in Thread : Exit(t)
  BY <1>4 DEF Exit
<1>5. CASE UNCHANGED <<is_initialized, result, threadVars>>
  <2>1. ~Working(m)
    BY <1>5 DEF Working, Inside, threadVars
  <2> QED
    BY <1>0, <1>5, <1>r, <2>1 DEF OverMeansReady
<1> QED
  BY <1>0, <1>r, <1>1, <1>3, <1>4, <1>5, SerialCases

LEMMA ProgressInit == Init => Progress
BY DEF Init, Progress, CurFromStart, OpenLoop, OpenedAll, FetchLoop, OverMeansReady

THEOREM ProgressAlways == SerialSpec => []Progress
<1>1. Safe /\ Search /\ Serial /\ Progress /\ [SerialNext]_vars => Progress'
  <2> SUFFICES ASSUME Safe, Search, Serial, Progress, [SerialNext]_vars PROVE Progress'
    OBVIOUS
  <2>1. [Next]_vars
    BY DEF SerialNext, SerialClient, Next
  <2>2. CurFromStart' /\ OpenLoop'
    BY <2>1, CurFromStartNext, OpenLoopNext DEF Progress
  <2> QED
    BY <2>2, OpenedAllNext, FetchLoopNext, OverMeansReadyNext DEF Progress
<1> QED
  BY <1>1, SerialAlways, ProgressInit, PTL DEF SerialSpec

\* A slot that was searched for holds the first name that opens.
LEMMA ServedFirst ==
  ASSUME FirstHeld, NEW l \in Lib, Served(l)
  PROVE  lib[l] = FirstLoadable(l)
<1> DEFINE I == {i \in 1..Len(Paths[l]) : Paths[l][i] \in loadable}
<1>0. Len(Paths[l]) \in Nat
  BY WranglerAssumption DEF WranglerAssumption
<1>1. CASE lib[l] = NULL
  <2>1. I = {}
    BY <1>1 DEF Served, Missing
  <2> QED
    BY <1>1, <2>1 DEF FirstLoadable
<1>2. CASE lib[l] # NULL
  <2>1. PICK i \in 1..Len(Paths[l]) :
          lib[l] = Paths[l][i] /\ lib[l] \in loadable /\ Earlier(l, i)
    BY <1>2 DEF FirstHeld
  <2>2. i \in I /\ \A j \in I : i <= j
    BY <1>0, <2>1 DEF Earlier
  <2>3. \A k \in I : (\A j \in I : k <= j) => k = i
    BY <1>0, <2>2
  <2>4. Min(I) = i
    BY <2>2, <2>3 DEF Min
  <2> QED
    BY <2>1, <2>2, <2>4 DEF FirstLoadable
<1> QED
  BY <1>1, <1>2

\* XEW_SUCCESS is only ever returned when every slot holds the first of its
\* names that opens, no required one is empty, and every functor has what
\* dlsym says of it.
THEOREM SuccessAlwaysReady == SerialSpec => []SuccessMeansReady
<1>1. Search /\ Serial /\ Progress => SuccessMeansReady
  <2> SUFFICES ASSUME Search, Serial, Progress, phase = "running",
                      NEW t \in Thread, NEW m \in Module, Told(t, m) = "SUCCESS"
               PROVE  /\ \A l \in SlotsOf(m) : lib[l] = FirstLoadable(l)
                      /\ \A l \in SlotsOf(m) \cap Required : lib[l] # NULL
                      /\ \A s \in SymsOf(m) : functor[s] \in DlSym(lib[LibOf[s]], s)
    BY DEF SuccessMeansReady
  <2>1. Told(t, m) # NULL
    BY WranglerAssumption DEF WranglerAssumption, Codes
  <2>2. is_initialized[m] /\ result[m] = "SUCCESS" /\ ~Working(m)
    BY <2>1 DEF Serial, Kept, Untold
  <2>3. Ready(m)
    BY <2>2 DEF Progress, OverMeansReady
  <2>4. SlotsOf(m) \subseteq Lib
    BY TableTypes DEF SlotsOf
  <2> QED
    BY <2>3, <2>4, ServedFirst DEF Ready, AllServed, Fetched, Served, Search
<1> QED
  BY <1>1, SerialAlways, ProgressAlways, PTL

\* With lists that agree and wrappers that are not exported, success means that
\* a call of any function of the module ends in the library whose header
\* declares it, if that opens and has it, and that HAS_SYMBOL is false if not.
THEOREM ServedFromHomeAlways ==
  ASSUME Exported = {}, ListsAgree
  PROVE  SerialSpec => []ServedFromHome
<1>1. Safe /\ SuccessMeansReady => ServedFromHome
  <2> SUFFICES ASSUME Safe, SuccessMeansReady, phase = "running",
                      NEW t \in Thread, NEW m \in Module, Told(t, m) = "SUCCESS",
                      NEW l \in SlotsOf(m), NEW s \in Declares[l] \cap Callable
               PROVE  /\ s \in SymsOf(m)
                      /\ functor[s] = IF FirstLoadable(l) # NULL /\ s \in provides[FirstLoadable(l)]
                                        THEN FirstLoadable(l) ELSE NULL
    BY DEF ServedFromHome
  <2>1. s \in SymsOf(m) /\ LibOf[s] = l
    BY DEF ListsAgree
  <2>2. lib[l] = FirstLoadable(l) /\ functor[s] \in DlSym(lib[l], s)
    BY <2>1 DEF SuccessMeansReady
  <2>3. lib[l] # NULL => lib[l] \in Mapped
    BY HandleMapped, TableTypes DEF SlotsOf
  <2>4. functor[s] = IF lib[l] # NULL /\ s \in provides[lib[l]] THEN lib[l] ELSE NULL
    BY <2>2, <2>3 DEF DlSym
  <2> QED
    BY <2>1, <2>2, <2>4
<1>2. SerialSpec => []Safe
  BY SafeAlways, SerialIsSpec, PTL
<1> QED
  BY <1>1, <1>2, SuccessAlwaysReady, PTL

-----------------------------------------------------------------------------
(* With calls that do not overlap the wrangling logic implements InitOnce: *)
(* the steps of an attempt stutter until the one that ends it, which is    *)
(* Settle, and a return is Tell.                                           *)

\* A thread has no module outside Init.
Outside == \A t \in Thread : ~Inside(t) => mod[t] = NULL

\* What InitOnce sees of module m.
Outcome(m) == IF Settled(m) THEN result[m] ELSE NULL
Usable(m) == IF Settled(m) THEN {s \in SymsOf(m) : HasSymbol(s)} ELSE {}

LEMMA OutsideNext == TypeInv /\ Outside /\ [Next]_vars => Outside'
<1> SUFFICES ASSUME TypeInv, Outside, [Next]_vars, NEW u \in Thread, ~Inside(u)'
             PROVE  mod'[u] = NULL
  BY DEF Outside
<1> USE DEF Goto, Inside
<1>0. /\ pc \in [Thread -> Labels] /\ mod \in [Thread -> Module \cup {NULL}]
  BY DEF TypeInv, TypeOK
<1>1. CASE pc'[u] = pc[u] /\ mod'[u] = mod[u]
  BY <1>1 DEF Outside
<1>2. CASE \E m \in Module : CallInit(u, m)
  BY <1>0, <1>2 DEF CallInit
<1>3. CASE Exit(u)
  BY <1>0, <1>3 DEF Exit, Outside
<1>4. CASE InitStep(u)
  <2>1. Return(u)
    BY <1>4, InitOwn
  <2> QED
    BY <1>0, <2>1 DEF Return
<1> QED
  BY <1>1, <1>2, <1>3, <1>4, OwnSteps

THEOREM OutsideAlways == Spec => []Outside
<1>1. Init => Outside
  BY DEF Init, Outside
<1> QED
  BY <1>1, OutsideNext, SafeAlways, PTL DEF Spec, Safe

-----------------------------------------------------------------------------
(* The steps of InitOnce in terms of the wrangling logic. *)

LEMMA Stutters ==
  ASSUME \A m \in Module : Outcome(m)' = Outcome(m) /\ Usable(m)' = Usable(m), answer' = answer
  PROVE  UNCHANGED Once!vars
BY DEF Once!vars, Outcome, Usable

LEMMA Settles ==
  ASSUME NEW m \in Module, Outcome(m) = NULL, Outcome(m)' \in Codes,
         Outcome(m)' # "SUCCESS" => Usable(m)' = {},
         \A n \in Module \ {m} : Outcome(n)' = Outcome(n) /\ Usable(n)' = Usable(n),
         answer' = answer
  PROVE  Once!Settle(m)
<1> DEFINE outcome == [n \in Module |-> IF Settled(n) THEN result[n] ELSE NULL]
           usable == [n \in Module |->
                        IF Settled(n) THEN {s \in SymsOf(n) : HasSymbol(s)} ELSE {}]
           Offers == [n \in Module |-> SymsOf(n)]
           c == Outcome(m)'
           S == Usable(m)'
<1>1. outcome[m] = NULL
  BY DEF Outcome
<1>2. outcome' = [outcome EXCEPT ![m] = c]
  BY DEF Outcome
<1>3. usable' = [usable EXCEPT ![m] = S]
  BY DEF Usable
<1>4. c \in Codes /\ S \in SUBSET Offers[m]
  BY DEF Usable
<1> QED
  BY <1>1, <1>2, <1>3, <1>4 DEF Once!Settle

LEMMA Tells ==
  ASSUME NEW t \in Thread, NEW m \in Module, Outcome(m) # NULL,
         answer' = [answer EXCEPT ![t][m] = Outcome(m)],
         \A n \in Module : Outcome(n)' = Outcome(n) /\ Usable(n)' = Usable(n)
  PROVE  Once!Tell(t, m)
<1> DEFINE outcome == [n \in Module |-> IF Settled(n) THEN result[n] ELSE NULL]
           usable == [n \in Module |->
                        IF Settled(n) THEN {s \in SymsOf(n) : HasSymbol(s)} ELSE {}]
<1>1. outcome[m] = Outcome(m)
  BY DEF Outcome
<1>2. outcome' = outcome /\ usable' = usable
  BY DEF Outcome, Usable
<1> QED
  BY <1>1, <1>2 DEF Once!Tell

-----------------------------------------------------------------------------
(* The steps of an attempt. *)

\* Other modules' functors are left alone ...
LEMMA OtherFunctors ==
  ASSUME TypeInv, NEW t \in Thread, InitStep(t), NEW n \in Module, n # mod[t], NEW s \in SymsOf(n)
  PROVE  functor'[s] = functor[s]
<1>1. CASE Fetch(t)
  <2> DEFINE q == Syms[mod[t]][cur[t]]
  <2>1. mod[t] \in Module /\ cur[t] \in Nat \ {0} /\ cur[t] <= Len(Syms[mod[t]])
    BY <1>1, InitFrame DEF Fetch, TypeInv, TypeOK
  <2>2. Len(Syms[mod[t]]) \in Nat
    BY <2>1, WranglerAssumption DEF WranglerAssumption
  <2>3. q \in SymsOf(mod[t])
    BY <2>1, <2>2 DEF SymsOf
  <2>4. q # s
    BY <2>1, <2>3, OneModule
  <2>5. functor \in [Sym -> Soname \cup {NULL, Wrapper}] /\ s \in Sym
    BY TableTypes DEF SymsOf, TypeInv, TypeOK
  <2> QED
    BY <1>1, <2>4, <2>5 DEF Fetch
<1>2. CASE ~Fetch(t)
  BY <1>2 DEF InitStep, Mark, InstallAtExitHandler, TestInstalled, OpenFound, OpenMissed,
              OpenExhausted, TestRequired, OpenDone, TestOpened, FetchDone, Return, sharedVars
<1> QED
  BY <1>1, <1>2

\* ... and so is what InitOnce sees of them.
LEMMA OthersStay ==
  ASSUME TypeInv, NEW t \in Thread, InitStep(t), NEW n \in Module, n # mod[t]
  PROVE  Outcome(n)' = Outcome(n) /\ Usable(n)' = Usable(n)
<1>1. result'[n] = result[n] /\ is_initialized'[n] = is_initialized[n]
  BY InitFrame
<1>2. \A u \in Thread : (mod'[u] = n => pc'[u] = "return") <=> (mod[u] = n => pc[u] = "return")
  <2>1. mod'[t] # n
    <3>1. CASE Return(t)
      BY <3>1, WranglerAssumption DEF WranglerAssumption, Return, TypeInv, TypeOK
    <3>2. CASE ~Return(t)
      BY <3>2, InitFrame
    <3> QED
      BY <3>1, <3>2
  <2> QED
    BY <2>1, InitFrame
<1>3. Settled(n)' <=> Settled(n)
  BY <1>1, <1>2 DEF Settled
<1>4. \A s \in SymsOf(n) : HasSymbol(s)' <=> HasSymbol(s)
  BY OtherFunctors DEF HasSymbol
<1> QED
  BY <1>1, <1>3, <1>4 DEF Outcome, Usable

\* A module that a thread is at work on has settled when the thread returns.
LEMMA OwnSettled ==
  ASSUME Serial, Outside, NEW t \in Thread, Inside(t), mod[t] \in Module
  PROVE  Settled(mod[t]) <=> pc[t] = "return"
<1>1. \A u \in Thread : mod[u] = mod[t] => u = t
  <2>1. NULL # mod[t]
    BY WranglerAssumption DEF WranglerAssumption
  <2> QED
    BY <2>1 DEF Serial, Alone, Outside
<1>2. pc[t] = "return" => is_initialized[mod[t]]
  BY DEF Serial, Begun
<1> QED
  BY <1>1, <1>2 DEF Settled

LEMMA InitStepRefines ==
  ASSUME Safe, Serial, Outside, Serial', Outside', TypeInv', NEW t \in Thread, InitStep(t),
         NEW m, m = mod[t]
  PROVE  [Once!Next]_Once!vars
<1>0. TypeInv /\ Inside(t) /\ m \in Module /\ NULL \notin Codes
  BY InitFrame, WranglerAssumption DEF WranglerAssumption, Safe
<1>1. Settled(m) <=> pc[t] = "return"
  BY <1>0, OwnSettled
<1>2. \A n \in Module \ {m} : Outcome(n)' = Outcome(n) /\ Usable(n)' = Usable(n)
  BY <1>0, OthersStay
<1>3. CASE Return(t)
  <2>1. /\ UNCHANGED <<is_initialized, result, functor>> /\ pc[t] = "return"
        /\ answer' = [answer EXCEPT ![t][m] = result[m]]
    BY <1>3 DEF Return, sharedVars
  <2>2. Settled(m)'
    <3>1. \A u \in Thread : mod'[u] # m
      <4>1. mod'[t] = NULL
        BY <1>0, <1>3 DEF Return, TypeInv, TypeOK
      <4>2. \A u \in Thread \ {t} : mod'[u] = mod[u] /\ mod[u] = NULL
        BY <1>0, InitFrame DEF Serial, Alone, Outside
      <4>3. NULL # m
        BY <1>0, WranglerAssumption DEF WranglerAssumption
      <4> QED
        BY <4>1, <4>2, <4>3
    <3> QED
      BY <1>1, <2>1, <3>1 DEF Settled
  <2>3. Outcome(m)' = Outcome(m) /\ Usable(m)' = Usable(m) /\ Outcome(m) = result[m]
    BY <1>1, <2>1, <2>2 DEF Outcome, Usable, HasSymbol
  <2>4. Outcome(m) # NULL
    BY <1>0, <2>3 DEF TypeInv, TypeOK
  <2>5. Once!Tell(t, m)
    BY <1>0, <1>2, <2>1, <2>3, <2>4, Tells
  <2> QED
    BY <1>0, <2>5 DEF Once!Next
<1>4. CASE ~Return(t)
  <2>1. mod'[t] = m /\ Inside(t)' /\ answer' = answer
    <3>1. mod'[t] = m /\ Inside(t)'
      BY <1>0, <1>4, InitFrame, InitOwn
    <3>2. answer' = answer
      BY <1>4 DEF InitStep, Mark, InstallAtExitHandler, TestInstalled, OpenFound, OpenMissed,
                  OpenExhausted, TestRequired, OpenDone, TestOpened, Fetch, FetchDone
    <3> QED
      BY <3>1, <3>2
  <2>2. pc[t] # "return" /\ ~Settled(m)
    BY <1>0, <1>1, <1>4, InitOwn
  <2>3. ASSUME NEW n, n = mod'[t] PROVE Settled(n)' <=> pc'[t] = "return"
    <3>1. \A u \in Thread : mod'[u] = n => u = t
      BY <1>0, <2>1, <2>3, WranglerAssumption DEF WranglerAssumption, Serial, Alone, Outside
    <3>2. pc'[t] = "return" => is_initialized'[n]
      BY <2>1, <2>3 DEF Serial, Begun
    <3> QED
      BY <2>3, <3>1, <3>2 DEF Settled
  <2>4. CASE pc'[t] # "return"
    <3>1. Outcome(m)' = Outcome(m) /\ Usable(m)' = Usable(m)
      BY <2>1, <2>2, <2>3, <2>4 DEF Outcome, Usable
    <3> QED
      BY <1>2, <2>1, <3>1, Stutters
  <2>5. CASE pc'[t] = "return"
    <3>1. Outcome(m) = NULL /\ Outcome(m)' = result'[m] /\ result'[m] \in Codes
      BY <1>0, <2>1, <2>2, <2>3, <2>5 DEF Outcome, TypeInv, TypeOK
    <3>2. result'[m] # "SUCCESS" => Usable(m)' = {}
      BY <1>0 DEF Usable, HasSymbol, Serial, Bound
    <3>3. Once!Settle(m)
      BY <1>0, <1>2, <2>1, <3>1, <3>2, Settles
    <3> QED
      BY <1>0, <3>3 DEF Once!Next
  <2> QED
    BY <2>4, <2>5
<1> QED
  BY <1>3, <1>4

-----------------------------------------------------------------------------
(* All steps. *)

LEMMA StepRefines ==
  ASSUME Safe, Serial, Outside, Serial', Outside', TypeInv', [SerialNext]_vars
  PROVE  [Once!Next]_Once!vars
<1>0. TypeInv /\ pc \in [Thread -> Labels] /\ mod \in [Thread -> Module \cup {NULL}]
      /\ NULL \notin Module
  BY WranglerAssumption DEF WranglerAssumption, Safe, TypeInv, TypeOK
<1>1. ASSUME NEW t \in Thread, InitStep(t) PROVE [Once!Next]_Once!vars
  BY <1>1, InitStepRefines
<1>2. ASSUME UNCHANGED <<result, functor, answer>>, \A m \in Module : Settled(m)' <=> Settled(m)
      PROVE  [Once!Next]_Once!vars
  <2>1. \A m \in Module : Outcome(m)' = Outcome(m) /\ Usable(m)' = Usable(m)
    BY <1>2 DEF Outcome, Usable, HasSymbol
  <2> QED
    BY <1>2, <2>1, Stutters
<1>3. ASSUME Quiet, NEW t \in Thread, NEW n \in Module, CallInit(t, n)
      PROVE  [Once!Next]_Once!vars
  <2>1. \A u \in Thread : mod[u] = NULL
    BY <1>3 DEF Quiet, Outside
  <2>2. /\ UNCHANGED <<is_initialized, result, functor, answer>>
        /\ \A u \in Thread : mod'[u] = IF u = t THEN n ELSE NULL
        /\ pc'[t] = "return" \/ ~is_initialized[n]
    BY <1>0, <1>3, <2>1 DEF CallInit, Goto, sharedVars
  <2>3. \A m \in Module : Settled(m)' <=> Settled(m)
    BY <1>0, <2>1, <2>2 DEF Settled
  <2> QED
    BY <1>2, <2>2, <2>3
<1>4. ASSUME NEW t \in Thread, Exit(t) PROVE [Once!Next]_Once!vars
  <2>1. /\ UNCHANGED <<is_initialized, result, functor, answer, mod>>
        /\ mod[t] = NULL /\ \A u \in Thread \ {t} : pc'[u] = pc[u]
    BY <1>0, <1>4 DEF Exit, Goto, sharedVars, Outside, Inside
  <2>2. \A m \in Module : Settled(m)' <=> Settled(m)
    BY <1>0, <2>1 DEF Settled
  <2> QED
    BY <1>2, <2>1, <2>2
<1>5. CASE UNCHANGED <<is_initialized, result, functor, threadVars>>
  BY <1>2, <1>5 DEF Settled, threadVars
<1> QED
  BY <1>1, <1>3, <1>4, <1>5, SerialCases DEF Serial

\* With calls that do not overlap, xew<Module>Init is InitOnce: one attempt
\* for each module, one code for all its calls, functions only with success.
THEOREM ImplementsInitOnceAlways == SerialSpec => ImplementsInitOnce
<1>1. Init => Once!Init
  <2> SUFFICES ASSUME Init PROVE Once!Init
    OBVIOUS
  <2>1. \A m \in Module : ~Settled(m)
    BY DEF Init, Settled
  <2> QED
    BY <2>1 DEF Init, Once!Init
<1>2. Safe /\ Serial /\ Outside /\ Safe' /\ Serial' /\ Outside' /\ [SerialNext]_vars
        => [Once!Next]_Once!vars
  BY StepRefines DEF Safe
<1> QED
  BY <1>1, <1>2, SerialIsSpec, SerialAlways, OutsideAlways, PTL
  DEF SerialSpec, ImplementsInitOnce, Once!Spec
=============================================================================
