----------------------------- MODULE ExitProofs -----------------------------
(***************************************************************************)
(* What exit does to applications whose calls of Init do not overlap: the  *)
(* libraries that the exit handlers look at are let go to the last         *)
(* reference, and an application's own cleanup, registered after the       *)
(* modules' Inits, still runs against libraries that are mapped.           *)
(***************************************************************************)
EXTENDS SerialProofs

\* A slot is empty until the attempt of its module gets to it.
EmptyBefore == \A m \in Module : ~is_initialized[m] => \A l \in SlotsOf(m) : lib[l] = NULL
EmptyAhead == \A t \in Thread : pc[t] \in {"install", "installed", "open", "test"} =>
  \A j \in 1..Len(Libs[mod[t]]) :
    j > cur[t] \/ (j = cur[t] /\ pc[t] # "test") => lib[Libs[mod[t]][j]] = NULL

\* Slot l holds a reference to f that it has not given back.
Holds(l, f) == lib[l] = f /\ ~(closing # NULL /\ l = ClosedSlot(closing))

\* Every file has been opened once by the slot that holds it, or not at all.
Counted == \A l \in Lib : \A i \in 1..Len(Paths[l]) :
  opened[Paths[l][i]] = IF Holds(l, Paths[l][i]) THEN 1 ELSE 0

\* A library that exit is to close has its module's handler still to run.
StillRegistered == \A m \in Module :
  lib[ClosedSlot(m)] # NULL /\ closing # m => Registered(m)

EndedLast == phase = "ended" => handlers = <<>> /\ closing = NULL

Release == EmptyBefore /\ EmptyAhead /\ Counted /\ StillRegistered /\ EndedLast

-----------------------------------------------------------------------------
(* Slots and files belong together. *)

LEMMA SlotsDiffer ==
  /\ \A m, n \in Module : ClosedSlot(m) = ClosedSlot(n) => m = n
  /\ \A m, n \in Module : \A l \in SlotsOf(m) : l \in SlotsOf(n) => m = n
  /\ \A k, l \in Lib : \A i \in 1..Len(Paths[k]), j \in 1..Len(Paths[l]) :
       Paths[k][i] = Paths[l][j] => k = l
<1>1. \A m, n \in Module : \A i \in 1..Len(Libs[m]), j \in 1..Len(Libs[n]) :
        Libs[m][i] = Libs[n][j] => m = n
  BY WranglerAssumption DEF WranglerAssumption
<1>2. \A m \in Module : 1 \in 1..Len(Libs[m])
  BY WranglerAssumption DEF WranglerAssumption
<1>3. \A m, n \in Module : ClosedSlot(m) = ClosedSlot(n) => m = n
  BY <1>1, <1>2 DEF ClosedSlot
<1>4. \A m, n \in Module : \A l \in SlotsOf(m) : l \in SlotsOf(n) => m = n
  BY <1>1 DEF SlotsOf
<1> QED
  BY <1>3, <1>4, WranglerAssumption DEF WranglerAssumption

\* The slot that a thread is about to fill is empty.
LEMMA SlotEmpty ==
  ASSUME TypeInv, EmptyAhead, NEW t \in Thread, pc[t] = "open", cur[t] <= Len(Libs[mod[t]])
  PROVE  lib[Slot(t)] = NULL
<1>1. mod[t] \in Module /\ cur[t] \in Nat \ {0}
  BY DEF TypeInv, TypeOK, InsideModule, Inside
<1>2. Len(Libs[mod[t]]) \in Nat
  BY <1>1, WranglerAssumption DEF WranglerAssumption
<1>3. cur[t] \in 1..Len(Libs[mod[t]])
  BY <1>1, <1>2
<1> QED
  BY <1>3 DEF EmptyAhead, Slot

\* How handles change: one search fills one empty slot, or exit clears one.
LEMMA LibSteps ==
  ASSUME Safe, Search, Release, [Next]_vars
  PROVE  \/ \E t \in Thread : OpenFound(t)
         \/ AtExitHandler \/ ClearHandle
         \/ UNCHANGED <<opened, lib, closing>>
<1>1. ASSUME NEW t \in Thread, OpenExhausted(t) PROVE UNCHANGED <<opened, lib, closing>>
  <2>1. lib[Slot(t)] = NULL /\ lib' = [lib EXCEPT ![Slot(t)] = NULL]
    BY <1>1, SlotEmpty, ExhaustedIsMissing DEF Safe, Search, Release, OpenExhausted
  <2>2. lib' = lib
    BY <2>1 DEF Safe, TypeInv, TypeOK
  <2> QED
    BY <1>1, <2>2 DEF OpenExhausted, linkerVars, exitVars
<1> QED
  BY <1>1, HandleSteps

-----------------------------------------------------------------------------
(* Release is inductive. *)

LEMMA EmptyBeforeNext ==
  Safe /\ Search /\ Serial /\ Release /\ [SerialNext]_vars => EmptyBefore'
<1> SUFFICES ASSUME Safe, Search, Serial, Release, [SerialNext]_vars, NEW m \in Module,
                    ~is_initialized'[m], NEW l \in SlotsOf(m)
             PROVE  lib'[l] = NULL
  BY DEF EmptyBefore
<1>0. /\ TypeInv /\ Begun /\ EmptyBefore /\ [Next]_vars /\ SearchMissed
      /\ l \in Lib /\ is_initialized \in [Module -> BOOLEAN]
      /\ lib \in [Lib -> Soname \cup {NULL}]
  BY TableTypes DEF Safe, Serial, Search, Release, TypeInv, TypeOK, SerialNext, SerialClient,
                    Next, SlotsOf
<1>1. ~is_initialized[m]
  <2>1. CASE \E t \in Thread : InitStep(t)
    BY <1>0, <2>1, InitFrame, InitOwn
  <2>2. CASE (\E t \in Thread, n \in Module : CallInit(t, n)) \/ \E t \in Thread : Exit(t)
    BY <2>2 DEF CallInit, Exit, sharedVars
  <2> QED
    BY <2>1, <2>2, SerialCases DEF Serial
<1>2. lib[l] = NULL
  BY <1>0, <1>1 DEF EmptyBefore
<1>3. ASSUME NEW t \in Thread, OpenFound(t) PROVE lib'[l] = NULL
  <2>1. /\ pc[t] = "open" /\ cur[t] <= Len(Libs[mod[t]])
        /\ lib' = [lib EXCEPT ![Slot(t)] = Candidate(t)]
    BY <1>3 DEF OpenFound, StoreHandle
  <2>2. mod[t] \in Module /\ Slot(t) \in SlotsOf(mod[t]) /\ is_initialized[mod[t]]
    BY <1>0, <2>1, SearchTypes DEF Begun, Inside
  <2>3. l # Slot(t)
    BY <1>1, <2>2, SlotsDiffer
  <2> QED
    BY <1>0, <1>2, <2>1, <2>3
<1>4. CASE ClearHandle
  BY <1>0, <1>2, <1>4 DEF ClearHandle
<1>5. CASE AtExitHandler
  BY <1>2, <1>5 DEF AtExitHandler, sharedVars
<1> QED
  BY <1>0, <1>2, <1>3, <1>4, <1>5, LibSteps

LEMMA EmptyAheadNext ==
  Safe /\ Search /\ Serial /\ Progress /\ Release /\ [SerialNext]_vars => EmptyAhead'
<1> SUFFICES ASSUME Safe, Search, Serial, Progress, Release, [SerialNext]_vars,
                    NEW u \in Thread, NEW m, m = mod'[u],
                    pc'[u] \in {"install", "installed", "open", "test"},
                    NEW j \in 1..Len(Libs[m]),
                    j > cur'[u] \/ (j = cur'[u] /\ pc'[u] # "test")
             PROVE  lib'[Libs[m][j]] = NULL
  BY DEF EmptyAhead
<1> USE DEF Goto
<1>0. /\ TypeInv /\ TypeInv' /\ Alone /\ Begun /\ CurFromStart /\ EmptyBefore /\ EmptyAhead
      /\ [Next]_vars /\ pc \in [Thread -> Labels] /\ mod \in [Thread -> Module \cup {NULL}]
      /\ cur \in [Thread -> Nat \ {0}] /\ lib \in [Lib -> Soname \cup {NULL}]
  BY TypeNext DEF Safe, Serial, Progress, Release, TypeInv, TypeOK, SerialNext, SerialClient, Next
<1>m. m \in Module /\ Libs[m][j] \in Lib /\ Libs[m][j] \in SlotsOf(m)
  <2>1. m \in Module
    BY <1>0 DEF TypeInv, InsideModule, Inside
  <2> QED
    BY <2>1, TableTypes DEF SlotsOf
<1>1. ASSUME NEW t \in Thread, InitStep(t) PROVE lib'[Libs[m][j]] = NULL
  <2>1. u = t
    BY <1>0, <1>1, InitFrame DEF Alone, Inside
  <2>2. m = mod[u]
    BY <1>0, <1>1, <2>1, InitFrame
  <2>3. CASE Mark(u)
    <3>1. ~is_initialized[m] /\ lib' = lib
      <4>1. pc[u] = "mark" /\ Inside(u) /\ lib' = lib
        BY <2>3 DEF Mark, Inside
      <4>2. ~is_initialized[mod[u]]
        BY <1>0, <4>1, Zenon DEF Begun
      <4> QED
        BY <2>2, <4>1, <4>2
    <3> QED
      BY <1>0, <1>m, <3>1 DEF EmptyBefore
  <2>4. CASE InstallAtExitHandler(u) \/ TestInstalled(u) \/ OpenMissed(u)
    BY <1>0, <2>2, <2>4 DEF InstallAtExitHandler, TestInstalled, OpenMissed, EmptyAhead, sharedVars
  <2>5. CASE OpenFound(u) \/ OpenExhausted(u)
    <3>1. /\ pc[u] = "open" /\ cur[u] <= Len(Libs[m])
          /\ cur'[u] = cur[u] + 1 \/ (cur'[u] = cur[u] /\ pc'[u] = "test")
          /\ \E h : lib' = [lib EXCEPT ![Slot(u)] = h]
      BY <1>0, <2>2, <2>5 DEF OpenFound, OpenExhausted, StoreHandle, NextSlot
    <3>2. j > cur[u] /\ j # cur[u]
      BY <1>0, <3>1
    <3>3. cur[u] \in 1..Len(Libs[m])
      <4>1. Len(Libs[m]) \in Nat
        BY <1>m, WranglerAssumption DEF WranglerAssumption
      <4> QED
        BY <1>0, <3>1, <4>1
    <3>4. Libs[m][j] # Slot(u)
      <4>1. \A a \in Module : \A x, y \in 1..Len(Libs[a]) : Libs[a][x] = Libs[a][y] => x = y
        BY WranglerAssumption DEF WranglerAssumption
      <4> QED
        BY <1>m, <2>2, <3>2, <3>3, <4>1 DEF Slot
    <3>5. lib[Libs[m][j]] = NULL
      BY <1>0, <2>2, <3>1, <3>2 DEF EmptyAhead
    <3> QED
      BY <1>0, <1>m, <3>1, <3>4, <3>5
  <2>6. CASE TestRequired(u)
    <3>1. pc[u] = "test" /\ cur'[u] = cur[u] + 1 /\ lib' = lib
      BY <1>0, <2>6 DEF TestRequired, NextSlot
    <3>2. j > cur[u]
      BY <1>0, <3>1
    <3> QED
      BY <1>0, <2>2, <3>1, <3>2 DEF EmptyAhead
  <2>7. CASE OpenDone(u) \/ TestOpened(u)
    BY <1>0, <2>7 DEF OpenDone, TestOpened
  <2>8. CASE Fetch(u) \/ FetchDone(u) \/ Return(u)
    BY <1>0, <2>8 DEF Fetch, FetchDone, Return
  <2> QED
    BY <1>1, <2>1, <2>3, <2>4, <2>5, <2>6, <2>7, <2>8 DEF InitStep
<1>2. CASE Quiet /\ \E t \in Thread, n \in Module : CallInit(t, n)
  BY <1>0, <1>2 DEF CallInit, Quiet, Inside
<1>3. CASE Quiet /\ \E t \in Thread : Exit(t)
  BY <1>0, <1>3 DEF Exit, Quiet, Inside
<1>4. CASE UNCHANGED threadVars /\ Quiet
  BY <1>0, <1>4 DEF threadVars, Quiet, Inside
<1>5. CASE UNCHANGED threadVars /\ lib' = lib
  BY <1>0, <1>5 DEF threadVars, EmptyAhead
<1> QED
  BY <1>0, <1>1, <1>2, <1>3, <1>4, <1>5, SerialCases

LEMMA CountedNext == Safe /\ Search /\ Serial /\ Release /\ [Next]_vars => Counted'
<1> SUFFICES ASSUME Safe, Search, Serial, Release, [Next]_vars,
                    NEW l \in Lib, NEW i \in 1..Len(Paths[l]), NEW f, f = Paths[l][i]
             PROVE  opened'[f] = IF Holds(l, f)' THEN 1 ELSE 0
  BY DEF Counted
<1>0. /\ TypeInv /\ NothingClosing /\ HandleNames /\ Counted /\ EmptyAhead /\ SearchMissed
      /\ f \in Soname /\ NULL \notin Soname /\ NULL \notin Module
      /\ lib \in [Lib -> Soname \cup {NULL}] /\ opened \in [Soname -> Int]
      /\ closing \in Module \cup {NULL}
      /\ opened[f] = IF Holds(l, f) THEN 1 ELSE 0
  BY TableTypes, LinkerAssumption, WranglerAssumption
  DEF LinkerAssumption, WranglerAssumption, Safe, Search, Release, Counted, TypeInv, TypeOK,
      LinkerTypeOK
<1>1. ASSUME NEW t \in Thread, OpenFound(t)
      PROVE  opened'[f] = IF Holds(l, f)' THEN 1 ELSE 0
  <2> DEFINE k == Slot(t)
             c == Candidate(t)
  <2>1. /\ k \in Lib /\ path[t] \in 1..Len(Paths[k]) /\ c = Paths[k][path[t]] /\ c \in Soname
        /\ lib' = [lib EXCEPT ![k] = c] /\ opened' = [opened EXCEPT ![c] = @ + 1]
        /\ closing' = closing
    BY <1>0, <1>1, FoundIsFirst DEF OpenFound, DlOpen, exitVars
  <2>2. lib[k] = NULL
    BY <1>0, <1>1, SlotEmpty DEF OpenFound
  <2>3. closing = NULL
    <3>1. pc[t] = "open"
      BY <1>1 DEF OpenFound
    <3> QED
      BY <1>0, <3>1 DEF NothingClosing, Serial, Alone, Inside
  <2>4. CASE l = k
    <3>1. opened[f] = 0
      BY <1>0, <2>2, <2>4 DEF Holds
    <3> QED
      BY <1>0, <2>1, <2>3, <2>4, <3>1 DEF Holds
  <2>5. CASE l # k
    <3>1. f # c
      BY <2>1, <2>5, SlotsDiffer
    <3> QED
      BY <1>0, <2>1, <2>3, <2>5, <3>1 DEF Holds
  <2> QED
    BY <2>4, <2>5
<1>2. CASE AtExitHandler
  <2> DEFINE n == NextHandler
             h == lib[ClosedSlot(n)]
  <2>1. n \in Module /\ ClosedSlot(n) \in Lib /\ closing = NULL /\ lib' = lib
    BY <1>2, TableTypes DEF AtExitHandler, sharedVars
  <2>2. CASE h = NULL
    BY <1>0, <1>2, <2>2 DEF AtExitHandler, linkerVars, sharedVars, Holds
  <2>3. CASE h # NULL
    <3>1. closing' = n /\ opened' = [opened EXCEPT ![h] = @ - 1]
      BY <1>2, <2>3 DEF AtExitHandler, DlClose
    <3>2. CASE l = ClosedSlot(n) /\ f = h
      BY <1>0, <2>1, <2>3, <3>1, <3>2 DEF Holds
    <3>3. CASE l = ClosedSlot(n) /\ f # h
      BY <1>0, <2>1, <2>3, <3>1, <3>3 DEF Holds
    <3>4. CASE l # ClosedSlot(n)
      <4>1. PICK j \in 1..Len(Paths[ClosedSlot(n)]) : h = Paths[ClosedSlot(n)][j]
        BY <1>0, <2>1, <2>3 DEF HandleNames
      <4>2. f # h
        BY <2>1, <3>4, <4>1, SlotsDiffer
      <4> QED
        BY <1>0, <2>1, <3>1, <3>4, <4>2 DEF Holds
    <3> QED
      BY <3>2, <3>3, <3>4
  <2> QED
    BY <2>2, <2>3
<1>3. CASE ClearHandle
  <2>1. /\ closing # NULL /\ closing' = NULL /\ opened' = opened
        /\ lib' = [lib EXCEPT ![ClosedSlot(closing)] = NULL]
    BY <1>3 DEF ClearHandle, linkerVars
  <2>2. CASE l = ClosedSlot(closing)
    BY <1>0, <2>1, <2>2 DEF Holds
  <2>3. CASE l # ClosedSlot(closing)
    BY <1>0, <2>1, <2>3 DEF Holds
  <2> QED
    BY <2>2, <2>3
<1>4. CASE UNCHANGED <<opened, lib, closing>>
  BY <1>0, <1>4 DEF Holds
<1> QED
  BY <1>1, <1>2, <1>3, <1>4, LibSteps

\* What each step does to the atexit list: it grows at the end, or loses its
\* last element when that is run.
LEMMA HandlerSteps ==
  ASSUME [Next]_vars
  PROVE  \/ handlers' = handlers
         \/ \E h : handlers' = Append(handlers, h)
         \/ /\ RunCleanup \/ AtExitHandler
            /\ handlers # <<>> /\ handlers' = SubSeq(handlers, 1, Len(handlers) - 1)
<1> USE DEF exitVars
<1>1. CASE \E t \in Thread : (\E m \in Module : CallInit(t, m)) \/ Exit(t)
  BY <1>1 DEF CallInit, Exit
<1>2. CASE \E t \in Thread : InitStep(t)
  BY <1>2 DEF InitStep, Mark, InstallAtExitHandler, TestInstalled, OpenFound, OpenMissed,
              OpenExhausted, TestRequired, OpenDone, TestOpened, Fetch, FetchDone, Return
<1>3. CASE RegisterCleanup
  BY <1>3 DEF RegisterCleanup
<1>4. CASE RunCleanup \/ AtExitHandler
  BY <1>4 DEF RunCleanup, AtExitHandler, PopHandler
<1>5. CASE ClearHandle \/ EndProcess
  BY <1>5 DEF ClearHandle, EndProcess
<1>6. CASE UNCHANGED vars
  BY <1>6 DEF vars
<1> QED
  BY <1>1, <1>2, <1>3, <1>4, <1>5, <1>6 DEF Next, ExitStep

\* A handler that is registered stays so until it is the one that is run.
LEMMA RegisteredUntilRun ==
  ASSUME TypeInv, [Next]_vars, NEW m, Registered(m)
  PROVE  Registered(m)' \/ ((RunCleanup \/ AtExitHandler) /\ NextHandler = m)
<1>1. handlers \in Seq(Module \cup {App})
  BY DEF TypeInv, TypeOK
<1>2. PICK i \in 1..Len(handlers) : handlers[i] = m
  BY DEF Registered
<1>3. ASSUME NEW h, handlers' = Append(handlers, h) PROVE Registered(m)'
  <2>1. handlers'[i] = handlers[i] /\ i \in 1..Len(handlers')
    BY <1>1, <1>2, <1>3
  <2> QED
    BY <1>2, <2>1 DEF Registered
<1>4. ASSUME handlers # <<>>, handlers' = SubSeq(handlers, 1, Len(handlers) - 1),
             NextHandler # m
      PROVE  Registered(m)'
  <2>1. i \in 1..Len(handlers) - 1
    BY <1>1, <1>2, <1>4 DEF NextHandler
  <2>2. handlers'[i] = handlers[i] /\ i \in 1..Len(handlers')
    BY <1>1, <1>2, <1>4, <2>1
  <2> QED
    BY <1>2, <2>2 DEF Registered
<1>5. CASE handlers' = handlers
  BY <1>2, <1>5 DEF Registered
<1> QED
  BY <1>3, <1>4, <1>5, HandlerSteps

LEMMA StillRegisteredNext ==
  Safe /\ Search /\ Serial /\ Release /\ [Next]_vars => StillRegistered'
<1> SUFFICES ASSUME Safe, Search, Serial, Release, [Next]_vars, NEW m \in Module,
                    NEW l, l = ClosedSlot(m), lib'[l] # NULL, closing' # m
             PROVE  Registered(m)'
  BY DEF StillRegistered
<1>0. /\ TypeInv /\ StillRegistered /\ OpensRegistered /\ SearchMissed
      /\ l \in Lib /\ lib \in [Lib -> Soname \cup {NULL}]
  BY TableTypes DEF Safe, Search, Release, TypeInv, TypeOK
<1>1. ASSUME NEW t \in Thread, OpenFound(t), Slot(t) = l PROVE Registered(m)'
  <2>1. /\ pc[t] = "open" /\ cur[t] <= Len(Libs[mod[t]])
        /\ ~RunCleanup /\ ~AtExitHandler /\ phase = "running"
    <3>1. pc[t] = "open" /\ cur[t] <= Len(Libs[mod[t]])
      BY <1>1 DEF OpenFound
    <3> QED
      BY <3>1 DEF Serial, Alone, Inside, RunCleanup, AtExitHandler
  <2>2. mod[t] = m
    <3>1. mod[t] \in Module /\ l \in SlotsOf(mod[t])
      BY <1>0, <1>1, <2>1, SearchTypes
    <3>2. l \in SlotsOf(m)
      BY WranglerAssumption DEF WranglerAssumption, ClosedSlot, SlotsOf
    <3> QED
      BY <3>1, <3>2, SlotsDiffer
  <2>3. Registered(m)
    BY <1>0, <2>1, <2>2 DEF OpensRegistered
  <2> QED
    BY <1>0, <2>1, <2>3, RegisteredUntilRun
<1>2. CASE lib[l] # NULL /\ closing # m
  <2>1. Registered(m)
    BY <1>0, <1>2 DEF StillRegistered
  <2>2. CASE RunCleanup
    <3>1. NextHandler # m
      BY <2>2, WranglerAssumption DEF WranglerAssumption, RunCleanup
    <3>2. ~AtExitHandler
      BY <2>2, WranglerAssumption DEF WranglerAssumption, RunCleanup, AtExitHandler
    <3> QED
      BY <1>0, <2>1, <3>1, <3>2, RegisteredUntilRun
  <2>3. CASE AtExitHandler
    <3>1. NextHandler # m
      BY <1>2, <2>3 DEF AtExitHandler
    <3> QED
      BY <1>0, <2>1, <3>1, RegisteredUntilRun
  <2> QED
    BY <1>0, <2>1, <2>2, <2>3, RegisteredUntilRun
<1>3. ASSUME NEW t \in Thread, OpenFound(t), Slot(t) # l PROVE lib[l] # NULL /\ closing # m
  BY <1>0, <1>3, FoundIsFirst DEF OpenFound, exitVars
<1>4. CASE AtExitHandler
  <2>1. lib[l] # NULL /\ closing = NULL
    BY <1>4 DEF AtExitHandler, sharedVars
  <2> QED
    BY <1>2, <2>1, WranglerAssumption DEF WranglerAssumption
<1>5. CASE ClearHandle
  <2>1. lib' = [lib EXCEPT ![ClosedSlot(closing)] = NULL]
    BY <1>5 DEF ClearHandle
  <2>2. lib[l] # NULL /\ closing # m
    BY <1>0, <2>1
  <2> QED
    BY <1>2, <2>2
<1> QED
  BY <1>1, <1>2, <1>3, <1>4, <1>5, LibSteps

LEMMA EndedLastNext == EndedLast /\ [SerialNext]_vars => EndedLast'
<1>1. CASE SerialNext
  <2>1. phase # "ended"
    BY <1>1 DEF SerialNext
  <2>2. CASE EndProcess
    BY <2>2 DEF EndProcess, EndedLast
  <2>3. CASE SerialClient \/ RegisterCleanup \/ RunCleanup \/ AtExitHandler \/ ClearHandle
    BY <2>1, <2>3 DEF SerialClient, CallInit, Exit, RegisterCleanup, RunCleanup, AtExitHandler,
                      ClearHandle, EndedLast, exitVars
  <2>4. ASSUME NEW t \in Thread, InitStep(t) PROVE phase' = phase
    BY <2>4 DEF InitStep, Mark, InstallAtExitHandler, TestInstalled, OpenFound, OpenMissed,
                OpenExhausted, TestRequired, OpenDone, TestOpened, Fetch, FetchDone, Return,
                exitVars
  <2> QED
    BY <1>1, <2>1, <2>2, <2>3, <2>4 DEF SerialNext, ExitStep, EndedLast
<1>2. CASE UNCHANGED vars
  BY <1>2 DEF vars, exitVars, EndedLast
<1> QED
  BY <1>1, <1>2

LEMMA ReleaseInit == Init => Release
<1> SUFFICES ASSUME Init PROVE Release
  OBVIOUS
<1>1. EmptyBefore
  BY TableTypes DEF Init, EmptyBefore, SlotsOf
<1>2. EmptyAhead /\ EndedLast
  BY DEF Init, EmptyAhead, EndedLast
<1>3. Counted
  <2>1. NULL \notin Soname
    BY LinkerAssumption DEF LinkerAssumption
  <2> QED
    BY <2>1, TableTypes DEF Init, LinkerInit, Counted, Holds
<1>4. StillRegistered
  BY TableTypes DEF Init, StillRegistered
<1> QED
  BY <1>1, <1>2, <1>3, <1>4 DEF Release

THEOREM ReleaseAlways == SerialSpec => []Release
<1>1. Safe /\ Search /\ Serial /\ Progress /\ Release /\ [SerialNext]_vars => Release'
  <2>1. [SerialNext]_vars => [Next]_vars
    BY DEF SerialNext, SerialClient, Next
  <2> QED
    BY <2>1, EmptyBeforeNext, EmptyAheadNext, CountedNext, StillRegisteredNext, EndedLastNext
    DEF Release
<1> QED
  BY <1>1, SerialAlways, ProgressAlways, ReleaseInit, PTL DEF SerialSpec

\* The first library of every module is let go to the last reference by the
\* end of the process.
THEOREM PrimaryAlwaysReleased == SerialSpec => []PrimaryReleased
<1>1. Safe /\ Release => PrimaryReleased
  <2> SUFFICES ASSUME Safe, Release, phase = "ended", NEW m \in Module,
                      NEW i \in 1..Len(Paths[ClosedSlot(m)])
               PROVE  opened[Paths[ClosedSlot(m)][i]] = 0
    BY DEF PrimaryReleased
  <2>1. handlers = <<>> /\ closing = NULL /\ NULL \notin Module
    BY WranglerAssumption DEF WranglerAssumption, Release, EndedLast
  <2>2. ~Registered(m)
    BY <2>1 DEF Registered
  <2>3. lib[ClosedSlot(m)] = NULL /\ ClosedSlot(m) \in Lib
    BY <2>1, <2>2, TableTypes DEF Release, StillRegistered
  <2>4. Paths[ClosedSlot(m)][i] # NULL
    BY <2>3, TableTypes, LinkerAssumption DEF LinkerAssumption
  <2> QED
    BY <2>3, <2>4 DEF Release, Counted, Holds
<1> QED
  BY <1>1, SerialAlways, ReleaseAlways, PTL

-----------------------------------------------------------------------------
(* The application's own cleanup. *)

\* An application that registers its cleanup when all modules are done.
LEMMA OrderlyIsSerial == OrderlySpec => SerialSpec
<1>1. [OrderlyNext]_vars => [SerialNext]_vars
  BY DEF OrderlyNext, SerialNext
<1> QED
  BY <1>1, PTL DEF OrderlySpec, SerialSpec

\* Its cleanups come after every exit handler of a module ...
AppsLast == \A i, j \in 1..Len(handlers) : i < j /\ handlers[i] = App => handlers[j] = App

\* ... since no attempt is made any more once one is registered.
AllAttempted == Registered(App) => \A t \in Thread : Inside(t) => pc[t] = "return"
AllMarked == Registered(App) => \A m \in Module : is_initialized[m]

\* As long as one waits to be run, no exit handler of a module has run.
NothingClosed == Registered(App) =>
  /\ closing = NULL
  /\ \A s \in Sym : functor[s] # Wrapper /\ (functor[s] \in Soname => opened[functor[s]] > 0)

Orderly == AppsLast /\ AllAttempted /\ AllMarked /\ NothingClosed

\* Who changes the atexit list.
LEMMA ListSteps ==
  ASSUME [OrderlyNext]_vars
  PROVE  \/ handlers' = handlers
         \/ /\ RegisterCleanup /\ handlers' = Append(handlers, App)
            /\ Quiet /\ \A m \in Module : is_initialized[m]
         \/ \E t \in Thread : InstallAtExitHandler(t) /\ handlers' = Append(handlers, mod[t])
         \/ /\ RunCleanup \/ AtExitHandler
            /\ handlers # <<>> /\ handlers' = SubSeq(handlers, 1, Len(handlers) - 1)
<1> USE DEF exitVars
<1>1. CASE SerialClient
  BY <1>1 DEF SerialClient, CallInit, Exit
<1>2. CASE \E t \in Thread : InstallAtExitHandler(t)
  BY <1>2 DEF InstallAtExitHandler
<1>3. ASSUME NEW t \in Thread, InitStep(t), ~InstallAtExitHandler(t) PROVE handlers' = handlers
  BY <1>3 DEF InitStep, Mark, TestInstalled, OpenFound, OpenMissed, OpenExhausted, TestRequired,
              OpenDone, TestOpened, Fetch, FetchDone, Return
<1>4. CASE Quiet /\ (\A m \in Module : is_initialized[m]) /\ RegisterCleanup
  BY <1>4 DEF RegisterCleanup
<1>5. CASE RunCleanup \/ AtExitHandler
  BY <1>5 DEF RunCleanup, AtExitHandler, PopHandler
<1>6. CASE ClearHandle \/ EndProcess
  BY <1>6 DEF ClearHandle, EndProcess
<1>7. CASE UNCHANGED vars
  BY <1>7 DEF vars
<1> QED
  BY <1>1, <1>2, <1>3, <1>4, <1>5, <1>6, <1>7 DEF OrderlyNext, ExitStep

\* A cleanup in the list was there before, or is registered by this step.
LEMMA AppSteps ==
  ASSUME TypeInv, [OrderlyNext]_vars, Registered(App)'
  PROVE  Registered(App) \/ (RegisterCleanup /\ Quiet /\ \A m \in Module : is_initialized[m])
<1>0. handlers \in Seq(Module \cup {App}) /\ App \notin Module
  BY WranglerAssumption DEF WranglerAssumption, TypeInv, TypeOK
<1>1. PICK i \in 1..Len(handlers') : handlers'[i] = App
  BY DEF Registered
<1>2. CASE handlers' = handlers
  BY <1>1, <1>2 DEF Registered
<1>3. ASSUME NEW t \in Thread, InstallAtExitHandler(t), handlers' = Append(handlers, mod[t])
      PROVE  Registered(App)
  <2>1. mod[t] \in Module
    BY <1>3 DEF InstallAtExitHandler, TypeInv, InsideModule, Inside
  <2>2. i \in 1..Len(handlers) /\ handlers[i] = App
    BY <1>0, <1>1, <1>3, <2>1
  <2> QED
    BY <2>2 DEF Registered
<1>4. ASSUME handlers # <<>>, handlers' = SubSeq(handlers, 1, Len(handlers) - 1)
      PROVE  Registered(App)
  <2>1. i \in 1..Len(handlers) /\ handlers[i] = App
    BY <1>0, <1>1, <1>4
  <2> QED
    BY <2>1 DEF Registered
<1> QED
  BY <1>2, <1>3, <1>4, ListSteps

LEMMA AppsLastNext == Safe /\ Orderly /\ [OrderlyNext]_vars => AppsLast'
<1> SUFFICES ASSUME Safe, Orderly, [OrderlyNext]_vars, NEW i \in 1..Len(handlers'),
                    NEW j \in 1..Len(handlers'), i < j, handlers'[i] = App
             PROVE  handlers'[j] = App
  BY DEF AppsLast
<1>0. TypeInv /\ handlers \in Seq(Module \cup {App}) /\ AppsLast /\ AllAttempted
  BY DEF Safe, TypeInv, TypeOK, Orderly
<1>1. CASE handlers' = handlers
  BY <1>0, <1>1 DEF AppsLast
<1>2. CASE handlers' = Append(handlers, App)
  <2>1. i \in 1..Len(handlers) /\ handlers[i] = App
    BY <1>0, <1>2
  <2>2. j \in 1..Len(handlers) \/ handlers'[j] = App
    BY <1>0, <1>2
  <2>3. j \in 1..Len(handlers) => handlers'[j] = handlers[j]
    BY <1>0, <1>2
  <2> QED
    BY <1>0, <2>1, <2>2, <2>3 DEF AppsLast
<1>3. ASSUME NEW t \in Thread, InstallAtExitHandler(t), handlers' = Append(handlers, mod[t])
      PROVE  FALSE
  <2>1. i \in 1..Len(handlers) /\ handlers[i] = App
    BY <1>0, <1>3
  <2>2. Registered(App)
    BY <2>1 DEF Registered
  <2> QED
    BY <1>0, <1>3, <2>2 DEF AllAttempted, InstallAtExitHandler, Inside
<1>4. ASSUME handlers # <<>>, handlers' = SubSeq(handlers, 1, Len(handlers) - 1)
      PROVE  handlers'[j] = App
  <2>1. /\ i \in 1..Len(handlers) /\ j \in 1..Len(handlers)
        /\ handlers'[i] = handlers[i] /\ handlers'[j] = handlers[j]
    BY <1>0, <1>4
  <2> QED
    BY <1>0, <2>1 DEF AppsLast
<1> QED
  BY <1>1, <1>2, <1>3, <1>4, ListSteps

LEMMA AllMarkedNext == Safe /\ Serial /\ Orderly /\ [OrderlyNext]_vars => AllMarked'
<1> SUFFICES ASSUME Safe, Serial, Orderly, [OrderlyNext]_vars, Registered(App)', NEW m \in Module
             PROVE  is_initialized'[m]
  BY DEF AllMarked
<1>0. TypeInv /\ Alone /\ [SerialNext]_vars
  BY DEF Safe, Serial, OrderlyNext, SerialNext
<1>1. is_initialized[m]
  BY <1>0, AppSteps DEF Orderly, AllMarked
<1>2. ASSUME NEW t \in Thread, InitStep(t) PROVE is_initialized'[m]
  BY <1>0, <1>1, <1>2, InitFrame, InitOwn
<1>3. CASE (\E t \in Thread, n \in Module : CallInit(t, n)) \/ \E t \in Thread : Exit(t)
  BY <1>1, <1>3 DEF CallInit, Exit, sharedVars
<1> QED
  BY <1>0, <1>1, <1>2, <1>3, SerialCases

LEMMA AllAttemptedNext == Safe /\ Serial /\ Orderly /\ [OrderlyNext]_vars => AllAttempted'
<1> SUFFICES ASSUME Safe, Serial, Orderly, [OrderlyNext]_vars, Registered(App)',
                    NEW u \in Thread, Inside(u)'
             PROVE  pc'[u] = "return"
  BY DEF AllAttempted
<1>0. TypeInv /\ Alone /\ [SerialNext]_vars /\ pc \in [Thread -> Labels]
  BY DEF Safe, Serial, TypeInv, TypeOK, OrderlyNext, SerialNext
<1>1. CASE RegisterCleanup /\ Quiet
  BY <1>1 DEF RegisterCleanup, Quiet, Inside, threadVars
<1>2. CASE Registered(App)
  <2>0. \A t \in Thread : Inside(t) => pc[t] = "return"
    BY <1>2 DEF Orderly, AllAttempted
  <2>1. ASSUME NEW t \in Thread, InitStep(t) PROVE pc'[u] = "return"
    <3>1. u = t
      BY <1>0, <2>1, InitFrame DEF Alone, Inside
    <3>2. pc'[t] = "idle"
      BY <1>0, <2>0, <2>1, InitFrame, InitOwn
    <3> QED
      BY <3>1, <3>2 DEF Inside
  <2>2. CASE Quiet /\ \E t \in Thread, n \in Module : CallInit(t, n)
    <3>1. \A n \in Module : is_initialized[n]
      BY <1>2 DEF Orderly, AllMarked
    <3> QED
      BY <1>0, <2>2, <3>1 DEF CallInit, Goto, Quiet, Inside
  <2>3. CASE Quiet /\ \E t \in Thread : Exit(t)
    BY <1>0, <2>3 DEF Exit, Goto, Quiet, Inside
  <2>4. CASE UNCHANGED threadVars
    BY <2>0, <2>4 DEF threadVars, Inside
  <2> QED
    BY <1>0, <2>1, <2>2, <2>3, <2>4, SerialCases
<1> QED
  BY <1>0, <1>1, <1>2, AppSteps

LEMMA NothingClosedNext ==
  ASSUME Exported = {}
  PROVE  Safe /\ Serial /\ Orderly /\ [OrderlyNext]_vars => NothingClosed'
<1> SUFFICES ASSUME Safe, Serial, Orderly, [OrderlyNext]_vars, Registered(App)'
             PROVE  NothingClosed'
  BY DEF NothingClosed
<1>0. /\ TypeInv /\ Alone /\ [Next]_vars /\ handlers \in Seq(Module \cup {App})
      /\ App \notin Module /\ AppsLast
  BY WranglerAssumption DEF WranglerAssumption, Safe, Serial, TypeInv, TypeOK, Orderly,
                            OrderlyNext, SerialClient, Next
<1>1. CASE phase' = "running"
  <2>1. NothingClosing' /\ BoundToOpen'
    BY <1>0, NothingClosingNext, BoundToOpenNext
  <2> QED
    BY <1>1, <2>1 DEF NothingClosing, BoundToOpen, NothingClosed
<1>2. CASE phase' # "running"
  <2>1. ~AtExitHandler
    <3> SUFFICES ASSUME AtExitHandler PROVE FALSE
      OBVIOUS
    <3>1. /\ handlers # <<>> /\ handlers' = SubSeq(handlers, 1, Len(handlers) - 1)
          /\ handlers[Len(handlers)] \in Module
      BY DEF AtExitHandler, PopHandler, NextHandler
    <3>2. PICK i \in 1..Len(handlers') : handlers'[i] = App
      BY DEF Registered
    <3>3. /\ i \in 1..Len(handlers) /\ Len(handlers) \in 1..Len(handlers)
          /\ i < Len(handlers) /\ handlers[i] = App
      BY <1>0, <3>1, <3>2
    <3>4. handlers[Len(handlers)] = App
      BY <1>0, <3>3 DEF AppsLast
    <3> QED
      BY <1>0, <3>1, <3>4
  <2>2. \A t \in Thread : ~InitStep(t)
    BY <1>0, <1>2, InitFrame DEF Alone
  <2>3. Registered(App)
    <3>1. ~RegisterCleanup
      BY <1>2 DEF RegisterCleanup
    <3> QED
      BY <1>0, <3>1, AppSteps
  <2>4. closing = NULL /\ \A s \in Sym : functor[s] # Wrapper
                                      /\ (functor[s] \in Soname => opened[functor[s]] > 0)
    BY <2>3 DEF Orderly, NothingClosed
  <2>5. UNCHANGED <<opened, lib, closing>>
    BY <1>0, <2>1, <2>2, <2>4, HandleSteps DEF InitStep, ClearHandle
  <2>6. functor' = functor
    BY <1>0, <2>2, FunctorSteps DEF InitStep
  <2> QED
    BY <2>4, <2>5, <2>6 DEF NothingClosed
<1> QED
  BY <1>1, <1>2

\* An application whose cleanup is registered after the modules' Inits, and
\* whose wrappers are not exported, can call every function that HAS_SYMBOL
\* reports from that cleanup.
THEOREM CleanupAlwaysSafe ==
  ASSUME Exported = {}
  PROVE  OrderlySpec => []CleanupSafe
<1>1. Init => Orderly
  BY DEF Init, Orderly, AppsLast, AllAttempted, AllMarked, NothingClosed, Registered
<1>2. Safe /\ Serial /\ Orderly /\ [OrderlyNext]_vars => Orderly'
  BY AppsLastNext, AllMarkedNext, AllAttemptedNext, NothingClosedNext DEF Orderly
<1>3. Safe /\ Orderly => CleanupSafe
  <2> SUFFICES ASSUME Safe, Orderly, handlers # <<>>, NextHandler = App,
                      NEW s \in Sym, functor[s] # NULL
               PROVE  CallOutcome(s) = "library"
    BY DEF CleanupSafe, HasSymbol
  <2>1. functor[s] \in Soname \cup {NULL, Wrapper} /\ handlers \in Seq(Module \cup {App})
    BY DEF Safe, TypeInv, TypeOK
  <2>2. Registered(App)
    <3>1. Len(handlers) \in 1..Len(handlers)
      BY <2>1
    <3> QED
      BY <3>1 DEF NextHandler, Registered
  <2>3. functor[s] # Wrapper /\ functor[s] \in Soname /\ opened[functor[s]] > 0
    BY <2>1, <2>2 DEF Orderly, NothingClosed
  <2>4. functor[s] \in Mapped
    BY <2>3 DEF Mapped
  <2> QED
    BY <2>3, <2>4 DEF CallOutcome
<1> QED
  BY <1>1, <1>2, <1>3, OrderlyIsSerial, SerialAlways, PTL DEF OrderlySpec

-----------------------------------------------------------------------------
(* Functors that point at nothing. *)

\* The files that can be opened were installed together with what they need.
InstalledTogether == loadable \in Installs

\* A functor was bound to the first name of its slot that opens, and what the
\* slot held then it holds until exit clears it.
BoundAtHome == \A s \in Sym : functor[s] \in Soname =>
  /\ \E i \in 1..Len(Paths[LibOf[s]]) :
       functor[s] = Paths[LibOf[s]][i] /\ functor[s] \in loadable /\ Earlier(LibOf[s], i)
  /\ \/ lib[LibOf[s]] = functor[s]
     \/ /\ lib[LibOf[s]] = NULL /\ phase # "running"
        /\ \E m \in Module : LibOf[s] = ClosedSlot(m)

\* What a bound module needs it keeps, but for its first library.
RequiredKept == \A m \in Module : \A s \in SymsOf(m) : functor[s] # NULL =>
  \A k \in SlotsOf(m) \cap Required : k # ClosedSlot(m) => lib[k] # NULL

Anchors == InstalledTogether /\ BoundAtHome /\ RequiredKept

\* A functor is bound from the handle of its slot, while the process runs.
LEMMA FetchBinds ==
  ASSUME Safe, Serial, Progress, NEW t \in Thread, Fetch(t), NEW s \in Sym
  PROVE  \/ functor'[s] = functor[s]
         \/ /\ phase = "running" /\ mod[t] \in Module /\ s \in SymsOf(mod[t])
            /\ AllServed(mod[t])
            /\ functor'[s] \in Soname => functor'[s] = lib[LibOf[s]]
<1>0. /\ TypeInv /\ functor \in [Sym -> Soname \cup {NULL, Wrapper}]
      /\ pc[t] = "fetch" /\ cur[t] <= Len(Syms[mod[t]])
  BY DEF Safe, TypeInv, TypeOK, Fetch
<1>1. mod[t] \in Module /\ Inside(t) /\ phase = "running"
  BY <1>0 DEF TypeInv, InsideModule, Inside, Serial, Alone
<1>2. AllServed(mod[t])
  BY <1>0, <1>1 DEF Progress, OpenedAll
<1>3. CASE s # Syms[mod[t]][cur[t]]
  BY <1>0, <1>3 DEF Fetch
<1>4. CASE s = Syms[mod[t]][cur[t]]
  <2>1. cur[t] \in Nat \ {0} /\ Len(Syms[mod[t]]) \in Nat
    BY <1>1, WranglerAssumption DEF WranglerAssumption, Safe, TypeInv, TypeOK
  <2>2. s \in SymsOf(mod[t])
    BY <1>0, <1>4, <2>1 DEF SymsOf
  <2>3. PICK x \in DlSym(lib[LibOf[s]], s) : functor' = [functor EXCEPT ![s] = x]
    BY <1>4 DEF Fetch
  <2>4. functor'[s] = x /\ (x = lib[LibOf[s]] \/ x = NULL \/ x = Wrapper)
    BY <1>0, <2>3, DlSymRange
  <2>5. NULL \notin Soname /\ Wrapper \notin Soname
    BY LinkerAssumption DEF LinkerAssumption
  <2> QED
    BY <1>1, <1>2, <2>2, <2>4, <2>5
<1> QED
  BY <1>3, <1>4

\* A handle stays until exit clears it.
LEMMA HandleUntilExit ==
  ASSUME Safe, Search, Serial, Release, [SerialNext]_vars, NEW l \in Lib, lib[l] # NULL
  PROVE  \/ lib'[l] = lib[l]
         \/ /\ lib'[l] = NULL /\ phase' # "running"
            /\ \E m \in Module : l = ClosedSlot(m) /\ closing = m
<1>0. /\ TypeInv /\ SearchMissed /\ EmptyAhead /\ [Next]_vars
      /\ lib \in [Lib -> Soname \cup {NULL}] /\ closing \in Module \cup {NULL}
  BY DEF Safe, Search, Release, TypeInv, TypeOK, SerialNext, SerialClient, Next
<1>1. ASSUME NEW t \in Thread, OpenFound(t) PROVE lib'[l] = lib[l]
  <2>1. lib[Slot(t)] = NULL
    BY <1>0, <1>1, SlotEmpty DEF OpenFound
  <2> QED
    BY <1>0, <1>1, <2>1, FoundIsFirst
<1>2. CASE AtExitHandler
  BY <1>2 DEF AtExitHandler, sharedVars
<1>3. CASE ClearHandle
  <2>1. closing \in Module /\ lib' = [lib EXCEPT ![ClosedSlot(closing)] = NULL]
    BY <1>0, <1>3 DEF ClearHandle
  <2>2. phase' # "running"
    BY <1>0, <1>3, <2>1, RunningSteps DEF ClearHandle, Safe, NothingClosing
  <2> QED
    BY <1>0, <2>1, <2>2
<1> QED
  BY <1>0, <1>1, <1>2, <1>3, LibSteps

LEMMA BoundAtHomeNext ==
  Safe /\ Search /\ Serial /\ Progress /\ Release /\ BoundAtHome /\ [SerialNext]_vars
    => BoundAtHome'
<1> SUFFICES ASSUME Safe, Search, Serial, Progress, Release, BoundAtHome, [SerialNext]_vars,
                    NEW s \in Sym, functor'[s] \in Soname
             PROVE  /\ \E i \in 1..Len(Paths[LibOf[s]]) :
                         /\ functor'[s] = Paths[LibOf[s]][i] /\ functor'[s] \in loadable
                         /\ Earlier(LibOf[s], i)
                    /\ \/ lib'[LibOf[s]] = functor'[s]
                       \/ /\ lib'[LibOf[s]] = NULL /\ phase' # "running"
                          /\ \E m \in Module : LibOf[s] = ClosedSlot(m)
  BY SystemStays DEF BoundAtHome, Earlier, SerialNext, SerialClient, Next
<1> DEFINE l == LibOf[s]
<1>0. l \in Lib /\ [Next]_vars /\ NULL \notin Soname
  BY TableTypes, LinkerAssumption DEF LinkerAssumption, SerialNext, SerialClient, Next
<1>1. CASE functor'[s] = functor[s]
  <2>1. CASE lib[l] = functor[s]
    BY <1>0, <1>1, <2>1, HandleUntilExit DEF BoundAtHome
  <2>2. CASE lib[l] # functor[s]
    <3>1. lib[l] = NULL /\ phase # "running" /\ \E m \in Module : l = ClosedSlot(m)
      BY <1>1, <2>2 DEF BoundAtHome
    <3>2. phase' # "running"
      BY <1>0, <3>1, RunningSteps
    <3>3. ASSUME NEW t \in Thread PROVE ~OpenFound(t)
      BY <3>1 DEF OpenFound, Serial, Alone, Inside
    <3>4. lib'[l] = NULL
      <4>1. CASE ClearHandle
        BY <1>0, <3>1, <4>1 DEF ClearHandle, Safe, TypeInv, TypeOK
      <4>2. CASE AtExitHandler
        BY <3>1, <4>2 DEF AtExitHandler, sharedVars
      <4> QED
        BY <1>0, <3>1, <3>3, <4>1, <4>2, LibSteps
    <3> QED
      BY <1>1, <3>1, <3>2, <3>4 DEF BoundAtHome
  <2> QED
    BY <2>1, <2>2
<1>2. ASSUME NEW t \in Thread, Fetch(t), functor'[s] # functor[s]
      PROVE  lib[l] = functor'[s] /\ lib' = lib
  BY <1>2, FetchBinds DEF Fetch
<1>3. CASE functor'[s] # functor[s]
  <2>1. lib[l] = functor'[s] /\ lib' = lib
    BY <1>0, <1>2, <1>3, FunctorSteps
  <2> QED
    BY <1>0, <2>1 DEF Search, FirstHeld
<1> QED
  BY <1>1, <1>3

LEMMA RequiredKeptNext ==
  Safe /\ Search /\ Serial /\ Progress /\ Release /\ RequiredKept /\ [SerialNext]_vars
    => RequiredKept'
<1> SUFFICES ASSUME Safe, Search, Serial, Progress, Release, RequiredKept, [SerialNext]_vars,
                    NEW m \in Module, NEW s \in SymsOf(m), functor'[s] # NULL,
                    NEW k \in SlotsOf(m) \cap Required, k # ClosedSlot(m)
             PROVE  lib'[k] # NULL
  BY DEF RequiredKept
<1>0. /\ [Next]_vars /\ k \in Lib /\ s \in Sym
      /\ \A n \in Module : k # ClosedSlot(n)
  <2>1. \A n \in Module : ClosedSlot(n) \in SlotsOf(n)
    BY WranglerAssumption DEF WranglerAssumption, ClosedSlot, SlotsOf
  <2>2. \A n \in Module : k # ClosedSlot(n)
    BY <2>1, SlotsDiffer
  <2> QED
    BY <2>2, TableTypes DEF SlotsOf, SymsOf, SerialNext, SerialClient, Next
<1>1. lib[k] # NULL
  <2>1. CASE functor'[s] = functor[s]
    BY <2>1 DEF RequiredKept
  <2>2. ASSUME NEW t \in Thread, Fetch(t), functor'[s] # functor[s] PROVE lib[k] # NULL
    <3>1. mod[t] \in Module /\ s \in SymsOf(mod[t]) /\ AllServed(mod[t])
      BY <1>0, <2>2, FetchBinds
    <3>2. mod[t] = m
      BY <3>1, OneModule
    <3> QED
      BY <3>1, <3>2 DEF AllServed, Served
  <2> QED
    BY <1>0, <2>1, <2>2, FunctorSteps
<1> QED
  BY <1>0, <1>1, HandleUntilExit

THEOREM AnchorsAlways == SerialSpec => []Anchors
<1>1. Init => Anchors
  <2> SUFFICES ASSUME Init PROVE Anchors
    OBVIOUS
  <2>1. InstalledTogether
    BY DEF Init, LinkerInit, InstalledTogether
  <2>2. \A s \in Sym : functor[s] = NULL
    BY DEF Init
  <2>3. NULL \notin Soname
    BY LinkerAssumption DEF LinkerAssumption
  <2> QED
    BY <2>1, <2>2, <2>3, TableTypes DEF Anchors, BoundAtHome, RequiredKept, SymsOf
<1>2. Safe /\ Search /\ Serial /\ Progress /\ Release /\ Anchors /\ [SerialNext]_vars => Anchors'
  <2>1. [SerialNext]_vars => [Next]_vars
    BY DEF SerialNext, SerialClient, Next
  <2>2. InstalledTogether /\ [Next]_vars => InstalledTogether'
    BY SystemStays DEF InstalledTogether
  <2> QED
    BY <2>1, <2>2, BoundAtHomeNext, RequiredKeptNext DEF Anchors
<1> QED
  BY <1>1, <1>2, SerialAlways, ProgressAlways, ReleaseAlways, PTL DEF SerialSpec

\* A file that a slot holds and is not giving back is mapped, and so is all that
\* it needs.
LEMMA HeldMapped ==
  ASSUME Safe, Release, NEW l \in Lib, lib[l] # NULL,
         closing = NULL \/ l # ClosedSlot(closing)
  PROVE  lib[l] \in Mapped /\ Deps[lib[l]] \subseteq Mapped
<1>1. PICK i \in 1..Len(Paths[l]) : lib[l] = Paths[l][i]
  BY DEF Safe, HandleNames
<1>2. opened[lib[l]] = 1 /\ lib[l] \in Soname
  BY <1>1, TableTypes DEF Release, Counted, Holds
<1> QED
  BY <1>2 DEF Mapped

\* With serial calls a functor that points at nothing is one of its module's
\* first library after that was closed, and none is where a library that stays
\* open needs the first.
THEOREM NeverDanglingAlways ==
  ASSUME "XCB" \in Module => Anchored("XCB")
  PROVE  SerialSpec => []NeverDangling
<1>1. Safe /\ Search /\ Release /\ Anchors => NeverDangling
  <2> SUFFICES ASSUME Safe, Search, Release, Anchors, NEW m \in Module, NEW s \in SymsOf(m),
                      functor[s] \in Soname, functor[s] \notin Mapped
               PROVE  /\ LibOf[s] = Libs[m][1]
                      /\ closing = m \/ lib[LibOf[s]] = NULL
                      /\ m # "XCB"
    BY DEF NeverDangling
  <2> DEFINE l == LibOf[s]
  <2>0. /\ s \in Sym /\ l \in Lib /\ l \in SlotsOf(m) /\ NULL \notin Soname
        /\ closing \in Module \cup {NULL}
    BY TableTypes, LibOfSlot, LinkerAssumption
    DEF LinkerAssumption, SymsOf, Safe, TypeInv, TypeOK
  <2>1. ASSUME NEW k \in SlotsOf(m), NEW n \in Module, k = ClosedSlot(n) PROVE n = m
    <3>1. ClosedSlot(n) \in SlotsOf(n)
      BY WranglerAssumption DEF WranglerAssumption, ClosedSlot, SlotsOf
    <3> QED
      BY <2>0, <2>1, <3>1, SlotsDiffer
  <2>2. l = ClosedSlot(m) /\ (closing = m \/ lib[l] = NULL)
    <3>1. CASE lib[l] = functor[s]
      <4>1. closing # NULL /\ l = ClosedSlot(closing)
        BY <2>0, <3>1, HeldMapped
      <4> QED
        BY <2>0, <2>1, <4>1
    <3>2. CASE lib[l] # functor[s]
      <4>1. lib[l] = NULL /\ \E n \in Module : l = ClosedSlot(n)
        BY <2>0, <3>2 DEF Anchors, BoundAtHome
      <4> QED
        BY <2>0, <2>1, <4>1
    <3> QED
      BY <3>1, <3>2
  <2>3. ASSUME Anchored(m) PROVE FALSE
    <3>1. PICK k \in SlotsOf(m) \cap Required :
            /\ k # l
            /\ \A i \in 1..Len(Paths[k]) : Paths[l][1] \in Deps[Paths[k][i]]
      BY <2>2, <2>3 DEF Anchored, ClosedSlot
    <3>2. k \in Lib /\ lib[k] # NULL
      BY <2>0, <2>2, <3>1, TableTypes DEF SlotsOf, Anchors, RequiredKept
    \* What needs the first library holds it, ...
    <3>3. lib[k] \in Mapped /\ Deps[lib[k]] \subseteq Mapped
      <4>1. closing = NULL \/ k # ClosedSlot(closing)
        BY <2>0, <2>1, <2>2, <3>1
      <4> QED
        BY <3>2, <4>1, HeldMapped
    <3>4. PICK i \in 1..Len(Paths[k]) : lib[k] = Paths[k][i] /\ lib[k] \in loadable
      BY <3>2 DEF Search, FirstHeld
    <3>5. Paths[l][1] \in Deps[lib[k]] /\ Deps[lib[k]] \subseteq loadable
      BY <3>1, <3>4, LinkerAssumption DEF LinkerAssumption, Anchors, InstalledTogether
    \* ... under its first name, which is the one the functor is from.
    <3>6. PICK j \in 1..Len(Paths[l]) : functor[s] = Paths[l][j] /\ Earlier(l, j)
      BY <2>0 DEF Anchors, BoundAtHome
    <3>7. Len(Paths[l]) \in Nat
      BY <2>0, WranglerAssumption DEF WranglerAssumption
    <3>8. ~(1 < j)
      BY <3>5, <3>6, <3>7 DEF Earlier
    <3>9. functor[s] = Paths[l][1]
      BY <3>6, <3>7, <3>8
    <3> QED
      BY <3>3, <3>5, <3>9
  <2> QED
    BY <2>2, <2>3 DEF ClosedSlot
<1> QED
  BY <1>1, SerialAlways, ReleaseAlways, AnchorsAlways, PTL
=============================================================================
