----------------------------- MODULE MCProcess -----------------------------
(***************************************************************************)
(* A process on Linux with the three modules and their real libraries, for *)
(* the modules that give the constants of Wrangler their values.  TLC      *)
(* keeps the value of a definition like Paths3, but computes that of one   *)
(* that stands for a constant at every use: hence the two names of each.   *)
(***************************************************************************)
EXTENDS XewTables, TLC

Modules == {"X11", "XCB", "XKBCommon"}
Libs3 == "X11" :> X11Libs @@ "XCB" :> XcbLibs @@ "XKBCommon" :> XkbcommonLibs
Required3 == X11Required \cup XcbRequired \cup XkbcommonRequired
Paths3 == X11Paths @@ XcbPaths @@ XkbcommonPaths
Slots == DOMAIN Paths3

\* The files of run-time libraries, with or without development packages.
Runtime(L) == {Paths3[l][1] : l \in L}
Files == {Paths3[l][i] : l \in Slots, i \in 1..2}
SlotOf(f) == CHOOSE l \in Slots : \E i \in 1..2 : Paths3[l][i] = f

\* libX11 and the libraries of XCB need libxcb; libXinerama and libXcursor need
\* libX11; libX11-xcb is linked against nothing.
Needs(l) ==
  CASE l \in {"x11", "xcb_keysyms", "xcb_icccm", "xcb_xinerama"} -> {"xcb"}
    [] l \in {"x11_xinerama", "x11_cursor"} -> {"x11", "xcb"}
    [] OTHER -> {}
Deps3 == [f \in Files |-> Runtime(Needs(SlotOf(f)))]
\* All libraries but those of K and those that need them.
Without(K) == {l \in Slots : l \notin K /\ Needs(l) \cap K = {}}

\* The lists of functions, cut down to the functions in S.
Used(loaders, S) ==
  [i \in DOMAIN loaders |->
     [loaders[i] EXCEPT !.functions = SelectSeq(@, LAMBDA s : s \in S)]]
SymsIn(S) ==
  "X11" :> InTurn(Used(X11Loaders, S)) @@ "XCB" :> InTurn(Used(XcbLoaders, S))
    @@ "XKBCommon" :> InTurn(Used(XkbcommonLoaders, S))
LibOfIn(S) == LibraryOf(Used(X11Loaders \o XcbLoaders \o XkbcommonLoaders, S))
=============================================================================
