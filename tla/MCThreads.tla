----------------------------- MODULE MCThreads -----------------------------
(***************************************************************************)
(* Threads that initialise one module with no lock: XCB cut down to one    *)
(* required library with two names and one optional library with one.      *)
(***************************************************************************)
EXTENDS WranglerProperties, MCProcess

XcbOf2 == [XCB |-> <<"xcb", "xcb_xinerama">>]
Paths2 == [xcb |-> XcbPaths.xcb, xcb_xinerama |-> SubSeq(XcbPaths.xcb_xinerama, 1, 1)]
Syms2 == [XCB |-> <<"xcb_connect", "xcb_xinerama_is_active">>]
Sym2 == Range(Syms2.XCB)
LibOf2 == [s \in Sym2 |-> XcbLibOf[s]]
Files2 == UNION {Range(Paths2[l]) : l \in DOMAIN Paths2}
Deps2 == [f \in Files2 |-> Deps3[f]]

MCSoname == Files2
MCSym == Sym2
MCDeps == Deps2
MCInstalls == {S \in SUBSET Files2 : \A f \in S : Deps2[f] \subseteq S}
MCEditions == {[f \in Files2 |-> {s \in Sym2 : LibOf2[s] = SlotOf(f)}]}
MCLib == DOMAIN Paths2
MCLibs == XcbOf2
MCRequired == {"xcb"}
MCPaths == Paths2
MCSyms == Syms2
MCLibOf == LibOf2
=============================================================================
