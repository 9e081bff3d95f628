----------------------------- MODULE MCModules -----------------------------
(***************************************************************************)
(* The three modules in one process and a function of each library.        *)
(* libX11 itself needs libxcb, so X11 and XCB share a file that each opens *)
(* and closes.                                                             *)
(***************************************************************************)
EXTENDS WranglerProperties, MCProcess

Syms9 ==
  SymsIn({"XOpenDisplay", "XGetXCBConnection", "XcursorLibraryLoadCursor", "XineramaIsActive",
          "xcb_connect", "xcb_key_symbols_alloc", "xcb_icccm_get_wm_name",
          "xcb_xinerama_is_active", "xkb_context_new"})
Sym9 == UNION {Range(Syms9[m]) : m \in Modules}
LibOf9 == LibOfIn(Sym9)

\* Without any two of the libraries, without the optional ones, with the names
\* of development packages only or besides.
MCInstalls ==
  {Runtime(Without({k, l})) : k, l \in Slots}
  \cup {Runtime(Required3), Runtime(Slots), Files,
        Files \ {"libX11-xcb.so.1", "libxcb-keysyms.so.1", "libxkbcommon.so.1"}}
\* A file defines all of its functions, or lacks one that came late.
MCEditions ==
  {[f \in Files |-> {s \in Sym9 \ Late : LibOf9[s] = SlotOf(f)}]
     : Late \in {{}, {"xcb_xinerama_is_active", "XcursorLibraryLoadCursor"}}}

\* libxcb-keysyms is required, is not closed at exit and needs libxcb.
ASSUME KeysymsNeedXcb == Anchored("XCB")

MCModule == Modules
MCLib == Slots
MCLibs == Libs3
MCRequired == Required3
MCPaths == Paths3
MCSoname == Files
MCDeps == Deps3
MCSym == Sym9
MCSyms == Syms9
MCLibOf == LibOf9
=============================================================================
