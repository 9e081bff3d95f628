----------------------------- MODULE MCExamples -----------------------------
(***************************************************************************)
(* The programs in example/ with the real libraries and all functions that *)
(* they call or ask for, and with their wrappers in the global scope: the  *)
(* library is linked into the programs, which CMake links with -rdynamic.  *)
(***************************************************************************)
EXTENDS Examples, MCProcess

Called ==
  {"XOpenDisplay", "XCloseDisplay", "XFree", "XCreateSimpleWindow", "XSelectInput",
   "XMapWindow", "XNextEvent", "XFillRectangle", "XDrawString", "XGetXCBConnection",
   "XineramaIsActive", "XineramaQueryScreens", "xcb_connect", "xcb_parse_display",
   "xcb_xinerama_is_active", "xcb_xinerama_is_active_unchecked",
   "xcb_xinerama_is_active_reply", "xcb_xinerama_query_screens_unchecked",
   "xcb_xinerama_query_screens_reply", "xcb_xinerama_query_screens_screen_info_iterator",
   "xcb_xinerama_screen_info_next", "xkb_context_new"}
CalledSyms == SymsIn(Called)
CalledLibOf == LibOfIn(Called)

\* All libraries; without those for Xinerama; without one that X11, XCB or
\* XKBCommon requires; with another name for that of XKBCommon.
MCInstalls ==
  {Runtime(Slots),
   Runtime(Slots \ {"x11_xinerama", "x11_cursor", "xcb_xinerama"}),
   Runtime(Slots \ {"x11_xcb", "xkbcommon"}) \cup {"libxkbcommon.so"},
   Runtime(Slots \ {"xcb_keysyms", "xkbcommon"})}
\* Files that define all of their functions, and files of old.
MCEditions ==
  {[f \in Files |-> {s \in Called \ Late : CalledLibOf[s] = SlotOf(f)}]
     : Late \in {{}, {"XineramaIsActive", "xcb_xinerama_is_active", "xkb_context_new"}}}

MCModule == Modules
MCLib == Slots
MCLibs == Libs3
MCRequired == Required3
MCPaths == Paths3
MCSoname == Files
MCDeps == Deps3
MCSym == Called
MCSyms == CalledSyms
MCLibOf == CalledLibOf

ASSUME TheLibrariesSuffice == LibrariesSuffice /\ ExportedTogether /\ XkbcommonAlone
=============================================================================
