----------------------------- MODULE XewTables -----------------------------
(***************************************************************************)
(* The tables that make the wrangling logic into the modules XKBCommon,    *)
(* XCB and X11: the library slots of each module in the order its          *)
(* openLibraries fills them, which of them it requires, the names it tries *)
(* on Linux, and, from the lists of functions, the functors in the order   *)
(* they are fetched and the slot each is looked up in.  The generator's    *)
(* own table says which header describes which library.                    *)
(***************************************************************************)
EXTENDS X11Functions, XcbFunctions, XkbcommonFunctions, SequencesExt

XkbcommonLibs == <<"xkbcommon">>
XkbcommonRequired == {"xkbcommon"}
XkbcommonPaths == [xkbcommon |-> <<"libxkbcommon.so.1", "libxkbcommon.so">>]
\* The only library of a module needs no list of its headers.
XkbcommonHeaders == [xkbcommon |-> {"xkbcommon.h", "xkbcommon-compose.h"}]

XcbLibs == <<"xcb", "xcb_keysyms", "xcb_icccm", "xcb_xinerama">>
XcbRequired == {"xcb", "xcb_keysyms"}
XcbPaths ==
  [xcb          |-> <<"libxcb.so.1", "libxcb.so">>,
   xcb_keysyms  |-> <<"libxcb-keysyms.so.1", "libxcb-keysyms.so">>,
   xcb_icccm    |-> <<"libxcb-icccm.so.4", "libxcb-icccm.so">>,
   xcb_xinerama |-> <<"libxcb-xinerama.so.0", "libxcb-xinerama.so">>]
XcbHeaders ==
  [xcb          |-> {"xcb.h", "xproto.h"},
   xcb_keysyms  |-> {"xcb_keysyms.h"},
   xcb_icccm    |-> {"xcb_icccm.h"},
   xcb_xinerama |-> {"xinerama.h"}]

X11Libs == <<"x11", "x11_xcb", "x11_xinerama", "x11_cursor">>
X11Required == {"x11", "x11_xcb"}
X11Paths ==
  [x11          |-> <<"libX11.so.6", "libX11.so">>,
   x11_xcb      |-> <<"libX11-xcb.so.1", "libX11-xcb.so">>,
   x11_xinerama |-> <<"libXinerama.so.1", "libXinerama.so">>,
   x11_cursor   |-> <<"libXcursor.so.1", "libXcursor.so">>]
X11Headers ==
  [x11          |-> {"XKBlib.h", "Xlib.h", "Xlibint.h", "Xutil.h"},
   x11_xcb      |-> {"Xlib-xcb.h"},
   x11_xinerama |-> {"Xinerama.h"},
   x11_cursor   |-> {"Xcursor.h"}]

-----------------------------------------------------------------------------
(* How the lists are read. *)

\* A mistake that the list could contain: its last header is left out.
InTurnButLast(loaders) ==
  FlattenSeq([i \in 1..(Len(loaders) - 1) |-> loaders[i].functions])

\* All look-ups of a module, one after the other.
InTurn(loaders) == FlattenSeq([i \in DOMAIN loaders |-> loaders[i].functions])

\* The slot each functor is looked up in.
LibraryOf(loaders) ==
  FoldLeft(LAMBDA f, b : f @@ [s \in Range(b.functions) |-> b.library], <<>>, loaders)
XkbcommonLibOf == LibraryOf(XkbcommonLoaders)
XcbLibOf == LibraryOf(XcbLoaders)
X11LibOf == LibraryOf(X11Loaders)

\* The functions that some headers declare, and those of each library.
Declared(parts) == UNION {Range(p.functions) : p \in parts}
DeclaredBy(parts, headers) ==
  [l \in DOMAIN headers |-> Declared({p \in parts : p.header \in headers[l]})]
=============================================================================
