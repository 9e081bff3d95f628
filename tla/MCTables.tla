----------------------------- MODULE MCTables -----------------------------
(***************************************************************************)
(* The three modules in one process with all of their 1605 functions.      *)
(***************************************************************************)
EXTENDS CallSites, MCProcess

AllDeclares ==
  DeclaredBy(X11Wrappers \cup X11Macros, X11Headers)
    @@ DeclaredBy(XcbWrappers \cup XcbMacros, XcbHeaders)
    @@ DeclaredBy(XkbcommonWrappers \cup XkbcommonMacros, XkbcommonHeaders)
AllSym == UNION Range(AllDeclares)
AllLibOf == X11LibOf @@ XcbLibOf @@ XkbcommonLibOf
AllSyms == "X11" :> InTurn(X11Loaders) @@ "XCB" :> InTurn(XcbLoaders)
             @@ "XKBCommon" :> InTurn(XkbcommonLoaders)
AllWrapped == Declared(X11Wrappers \cup XcbWrappers \cup XkbcommonWrappers) \ X11Guarded
AllMacros == Declared(X11Macros \cup XcbMacros \cup XkbcommonMacros)

\* The run-time libraries: all of them, without the optional ones, or without
\* a required one.
MCInstalls ==
  {Runtime(Slots), Runtime(Required3), Runtime(Slots \ {"x11_xcb"})}
\* The functions of today and of a time before some of them were written.
MCLate == {"XGetEventData", "XFreeEventData", "XcursorSetThemeCore", "xcb_discard_reply64",
           "xcb_poll_for_special_event", "xkb_keysym_to_upper", "xkb_compose_table_new_from_buffer"}
MCEditions == {[f \in Files |-> AllDeclares[SlotOf(f)] \ Late] : Late \in {{}, MCLate}}

MCModule == Modules
MCLib == Slots
MCLibs == Libs3
MCRequired == Required3
MCPaths == Paths3
MCSoname == Files
MCDeps == Deps3
MCSym == AllSym
MCSyms == AllSyms
MCLibOf == AllLibOf
MCDeclares == AllDeclares
MCWrapped == AllWrapped
MCMacros == AllMacros
=============================================================================
