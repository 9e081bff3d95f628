---------------------------- MODULE MCGenerator ----------------------------
(***************************************************************************)
(* MODULES as auto/auto.py has it, and editions of the headers with one or *)
(* two functions of each kind: Xlib.h and the others as HeaderParser finds *)
(* them.                                                                   *)
(***************************************************************************)
EXTENDS GeneratorProperties, TLC

Headers(directory, names) == [i \in DOMAIN names |-> <<directory>> \o names[i]]
Library(required, headers) == [required |-> required, headers |-> headers, text |-> ""]

XKBCommon ==
  [name |-> "XKBCommon", lower |-> "xkbcommon", ignore |-> FALSE, wrangle_typedefs |-> TRUE,
   libraries |-> [xkbcommon |-> Library(TRUE, {})],
   headers |-> Headers("xkbcommon",
     <<<<"xkbcommon-names.h">>, <<"xkbcommon-keysyms.h">>, <<"xkbcommon.h">>,
       <<"xkbcommon-compat.h">>, <<"xkbcommon-compose.h">>>>)]
XCB ==
  [name |-> "XCB", lower |-> "xcb", ignore |-> FALSE, wrangle_typedefs |-> TRUE,
   libraries |-> [xcb          |-> Library(TRUE, {"xcb.h", "xproto.h"}),
                  xcb_keysyms  |-> Library(TRUE, {"xcb_keysyms.h"}),
                  xcb_xinerama |-> Library(FALSE, {"xinerama.h"}),
                  xcb_icccm    |-> Library(FALSE, {"xcb_icccm.h"})],
   headers |-> Headers("xcb",
     <<<<"xcb.h">>, <<"xproto.h">>, <<"xcb_icccm.h">>, <<"xcb_keysyms.h">>,
       <<"xinerama.h">>>>)]
X11 ==
  [name |-> "X11", lower |-> "x11", ignore |-> FALSE, wrangle_typedefs |-> FALSE,
   libraries |-> [x11          |-> Library(TRUE, {"XKBlib.h", "Xlib.h", "Xlibint.h", "Xutil.h"}),
                  x11_xcb      |-> Library(TRUE, {"Xlib-xcb.h"}),
                  x11_xinerama |-> Library(FALSE, {"Xinerama.h"}),
                  x11_cursor   |-> [Library(FALSE, {}) EXCEPT !.text = "Xcursor.h"]],
   headers |-> Headers("X11",
     <<<<"Xlib.h">>, <<"Xlib-xcb.h">>, <<"Xlibint.h">>, <<"XKBlib.h">>, <<"Xutil.h">>,
       <<"Xcursor", "Xcursor.h">>, <<"extensions", "Xinerama.h">>>>)]
test ==
  [name |-> "test", lower |-> "test", ignore |-> TRUE, wrangle_typedefs |-> FALSE,
   libraries |-> [test |-> Library(TRUE, {})], headers |-> Headers(".", <<<<"test.h">>>>)]

\* MODULES, and MODULES with a header that was not given to a library yet.
Xresource == <<"X11", "Xresource.h">>
MCTables ==
  {<<XKBCommon, XCB, X11, test>>,
   <<XKBCommon, XCB, [X11 EXCEPT !.headers = Append(@, Xresource)], test>>}

MCDictOrders ==
  {<<"xkbcommon", "xcb", "xcb_keysyms", "xcb_icccm", "xcb_xinerama",
     "x11", "x11_xcb", "x11_xinerama", "x11_cursor">>,
   <<"x11_cursor", "x11_xinerama", "x11_xcb", "x11",
     "xcb_xinerama", "xcb_icccm", "xcb_keysyms", "xcb", "xkbcommon">>,
   <<"x11_xinerama", "xcb_icccm", "x11", "xcb", "xkbcommon",
     "x11_xcb", "xcb_keysyms", "x11_cursor", "xcb_xinerama">>}

-----------------------------------------------------------------------------
(* Functions                                                               *)

Arg(name, type) == [name |-> <<name>>, type |-> type]
Nameless(type) == [name |-> <<>>, type |-> type]
Fn(returns, name, arguments) ==
  [name |-> name, returns |-> returns, arguments |-> arguments, no_return |-> FALSE]
Display == Arg("display", <<"Display", "*">>)
Connection == Arg("c", <<"xcb_connection_t", "*">>)

XSynchronize == Fn(<<"int", "(", "*", ")", "(", "Display", "*", "display", ")">>,
                   "XSynchronize", <<Display, Arg("onoff", <<"Bool">>)>>)
XKeycodeToKeysym == Fn(<<"KeySym">>, "XKeycodeToKeysym",
  <<Display, Arg("keycode", <<"KeyCode">>), Arg("index", <<"int">>)>>)
XIfEvent == Fn(<<"int">>, "XIfEvent",
  <<Display, Arg("event_return", <<"XEvent", "*">>),
    Arg("predicate", <<"Bool", "(", "*", ")", "(", "Display", "*", "display", ",", "XEvent",
                       "*", "event", ",", "XPointer", "arg", ")">>),
    Arg("arg", <<"XPointer">>)>>)
XQueryKeymap == Fn(<<"int">>, "XQueryKeymap",
  <<Display, Arg("keys_return", <<"char", "[", "32", "]">>)>>)
XCreateIC == Fn(<<"XIC">>, "XCreateIC", <<Arg("im", <<"XIM">>), Nameless(<<"...">>)>>)
XFree == Fn(<<"int">>, "XFree", <<Arg("data", <<"void", "*">>)>>)
XGetXCBConnection == Fn(<<"xcb_connection_t", "*">>, "XGetXCBConnection", <<Display>>)
_XIOError == [Fn(<<"int">>, "_XIOError", <<Display>>) EXCEPT !.no_return = TRUE]
Data == Fn(<<"void">>, "Data", <<Display, Arg("data", <<"char", "*">>), Arg("len", <<"long">>)>>)
XkbIgnoreExtension == Fn(<<"Bool">>, "XkbIgnoreExtension", <<Arg("ignore", <<"Bool">>)>>)
XDestroyImage == Fn(<<"int">>, "XDestroyImage", <<Arg("ximage", <<"XImage", "*">>)>>)
XcursorImageHash == Fn(<<"void">>, "XcursorImageHash",
  <<Arg("image", <<"XImage", "*">>),
    Nameless(<<"unsigned", "char", "hash", "[", "XCURSOR_BITMAP_HASH_SIZE", "]">>)>>)
XineramaIsActive == Fn(<<"Bool">>, "XineramaIsActive", <<Display>>)
XrmInitialize == Fn(<<"void">>, "XrmInitialize", <<Nameless(<<"void">>)>>)

xcb_flush == Fn(<<"int">>, "xcb_flush", <<Connection>>)
xcb_discard_reply == Fn(<<"void">>, "xcb_discard_reply",
  <<Connection, Arg("sequence", <<"unsigned", "int">>)>>)
xcb_bell == Fn(<<"xcb_void_cookie_t">>, "xcb_bell", <<Connection, Arg("percent", <<"int8_t">>)>>)
xcb_icccm_set_wm_hints == Fn(<<"xcb_void_cookie_t">>, "xcb_icccm_set_wm_hints",
  <<Connection, Arg("hints", <<"xcb_icccm_wm_hints_t", "*">>)>>)
xcb_key_symbols_free == Fn(<<"void">>, "xcb_key_symbols_free",
  <<Arg("syms", <<"xcb_key_symbols_t", "*">>)>>)
xcb_xinerama_is_active == Fn(<<"xcb_xinerama_is_active_cookie_t">>, "xcb_xinerama_is_active",
  <<Connection>>)

\* Its callback has its name inside of the type.
xkb_context_set_log_fn == Fn(<<"void">>, "xkb_context_set_log_fn",
  <<Arg("context", <<"struct", "xkb_context", "*">>),
    Nameless(<<"void", "(", "*", "log_fn", ")", "(", "struct", "xkb_context", "*", "context",
               ",", "enum", "xkb_log_level", "level", ")">>)>>)
xkb_keymap_ref == Fn(<<"struct", "xkb_keymap", "*">>, "xkb_keymap_ref",
  <<Arg("keymap", <<"struct", "xkb_keymap", "*">>)>>)
xkb_compose_state_reset == Fn(<<"void">>, "xkb_compose_state_reset",
  <<Arg("state", <<"struct", "xkb_compose_state", "*">>)>>)

-----------------------------------------------------------------------------
(* Editions: of long ago, of today, and some that are not read.            *)

Found ==
  <<"xkbcommon", "xkbcommon-names.h">>    :> <<>>
  @@ <<"xkbcommon", "xkbcommon-keysyms.h">> :> <<>>
  @@ <<"xkbcommon", "xkbcommon.h">>         :> <<xkb_context_set_log_fn, xkb_keymap_ref>>
  @@ <<"xkbcommon", "xkbcommon-compat.h">>  :> <<>>
  @@ <<"xkbcommon", "xkbcommon-compose.h">> :> <<xkb_compose_state_reset>>
  @@ <<"xcb", "xcb.h">>         :> <<xcb_flush, xcb_discard_reply>>
  @@ <<"xcb", "xproto.h">>      :> <<xcb_bell>>
  @@ <<"xcb", "xcb_icccm.h">>   :> <<xcb_icccm_set_wm_hints>>
  @@ <<"xcb", "xcb_keysyms.h">> :> <<xcb_key_symbols_free>>
  @@ <<"xcb", "xinerama.h">>    :> <<xcb_xinerama_is_active>>
  @@ <<"X11", "Xlib.h">>        :> <<XSynchronize, XKeycodeToKeysym, XIfEvent, XQueryKeymap,
                                     XCreateIC, XFree>>
  @@ <<"X11", "Xlib-xcb.h">>    :> <<XGetXCBConnection>>
  @@ <<"X11", "Xlibint.h">>     :> <<_XIOError, Data>>
  @@ <<"X11", "XKBlib.h">>      :> <<XkbIgnoreExtension>>
  @@ <<"X11", "Xutil.h">>       :> <<XDestroyImage>>
  @@ <<"X11", "Xcursor", "Xcursor.h">>     :> <<XcursorImageHash>>
  @@ <<"X11", "extensions", "Xinerama.h">> :> <<XineramaIsActive>>
  @@ Xresource                  :> <<XrmInitialize>>
  @@ <<".", "test.h">>          :> <<>>

MCEditions ==
  {Found,
   [Found EXCEPT ![<<"xcb", "xcb.h">>] = <<xcb_flush>>,
                 ![<<"xkbcommon", "xkbcommon-compose.h">>] = <<>>,
                 ![<<"X11", "Xlib.h">>] = Tail(@)],
   [Found EXCEPT ![<<"xcb", "xinerama.h">>] = REFUSED],
   [Found EXCEPT ![<<"X11", "Xutil.h">>] = REFUSED]}

\* A theorem relies on it.
ASSUME TheHeadersDeclarePlainly == HeadersDeclarePlainly
=============================================================================
