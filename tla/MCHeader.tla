------------------------------ MODULE MCHeader ------------------------------
(***************************************************************************)
(* Headers for HeaderProperties: pieces in the manner of Xlib.h,           *)
(* Xlibint.h, XKBlib.h, xcb.h and xkbcommon.h, with what each is to        *)
(* contribute, in every order, with and without guards.                    *)
(***************************************************************************)
EXTENDS HeaderProperties

Spelled(kind, word) == [kind |-> kind, sp |-> <<word>>, first |-> FALSE]
K(word) == Spelled("keyword", word)
I(word) == Spelled("identifier", word)
P(word) == Spelled("punctuation", word)
C(word) == Spelled("comment", word)
L(word) == Spelled("literal", word)

\* Tokens of lines, the first of each marked.
Row(ts) == [ts EXCEPT ![1].first = TRUE]
Text(lines) == FlattenSeq([i \in DOMAIN lines |-> Row(lines[i])])

Piece(lines, entries, names) ==
  [tokens |-> Text(lines), entries |-> entries, guard |-> FALSE, declares |-> names,
   refused |-> FALSE]
Guard(lines, entries) ==
  [tokens |-> Text(lines), entries |-> entries, guard |-> TRUE, declares |-> <<>>,
   refused |-> FALSE]

\* A piece that is kept word for word, without its comments.
Kept(lines) ==
  Piece(lines, <<Code(WordsOf(SelectSeq(Text(lines), LAMBDA t : ~IsComment(t))))>>, <<>>)
Dropping(lines) == Piece(lines, <<>>, <<>>)

Arg(name, type) == [name |-> name, type |-> type]
Declaring(lines, name, returns, arguments, no_return) ==
  Piece(lines,
        <<Reference([name |-> <<name>>, returns |-> returns, arguments |-> arguments,
                     no_return |-> no_return])>>,
        <<<<name>>>>)

-----------------------------------------------------------------------------
(* Functions                                                               *)

DisplayArg == <<I("Display"), P("*"), C("display")>>
DisplayPointer == Arg(<<"display">>, <<"Display", "*">>)

XKeycodeToKeysym == Declaring(
  <<<<K("extern"), I("KeySym"), I("XKeycodeToKeysym"), P("(")>>,
    DisplayArg \o <<P(",")>>,
    <<P("#"), K("if"), I("NeedWidePrototypes")>>,
    <<K("unsigned"), K("int"), C("keycode"), P(",")>>,
    <<P("#"), K("else")>>,
    <<I("KeyCode"), C("keycode"), P(",")>>,
    <<P("#"), I("endif")>>,
    <<K("int"), C("index")>>,
    <<P(")"), P(";")>>>>,
  "XKeycodeToKeysym", <<"KeySym">>,
  <<DisplayPointer, Arg(<<"keycode">>, <<"KeyCode">>), Arg(<<"index">>, <<"int">>)>>, FALSE)

\* Returns a pointer to a function.
XSynchronize == Declaring(
  <<<<K("extern"), K("int"), P("("), P("*"), I("XSynchronize"), P("(")>>,
    DisplayArg \o <<P(",")>>,
    <<I("Bool"), C("onoff")>>,
    <<P(")"), P(")"), P("(")>>, DisplayArg, <<P(")"), P(";")>>>>,
  "XSynchronize", <<"int", "(", "*", ")", "(", "Display", "*", "display", ")">>,
  <<DisplayPointer, Arg(<<"onoff">>, <<"Bool">>)>>, FALSE)

\* So does this one, and its name is that of a pointer to a function.
XSetAfterFunction == Declaring(
  <<<<K("extern"), K("int"), P("("), P("*"), I("XSetAfterFunction"), P("(")>>,
    DisplayArg,
    <<P(")"), P(")"), P("(")>>, DisplayArg, <<P(")"), P(";")>>>>,
  "XSetAfterFunction", <<"int", "(", "*", ")", "(", "Display", "*", "display", ")">>,
  <<DisplayPointer>>, FALSE)

XCreateIC == Declaring(
  <<<<K("extern"), I("XIC"), I("XCreateIC"), P("(")>>,
    <<I("XIM"), C("im"), P(","), P("..."), C("<")>>,
    <<P(")"), I("_X_SENTINEL"), P("("), L("0"), P(")"), P(";")>>>>,
  "XCreateIC", <<"XIC">>,
  <<Arg(<<"im">>, <<"XIM">>), Arg(<<>>, <<"...">>)>>, FALSE)

_XIOError == Declaring(
  <<<<K("extern"), K("int"), I("_XIOError"), P("(")>>, DisplayArg,
    <<P(")"), I("_X_NORETURN"), P(";")>>>>,
  "_XIOError", <<"int">>, <<DisplayPointer>>, TRUE)

\* Without extern; the first as xcb.h has it, the others as xkbcommon.h.
xcb_get_setup == Declaring(
  <<<<C("*")>>,
    <<K("const"), K("struct"), I("xcb_setup_t"), P("*"), I("xcb_get_setup"), P("("),
      I("xcb_connection_t"), P("*"), I("c"), P(")"), P(";")>>>>,
  "xcb_get_setup", <<"const", "struct", "xcb_setup_t", "*">>,
  <<Arg(<<"c">>, <<"xcb_connection_t", "*">>)>>, FALSE)
xkb_keymap_new == Declaring(
  <<<<K("struct"), I("xkb_keymap"), P("*")>>,
    <<I("xkb_keymap_new"), P("("), K("struct"), I("xkb_context"), P("*"), I("context"),
      P(","), K("enum"), I("xkb_keymap_flags"), I("flags"), P(")"), P(";")>>>>,
  "xkb_keymap_new", <<"struct", "xkb_keymap", "*">>,
  <<Arg(<<"context">>, <<"struct", "xkb_context", "*">>),
    Arg(<<"flags">>, <<"enum", "xkb_keymap_flags">>)>>, FALSE)
xkb_get_log_level == Declaring(
  <<<<K("enum"), I("xkb_log_level")>>,
    <<I("xkb_get_log_level"), P("("), K("void"), P(")"), P(";")>>>>,
  "xkb_get_log_level", <<"enum", "xkb_log_level">>, <<Arg(<<>>, <<"void">>)>>, FALSE)

-----------------------------------------------------------------------------
(* Variables and what else is dropped                                      *)

_XFreeMutex_fn == Dropping(
  <<<<K("extern"), K("void"), P("("), P("*"), I("_XFreeMutex_fn"), P(")"), P("(")>>,
    <<I("LockInfoPtr"), C("lock")>>, <<P(")"), P(";")>>>>)
_Xglobal_lock == Dropping(<<<<K("extern"), I("LockInfoPtr"), I("_Xglobal_lock"), P(";")>>>>)
Include == Dropping(<<<<P("#"), I("include"), L("<X11/X.h>")>>, <<C("The")>>>>)
Prototypes == Dropping(<<<<I("_XFUNCPROTOBEGIN")>>>>)

-----------------------------------------------------------------------------
(* Types                                                                   *)

\* Directives inside of a typedef, as XLIB_ILLEGAL_ACCESS puts them.
_XPrivDisplay == Kept(
  <<<<K("typedef"), K("struct")>>,
    <<P("#"), I("ifdef"), I("XLIB_ILLEGAL_ACCESS")>>,
    <<I("_XDisplay")>>,
    <<P("#"), I("endif")>>,
    <<P("{"), I("XExtData"), P("*"), I("ext_data"), P(";"), C("hook")>>,
    <<K("struct"), I("_XPrivate"), P("*"), I("private1"), P(";")>>,
    <<K("union"), P("{"), K("int"), I("a"), P(";"), P("}"), I("u"), P(";")>>,
    <<P("}")>>,
    <<P("#"), I("ifdef"), I("XLIB_ILLEGAL_ACCESS")>>,
    <<I("Display"), P(",")>>,
    <<P("#"), I("endif")>>,
    <<P("*"), I("_XPrivDisplay"), P(";")>>>>)
Visual == Kept(
  <<<<K("struct"), I("Visual"), P("{")>>,
    <<P("#"), K("if"), I("cpp")>>,
    <<K("int"), I("c_class"), P(";")>>,
    <<P("#"), K("else")>>,
    <<K("int"), K("class"), P(";")>>,
    <<P("#"), I("endif")>>,
    <<P("}"), P(";")>>>>)
_XPrivate == Kept(<<<<K("struct"), I("_XPrivate"), P(";"), C("Forward")>>>>)
XIDProc == Kept(
  <<<<K("typedef"), K("void"), P("("), P("*"), I("XIDProc"), P(")"), P("(")>>,
    <<I("Display"), P("*"), P(","), K("int"), P("("), P("*"), P(")"), P("("), I("XID"),
      P(")"), C("callback"), P(")"), P(";")>>>>)
XEventQueueOwner == Kept(
  <<<<K("enum"), I("XEventQueueOwner"), P("{"), I("XlibOwnsEventQueue"), P("="), L("0"),
      P(","), I("XCBOwnsEventQueue"), P("}"), P(";")>>>>)
xkb_level == Kept(
  <<<<K("typedef"), K("enum"), P("{"), I("XKB_A"), P("}"), I("xkb_level"), P(";")>>>>)
Define == Kept(<<<<P("#"), I("define"), I("XKB_MOD_NAME_SHIFT"), L("\"Shift\"")>>>>)

-----------------------------------------------------------------------------
(* Guards                                                                  *)

Open == Guard(<<<<P("#"), I("ifndef"), I("_XLIB_H_")>>, <<P("#"), I("define"), I("_XLIB_H_")>>>>,
              <<Code(<<"#", "ifndef", "_XLIB_H_">>), Code(<<"#", "define", "_XLIB_H_">>)>>)
Close == Guard(<<<<P("#"), I("endif")>>, <<C("_XLIB_H_")>>>>, <<Code(<<"#", "endif">>)>>)
Cplusplus == <<Code(<<"#", "ifdef", "__cplusplus">>), Code(<<"#", "endif">>)>>
OpenC == Guard(<<<<P("#"), I("ifdef"), I("__cplusplus")>>,
                 <<K("extern"), L("\"C\""), P("{")>>, <<P("#"), I("endif")>>>>, Cplusplus)
CloseC == Guard(<<<<P("#"), I("ifdef"), I("__cplusplus")>>,
                  <<P("}"), C("extern")>>, <<P("#"), I("endif")>>>>, Cplusplus)

-----------------------------------------------------------------------------
(* What the parser refuses                                                 *)

Refusing(lines) == [Piece(lines, <<>>, <<>>) EXCEPT !.refused = TRUE]

EnumInStruct == Refusing(
  <<<<K("struct"), I("A"), P("{"), K("enum"), I("B"), I("b"), P(";"), P("}"), P(";")>>>>)
IncludeInStruct == Refusing(
  <<<<K("struct"), I("A")>>, <<P("#"), I("include"), L("<A.h>")>>, <<P(";")>>>>)
LoneHash == Refusing(<<<<P("#")>>, <<C("nothing")>>>>)
UnclosedPointer == Refusing(
  <<<<K("typedef"), K("void"), P("("), P("*"), I("A"), P(";")>>>>)
HashInTypedef == Refusing(<<<<K("typedef"), K("int")>>, <<P("#")>>, <<I("A"), P(";")>>>>)

-----------------------------------------------------------------------------
(* Headers                                                                 *)

\* As X11, as XCB and xkbcommon, and as xkbcommon-names.h and -keysyms.h.
Plain(body) == <<Open>> \o body \o <<Close>>
Linked(body) == <<Open, OpenC>> \o body \o <<CloseC, Close>>

Pieces ==
  {XKeycodeToKeysym, XSynchronize, XCreateIC, _XIOError, xcb_get_setup, xkb_keymap_new,
   xkb_get_log_level, _XFreeMutex_fn, _Xglobal_lock, Include, Prototypes, _XPrivDisplay,
   Visual, _XPrivate, XIDProc, XEventQueueOwner, xkb_level, Define}

\* Pieces that leave something in the parser's state that the next could meet.
Sticky == {XSynchronize, _XIOError, xcb_get_setup, xkb_get_log_level, _XFreeMutex_fn,
           _Xglobal_lock, _XPrivate}

MCReadHeaders ==
  {Plain(<<p, q>>) : p, q \in Pieces}
  \cup {<<p, q>> : p, q \in Pieces}
  \cup {Linked(<<p, q, r>>) : p, q, r \in Sticky}
MCRefusedHeaders ==
  {Linked(<<p, r, q>>) : p, q \in {Define, _XPrivDisplay, xkb_keymap_new},
                         r \in {EnumInStruct, IncludeInStruct, LoneHash, HashInTypedef,
                               UnclosedPointer, Visual}}
MCHeaders == MCReadHeaders \cup MCRefusedHeaders
MCPointerHeaders ==
  {Plain(<<p, XSetAfterFunction, q>>) : p, q \in {XSynchronize, _XIOError, Define}}

MCIgnoreTokens == {"_XFUNCPROTOBEGIN", "_XFUNCPROTOEND", "_X_DEPRECATED"}
MCPointerNames == {"_XFreeMutex_fn", "XSetAfterFunction"}
=============================================================================
