---------------------------- MODULE FunctionCode ----------------------------
(***************************************************************************)
(* The C code that auto/auto.py makes of one Function (FunctionTokens): a  *)
(* type, a declaration, a wrapper that calls the functor, or a macro.  A   *)
(* piece of code is the sequence of its words, without the layout.         *)
(***************************************************************************)
EXTENDS Integers, Sequences, SequencesExt

\* "foo" with a prefix or a suffix is one word still.
TypeOf(name) == "t" \o name
ImplOf(name) == name \o "_impl"

IsMarkWord(w) == w \in {"(", ")", "*", "[", "]", ",", "..."}
EndsPointer(type, i) == i > 2 /\ SubSeq(type, i - 2, i) = <<"(", "*", ")">>
HasPointer(type) == \E i \in DOMAIN type : EndsPointer(type, i)

\* A type with something inside of every (*) of it.
InPointer(type, words) ==
  FlattenSeq([i \in DOMAIN type |->
                IF EndsPointer(type, i) THEN words \o <<")">> ELSE <<type[i]>>])

HasVarargs(f) == \E i \in DOMAIN f.arguments : f.arguments[i].type = <<"...">>

-----------------------------------------------------------------------------
(* The argument list of a declaration.  The wide form of a KeyCode is the  *)
(* one that NeedWidePrototypes selects.                                    *)

IsArray(arg) == ~HasPointer(arg.type) /\ Contains(arg.type, "[")
Parameter(arg, wide) ==
  IF arg.type = <<"KeyCode">> /\ wide THEN <<"unsigned", "int">> \o arg.name
  ELSE IF HasPointer(arg.type) THEN InPointer(arg.type, arg.name)
  ELSE IF IsArray(arg)
  THEN FlattenSeq([i \in DOMAIN arg.type |->
                     IF arg.type[i] = "[" THEN arg.name \o <<"[">> ELSE <<arg.type[i]>>])
  ELSE arg.type \o arg.name

\* There is no comma after an array.
Parameters(f, wide) ==
  FlattenSeq([i \in DOMAIN f.arguments |->
                Parameter(f.arguments[i], wide)
                  \o IF i = Len(f.arguments) \/ IsArray(f.arguments[i]) THEN <<>> ELSE <<",">>])
ArgumentList(f, wide) == <<"(">> \o Parameters(f, wide) \o <<")">>

\* The declarator of a name, also where a function returns a pointer to one.
Declaring(f, declarator, wide) ==
  IF HasPointer(f.returns) THEN InPointer(f.returns, declarator \o ArgumentList(f, wide))
  ELSE f.returns \o declarator \o ArgumentList(f, wide)

\* A mistake for FunctionDeclaration: every type is put before the name.
PlainDeclaration(f, wide) == f.returns \o <<f.name>> \o ArgumentList(f, wide)
FunctionDeclaration(f, wide) == Declaring(f, <<f.name>>, wide)
FunctionTypedef(f, wide) ==
  <<"typedef">> \o Declaring(f, <<"(", "*", TypeOf(f.name), ")">>, wide)

\* For the header: here the (*) of the return type is lost.
HeaderDeclaration(f, wide) ==
  IF HasPointer(f.returns)
  THEN FlattenSeq([i \in DOMAIN f.returns |->
         IF EndsPointer(f.returns, i) THEN <<f.name>> \o ArgumentList(f, wide)
         ELSE IF \E j \in {i + 1, i + 2} \cap DOMAIN f.returns : EndsPointer(f.returns, j)
         THEN <<>> ELSE <<f.returns[i]>>])
  ELSE FunctionDeclaration(f, wide)

-----------------------------------------------------------------------------
(* The names that a wrapper hands over.                                    *)

HasUnderscore(w) == \E i \in 1..Len(w) : SubSeq(w, i, i) = "_"

\* The words before the first mark; all of the words but those.
Lead(type) ==
  LET i == SelectInSeq(type, IsMarkWord) IN IF i = 0 THEN type ELSE SubSeq(type, 1, i - 1)
Tail_(type) == SubSeq(type, Len(Lead(type)) + 1, Len(type))

\* A mistake for ArgumentName: the name inside the type of an array is not looked for.
ArgumentNameOfPointer(arg) ==
  IF arg.name # <<>> THEN arg.name
  ELSE IF Len(Tail_(arg.type)) > 2 THEN <<Tail_(arg.type)[3]>> ELSE <<>>
ArgumentName(arg) ==
  IF arg.name # <<>> THEN arg.name
  ELSE IF arg.type = <<"void">> THEN <<>>
  ELSE IF Last(arg.type) = "]"
  THEN IF Tail_(arg.type)[1] = "[" THEN <<Last(Lead(arg.type))>> ELSE arg.type
  ELSE IF \/ \E i \in DOMAIN Lead(arg.type) : HasUnderscore(Lead(arg.type)[i])
          \/ ~IsPrefix(<<"(", "*">>, Tail_(arg.type))
  THEN <<"MISSING_ARGUMENT">>
  ELSE IF IsMarkWord(Tail_(arg.type)[3]) THEN Tail_(arg.type) ELSE <<Tail_(arg.type)[3]>>

\* Functions that are declared in a condition of their own.
Guards ==
  [WIN32                  |-> {"_XOpenFileMode", "_XOpenFile", "_XFopenFile", "_XAccessFile"},
   __UNIXOS2__            |-> {"__XOS2RedirRoot"},
   DataRoutineIsProcedure |-> {"Data"},
   XUTIL_DEFINE_FUNCTIONS |->
     {"XDestroyImage", "XGetPixel", "XPutPixel", "XSubImage", "XAddPixel"}]
Conditions(name) == {c \in DOMAIN Guards : name \in Guards[c]}

Wrapper(f) ==
  [name |-> f.name, when |-> Conditions(f.name),
   declared |-> [wide \in BOOLEAN |-> FunctionDeclaration(f, wide)],
   calls |-> ImplOf(f.name),
   with |-> [i \in DOMAIN f.arguments |-> ArgumentName(f.arguments[i])],
   \* return what the functor returns, or abort
   then |-> IF f.no_return THEN "abort" ELSE "return"]
Macro(f) == [name |-> f.name, expands |-> ImplOf(f.name)]
=============================================================================
