--------------------------- MODULE FunctionTokens ---------------------------
(***************************************************************************)
(* How auto/auto.py makes a Function of the tokens of one declaration:     *)
(* analyze_function_tokens and what it calls.  The spelling of types (the  *)
(* blanks that join_type_tokens and the replacements after it put in or    *)
(* take out) is left out: a type is the sequence of its words.             *)
(***************************************************************************)
EXTENDS Tokenizer

\* Op(v), with v evaluated once.
Given(v, Op(_)) == CHOOSE y \in {Op(x) : x \in {v}} : TRUE

\* Words of a sequence of tokens.
WordsOf(ts) == FlattenSeq([i \in DOMAIN ts |-> ts[i].sp])

\* The words of what is not a comment.
SpokenWords(ts) == FlattenSeq([i \in DOMAIN ts |-> IF IsComment(ts[i]) THEN <<>> ELSE ts[i].sp])

IsPunctuation(token) == token.kind = "punctuation"
IsKeyword(token) == token.kind = "keyword"
IsIdentifier(token) == token.kind = "identifier"

\* struct_code and the like as a token.
FakeToken(words) == [kind |-> "identifier", sp |-> words, first |-> FALSE]

\* A declaration without punctuation is a variable's, or nothing.
IsFunctionPrototype(ts) == \E i \in DOMAIN ts : IsPunctuation(ts[i])

-----------------------------------------------------------------------------
(* The name: the first identifier after the first word of the type.        *)

BeginsType(token) == IsIdentifier(token) \/ (IsKeyword(token) /\ ~Is(token, "extern"))
TypeAt(ts) == SelectInSeq(ts, BeginsType)

\* 0 when the declaration has no name.
NameAt(ts) == IF TypeAt(ts) = 0 THEN 0
              ELSE SelectInSubSeq(ts, TypeAt(ts) + 1, Len(ts), IsIdentifier)
FunctionName(ts) == IF NameAt(ts) = 0 THEN <<>> ELSE ts[NameAt(ts)].sp

-----------------------------------------------------------------------------
(* Parentheses                                                             *)

Count(ts, word, i, j) == Cardinality({k \in i..j : IsPunctuation(ts[k]) /\ Is(ts[k], word)})
Depth(ts, i, j) == Count(ts, "(", i, j) - Count(ts, ")", i, j)

\* Where the first parenthesis that opens after place i opens and closes.
OpenAfter(ts, i) ==
  SelectInSubSeq(ts, i + 1, Len(ts), LAMBDA t : IsPunctuation(t) /\ Is(t, "("))
CloseAfter(ts, i) ==
  CHOOSE j \in OpenAfter(ts, i)..Len(ts) :
    /\ Depth(ts, i + 1, j) = 0
    /\ \A k \in OpenAfter(ts, i)..(j - 1) : Depth(ts, i + 1, k) > 0

-----------------------------------------------------------------------------
(* The return type: what is before the name, and what follows the argument *)
(* list up to _X_SENTINEL, without extern.                                 *)

\* The part that is read at all.
BeforeSentinel(ts) ==
  LET s == SelectInSeq(ts, LAMBDA t : Is(t, "_X_SENTINEL")) IN
    IF s = 0 THEN ts ELSE SubSeq(ts, 1, s - 1)

\* After the list, a parenthesis that closes one opened after the name goes too.
ListEnd(ts, name) ==
  IF name = 0 \/ OpenAfter(ts, name) = 0 THEN Len(ts) ELSE CloseAfter(ts, name)
InReturnType(ts, name, end, j) ==
  /\ ~Is(ts[j], "extern")
  /\ \/ name = 0 \/ j < name
     \/ j > end /\ ~(Is(ts[j], ")") /\ Depth(ts, name + 1, j) = 0)

ReturnType(all) ==
  Given(BeforeSentinel(all), LAMBDA ts :
  Given(NameAt(ts), LAMBDA name :
  Given(ListEnd(ts, name), LAMBDA end :
    FlattenSeq([j \in DOMAIN ts |->
                  IF InReturnType(ts, name, end, j) THEN ts[j].sp ELSE <<>>]))))

-----------------------------------------------------------------------------
(* One argument.                                                           *)

StripLeadingComments(ts) ==
  LET i == SelectInSeq(ts, LAMBDA t : ~IsComment(t)) IN
    IF i = 0 THEN <<>> ELSE SubSeq(ts, i, Len(ts))

\* Comments at the end, all but one; that one too when it documents a member.
IsDocumentation(token) == IsComment(token) /\ Is(token, "<")
LeaveSingleTrailingComment(ts) ==
  LET n == CHOOSE k \in 1..Len(ts) :
             /\ k <= 2 \/ ~(IsComment(ts[k]) /\ IsComment(ts[k - 1]))
             /\ \A j \in (k + 1)..Len(ts) : j > 2 /\ IsComment(ts[j]) /\ IsComment(ts[j - 1])
  IN SubSeq(ts, 1, IF IsDocumentation(ts[n]) THEN n - 1 ELSE n)

\* `struct foo' and `enum foo' become one token.
MergeComplexArgumentTypes(ts) ==
  IF IsKeyword(ts[1]) /\ IsOneOf(ts[1], {"enum", "struct", "union"})
  THEN <<FakeToken(ts[1].sp \o ts[2].sp)>> \o SubSeq(ts, 3, Len(ts))
  ELSE ts

\* Whether the last token is the argument's name.
EndsInName(ts) ==
  LET last == ts[Len(ts)]
      plain == ~IsKeyword(last) /\ ~IsPunctuation(last) IN
    \/ IsComment(last)
    \/ IsOneOf(last, {"len", "str"})
    \/ Len(ts) >= 2 /\ Is(ts[Len(ts) - 1], "*")
    \/ Len(ts) >= 2 /\ IsKeyword(ts[Len(ts) - 1]) /\ plain
    \/ Len(ts) = 2 /\ plain

\* Names that C++ reserves.
Reserved == [class |-> "class_", delete |-> "delete_",
             protected |-> "protected_", new |-> "new_"]
Escaped(name) == IF Len(name) = 1 /\ name[1] \in DOMAIN Reserved
                 THEN <<Reserved[name[1]]>> ELSE name

NameOrType(ts) ==
  LET last == ts[Len(ts)] IN
    IF EndsInName(ts)
    THEN [name |-> Escaped(last.sp), type |-> WordsOf(Front(ts))]
    ELSE [name |-> IF IsOneOf(last, {"void", "...", ")", "]"}) THEN <<>> ELSE <<"arg">>,
          type |-> WordsOf(ts)]
ArgumentInfo(ts) ==
  Given(LeaveSingleTrailingComment(StripLeadingComments(ts)),
        LAMBDA us : Given(MergeComplexArgumentTypes(us), NameOrType))

\* The wide form of a KeyCode, which NeedWidePrototypes chooses, is dropped.  Of the
\* names of such arguments in the wrapped headers, those with keycode in them and kc.
KeycodeNames == {<<"keycode">>, <<"keycode_entry">>, <<"first_keycode">>, <<"kc">>}
IsWideKeycode(arg) == arg.type = <<"unsigned", "int">> /\ arg.name \in KeycodeNames

-----------------------------------------------------------------------------
(* The argument list.                                                      *)

\* A directive among the arguments is passed over up to the word if, else or
\* endif, and up to the condition after if.
DirectiveAt(ts, h) ==
  Given(SelectInSubSeq(ts, h + 1, Len(ts), LAMBDA t : IsOneOf(t, {"if", "else", "endif"})),
        LAMBDA end : h..(IF Is(ts[end], "if") THEN end + 1 ELSE end))
WithoutDirectives(ts) ==
  LET hashes == {h \in DOMAIN ts : IsPunctuation(ts[h]) /\ Is(ts[h], "#")} IN
  Given(UNION {DirectiveAt(ts, h) : h \in hashes}, LAMBDA skipped :
    FlattenSeq([i \in DOMAIN ts |-> IF i \in skipped THEN <<>> ELSE <<ts[i]>>]))

\* The arguments are between the parentheses and the commas not in any others.
Cuts(ts, close) ==
  {i \in OpenAfter(ts, 0)..close :
     \/ i \in {OpenAfter(ts, 0), close}
     \/ IsPunctuation(ts[i]) /\ Is(ts[i], ",") /\ Depth(ts, 1, i) = 1}
Parts(ts, cuts) ==
  LET CutAfter(i) == CHOOSE j \in cuts : j > i /\ \A k \in cuts : k > i => j <= k IN
    FlattenSeq([i \in DOMAIN ts |->
      IF i \in cuts /\ (\E k \in cuts : k > i) /\ CutAfter(i) > i + 1
      THEN <<SubSeq(ts, i + 1, CutAfter(i) - 1)>> ELSE <<>>])
Arguments(ts) ==
  Given(Given(CloseAfter(ts, 0), LAMBDA close :
          Given(Cuts(ts, close), LAMBDA cuts : Parts(ts, cuts))), LAMBDA parts :
    SelectSeq([k \in DOMAIN parts |-> ArgumentInfo(parts[k])],
              LAMBDA arg : ~IsWideKeycode(arg)))

FunctionArguments(ts) ==
  Given(SubSeq(ts, NameAt(ts) + 1, Len(ts)), LAMBDA after :
  Given(WithoutDirectives(after), LAMBDA rest :
    IF NameAt(ts) = 0 \/ OpenAfter(rest, 0) = 0 THEN <<>> ELSE Arguments(rest)))

Function(ts, no_return) ==
  [name |-> FunctionName(ts), returns |-> ReturnType(ts),
   arguments |-> FunctionArguments(ts), no_return |-> no_return]
=============================================================================
