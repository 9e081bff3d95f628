---------------------------- MODULE HeaderParser ----------------------------
(***************************************************************************)
(* parse_header of auto/auto.py: the state machine that turns one header   *)
(* into a list of entries - pieces of code to be repeated as they are, and *)
(* references to functions - with parse_preprocessor, parse_struct_as_is,  *)
(* parse_typedef_as_is and parse_enum_as_is, which it calls, and the       *)
(* stripping of header guards and linkage specifications afterwards.       *)
(*                                                                         *)
(* The procedures in progress are a stack; its bottom frame is the loop of *)
(* parse_header.  Code is the sequence of its words, without the layout    *)
(* that the program gives it; a directive is read in one step.             *)
(***************************************************************************)
EXTENDS FunctionTokens

CONSTANTS
  Headers,          \* the headers that may be parsed: sequences of pieces, each
                    \* a record whose field tokens is a sequence of tokens
  IgnoreTokens,     \* words of the module's "ignore_tokens"
  PointerNames,     \* names that end in "_fn" or in "Function"
  WrangleTypedefs   \* the module's "wrangle-typedefs"

\* Headers are made of tokens, and None is none.
ASSUME HeadersAssumption ==
  /\ NONE \notin Token
  /\ \A h \in Headers : [i \in DOMAIN h |-> h[i].tokens] \in Seq(Seq(Token))

AttrNoReturn == {"_X_NORETURN"}
AttrIgnore == {"_XLIB_COLD"}

VARIABLES
  header,           \* the header, as pieces; never read by the program
  decl,             \* the declaration being read: in_extern and what goes with it
  functions,        \* parse_context.functions
  file_structure,   \* parse_context.file_structure
  stack,            \* procedures in progress, innermost last
  ret,              \* code that the last procedure returned
  phase,            \* "parse", "guards", "linkage", "done" or "raised"
  output            \* what combine_file_structure returned

resultVars == <<functions, file_structure>>
callVars == <<stack, ret>>
vars == <<tokenizerVars, header, decl, resultVars, callVars, phase, output>>

Frame(at) == [at |-> at, next |-> NONE, code |-> <<>>]
NoDeclaration ==
  [in_extern |-> FALSE, tokens |-> <<>>, first_bracket |-> FALSE, no_star |-> FALSE,
   need_check |-> FALSE, no_return |-> FALSE]

Init ==
  /\ header \in Headers
  /\ tokens = FlattenSeq([i \in DOMAIN header |-> header[i].tokens])
  /\ TokenizerInit
  /\ decl = NoDeclaration
  /\ functions = <<>> /\ file_structure = <<>>
  /\ stack = <<Frame("loop")>> /\ ret = <<>>
  /\ phase = "parse" /\ output = <<>>

-----------------------------------------------------------------------------
(* Entries, and the procedures in progress.                                *)

Code(words) == [type |-> "code", code |-> words]
Reference(function) == [type |-> "function", function |-> function]
AddEntry(entry) == file_structure' = Append(file_structure, entry)

Top == Last(stack)
At(at) == Top.at = at
Words(next) == Top.code \o next.sp
IsMark(token, word) == IsPunctuation(token) /\ Is(token, word)
IsAggregate(token) == IsKeyword(token) /\ IsOneOf(token, {"struct", "union"})
IsEnum(token) == IsKeyword(token) /\ Is(token, "enum")

Goto(at, next, code) ==
  /\ stack' = Append(Front(stack), [Top EXCEPT !.at = at, !.next = next, !.code = code])
  /\ UNCHANGED ret
Call(procedure, resume) ==
  /\ stack' = Front(stack) \o <<[Top EXCEPT !.at = resume], Frame(procedure)>>
  /\ UNCHANGED ret
Return(code) ==
  /\ stack' = Front(stack)
  /\ ret' = code

\* A token is read and the procedure goes on at `at' with it as next_token.
ReadOn(at, code) == Read(TRUE) /\ Goto(at, NextToken(TRUE), code)
Stay(at) == Goto(at, Top.next, Top.code) /\ UNCHANGED tokenizerVars

\* A mistake for Begin: the keyword is looked at and not read.
BeginPeeking(at) ==
  /\ ~CanPush
  /\ current' = PastUnread(TRUE)
  /\ UNCHANGED <<tokens, next_token>>
  /\ Goto(at, Unread(TRUE), next_token.sp)

\* A procedure begins with the keyword that its caller put back.
Begin(at) == ReadBoth(TRUE) /\ Goto(at, Unread(TRUE), next_token.sp)

\* Without a semicolon a type is part of a typedef, a field or a declaration.
HandBack ==
  IF IsMark(Top.next, ";") THEN Return(Words(Top.next)) /\ UNCHANGED tokenizerVars
  ELSE Push(Top.next) /\ Return(Top.code)

-----------------------------------------------------------------------------
(* parse_preprocessor, for a # at place i.                                 *)

LineEnd(i) ==
  CHOOSE j \in i..Len(tokens) :
    /\ j = Len(tokens) \/ tokens[j + 1].first
    /\ \A k \in (i + 1)..j : ~tokens[k].first
IsInclude(i) == Is(tokens[i + 1], "include")
Line(i) == WordsOf(SubSeq(tokens, i, LineEnd(i)))

\* The loop stops at the first token of the next line.
AfterLine(i) == IF LineEnd(i) = Len(tokens) THEN NONE ELSE tokens[LineEnd(i) + 1]
\* A mistake for PastLine: the token that comes after is put back and read again.
PastLineOnly(i) ==
  /\ current' = LineEnd(i) + 1
  /\ UNCHANGED tokens
\* A mistake for PastLine: a token of the next line is taken for granted.
PastLineAndOne(i) ==
  /\ current' = LineEnd(i) + 2
  /\ UNCHANGED tokens
PastLine(i) ==
  /\ current' = IF AfterLine(i) = NONE THEN LineEnd(i) + 1 ELSE LineEnd(i) + 2
  /\ UNCHANGED tokens

\* A # alone is put back and then the token of the next line too.
NoDirective(i) == i = LineEnd(i)

-----------------------------------------------------------------------------
(* parse_struct_as_is                                                      *)

\* struct_workaround_illegal_access: where it is called, what comes after.
Workaround == [tag |-> "named", brace |-> "open", close |-> "end"]

SkipDirective(then) ==
  /\ Is(Top.next, "#")
  /\ PastLine(LastRead) /\ next_token' = NONE
  /\ Goto(then, AfterLine(LastRead), Top.code \o Line(LastRead))
StructWorkaround ==
  /\ Top.at \in DOMAIN Workaround
  /\ \/ SkipDirective(Workaround[Top.at])
     \/ ~Is(Top.next, "#") /\ Stay(Workaround[Top.at])

StructKeyword == At("struct") /\ Begin("tag")
StructName ==
  /\ At("named")
  /\ IF IsIdentifier(Top.next) THEN ReadOn("brace", Words(Top.next)) ELSE Stay("brace")
StructOpen ==
  /\ At("open")
  /\ IF IsMark(Top.next, "{") THEN ReadOn("fields", Words(Top.next)) ELSE Stay("close")

\* A field begins with a directive, a struct of its own, or anything else.
FieldDirective == At("fields") /\ Top.next # NONE /\ SkipDirective("fields")
FieldStruct ==
  /\ At("fields") /\ Top.next # NONE /\ IsAggregate(Top.next)
  /\ Push(Top.next) /\ Call("struct", "nested")
FieldAfterStruct == At("nested") /\ ReadOn("field", Top.code \o ret)
FieldOther ==
  /\ At("fields") /\ Top.next # NONE
  /\ ~IsOneOf(Top.next, {"}", "#"}) /\ ~IsAggregate(Top.next)
  /\ Stay("field")
FieldToken ==
  /\ At("field") /\ Top.next # NONE /\ ~Is(Top.next, ";")
  /\ ReadOn("field", Words(Top.next))
FieldEnd ==
  /\ At("field") /\ (Top.next = NONE \/ Is(Top.next, ";"))
  /\ ReadOn("fields", Append(Top.code, ";"))
StructClose ==
  /\ At("fields") /\ (Top.next = NONE \/ Is(Top.next, "}"))
  /\ ReadOn("close", Append(Top.code, "}"))
StructEnd == At("end") /\ HandBack

ParseStruct ==
  \/ StructKeyword \/ StructWorkaround \/ StructName \/ StructOpen
  \/ FieldDirective \/ FieldStruct \/ FieldAfterStruct \/ FieldOther
  \/ FieldToken \/ FieldEnd \/ StructClose \/ StructEnd

-----------------------------------------------------------------------------
(* parse_enum_as_is                                                        *)

EnumKeyword == At("enum") /\ Begin("enum_named")
EnumName ==
  /\ At("enum_named")
  /\ IF IsIdentifier(Top.next) THEN ReadOn("enum_open", Words(Top.next))
     ELSE Stay("enum_open")
EnumOpen ==
  /\ At("enum_open")
  /\ IF IsMark(Top.next, "{") THEN ReadOn("items", Words(Top.next)) ELSE Stay("enum_end")
EnumItem ==
  /\ At("items")
  /\ ReadOn(IF Is(Top.next, "}") THEN "enum_end" ELSE "items", Words(Top.next))
EnumEnd == At("enum_end") /\ HandBack

ParseEnum == EnumKeyword \/ EnumName \/ EnumOpen \/ EnumItem \/ EnumEnd

-----------------------------------------------------------------------------
(* parse_typedef_as_is                                                     *)

TypedefKeyword == At("typedef") /\ Begin("typedef_type")
TypedefType ==
  /\ At("typedef_type")
  /\ IF IsAggregate(Top.next) THEN Push(Top.next) /\ Call("struct", "typedef_body")
     ELSE IF IsEnum(Top.next) THEN Push(Top.next) /\ Call("enum", "typedef_body")
     ELSE ReadOn("name", Words(Top.next))
TypedefBody == At("typedef_body") /\ ReadOn("name", Top.code \o ret)

\* (* name)(arguments), from the first parenthesis at i: the identifier ends at
\* the first ), and the arguments where one more parenthesis was closed than
\* opened after the token that stands for theirs.
Firsts(places) == {i \in places : \A j \in places : i <= j}
NameEnd(i) == Firsts({n \in i..Len(tokens) : IsMark(tokens[n], ")")})
ArgumentsOpen(i) ==
  UNION {Firsts({o \in (n + 1)..Len(tokens) : ~IsComment(tokens[o])}) : n \in NameEnd(i)}
ArgumentsEnd(i) ==
  UNION {Firsts({j \in (o + 1)..Len(tokens) : Depth(tokens, o + 1, j) < 0}) :
         o \in ArgumentsOpen(i)}
FunctionPointer ==
  /\ At("name") /\ IsMark(Top.next, "(")
  /\ \E end \in ArgumentsEnd(LastRead) :
       /\ current' = end + 1
       /\ Goto("semicolon", NONE, Top.code \o SpokenWords(SubSeq(tokens, LastRead, end)))
  /\ UNCHANGED <<tokens, next_token>>

\* Otherwise words up to the semicolon, with directives between them.
Declarator == At("name") /\ ~IsMark(Top.next, "(") /\ Stay("declarator")
DeclaratorDirective == At("declarator") /\ Top.next # NONE /\ SkipDirective("declarator")
DeclaratorWord ==
  /\ At("declarator") /\ Top.next # NONE /\ ~IsOneOf(Top.next, {";", "#"})
  /\ ReadOn("declarator", Words(Top.next))
DeclaratorEnd ==
  /\ At("declarator") /\ (Top.next = NONE \/ Is(Top.next, ";"))
  /\ Push(Top.next) /\ Goto("semicolon", NONE, Top.code)
TypedefEnd ==
  /\ At("semicolon") /\ IsMark(NextToken(TRUE), ";")
  /\ Read(TRUE)
  /\ Return(Append(Top.code, ";"))

ParseTypedef ==
  \/ TypedefKeyword \/ TypedefType \/ TypedefBody \/ FunctionPointer \/ Declarator
  \/ DeclaratorDirective \/ DeclaratorWord \/ DeclaratorEnd \/ TypedefEnd

-----------------------------------------------------------------------------
(* What makes the program stop with an exception.                          *)

\* Where an attribute of next_token is read though it may be None.
Attributes == {"tag", "named", "brace", "open", "close", "end", "enum_named",
               "enum_open", "items", "enum_end", "typedef_type", "name"}

\* The parenthesis of a pointer to a function is never closed.
Unclosed == At("name") /\ IsMark(Top.next, "(") /\ ArgumentsEnd(LastRead) = {}

\* A mistake for Fault: an enum in a struct is read as any other field.
FaultWithoutEnum ==
  \/ Top.at \in Attributes /\ Top.next = NONE
  \/ Unclosed
  \/ At("semicolon") /\ (NextToken(TRUE) = NONE \/ ~IsMark(NextToken(TRUE), ";"))
Fault ==
  \/ Top.at \in Attributes /\ Top.next = NONE
  \/ Unclosed
  \/ At("fields") /\ Top.next # NONE /\ IsEnum(Top.next)
  \/ At("semicolon") /\ (NextToken(TRUE) = NONE \/ ~IsMark(NextToken(TRUE), ";"))
  \/ /\ Top.at \in {"tag", "brace", "close", "fields", "declarator"}
     /\ Top.next # NONE /\ Is(Top.next, "#")
     /\ NoDirective(LastRead) \/ IsInclude(LastRead)
  \/ /\ At("loop") /\ HasTokens /\ Is(NextToken(FALSE), "#") /\ ~decl.in_extern
     /\ NoDirective(Upcoming)

Raise ==
  /\ phase = "parse" /\ Fault
  /\ phase' = "raised"
  /\ UNCHANGED <<tokenizerVars, header, decl, resultVars, callVars, output>>

SubParser ==
  /\ phase = "parse" /\ ~Fault
  /\ ParseStruct \/ ParseEnum \/ ParseTypedef
  /\ UNCHANGED <<header, decl, resultVars, phase, output>>

-----------------------------------------------------------------------------
(* The loop of parse_header: one token t.                                  *)

\* The token only changes the declaration being read.
Becomes(d) ==
  /\ decl' = d
  /\ Read(FALSE)
  /\ UNCHANGED <<resultVars, callVars>>

\* The token is put back and a procedure called.
Descend(procedure, resume) ==
  /\ ReadAndPush(FALSE)
  /\ Call(procedure, resume)
  /\ UNCHANGED <<decl, resultVars>>

Adding(d, t) == [d EXCEPT !.tokens = Append(@, t)]

\* Entering a declaration.
Entering(t) ==
  [Adding(decl, t) EXCEPT !.in_extern = TRUE, !.first_bracket = TRUE, !.no_star = FALSE]

Passed(t) == IsOneOf(t, IgnoreTokens)
Directive(t) == Is(t, "#") /\ ~decl.in_extern

Pass(t) == Passed(t) /\ Becomes(decl)

\* A mistake for TakeDirective: a directive of one word is taken for none.
TakeDirectiveOfMore(t) ==
  /\ Directive(t)
  /\ PastLine(Upcoming) /\ next_token' = AfterLine(Upcoming)
  /\ IF IsInclude(Upcoming) \/ LineEnd(Upcoming) = Upcoming + 1 THEN UNCHANGED file_structure
     ELSE AddEntry(Code(Line(Upcoming)))
  /\ UNCHANGED <<decl, functions, callVars>>

\* A directive between declarations is kept, unless it is an include.
TakeDirective(t) ==
  /\ Directive(t)
  /\ PastLine(Upcoming) /\ next_token' = AfterLine(Upcoming)
  /\ IF IsInclude(Upcoming) THEN UNCHANGED file_structure ELSE AddEntry(Code(Line(Upcoming)))
  /\ UNCHANGED <<decl, functions, callVars>>

\* The string of extern "C": what follows is not one declaration.
Linkage(t) == Is(t, "\"C\"") /\ decl.in_extern /\ Becomes([decl EXCEPT !.in_extern = FALSE])

Comment(t) ==
  /\ IsComment(t)
  /\ Becomes(IF decl.in_extern THEN Adding(decl, t) ELSE decl)

Keyword(t) ==
  /\ IsKeyword(t)
  /\ CASE Is(t, "extern") -> Becomes(Entering(t))
       [] IsAggregate(t) -> Descend("struct", "got_struct")
       [] Is(t, "typedef") -> Descend("typedef", "got_code")
       [] IsEnum(t) -> Descend("enum", "got_enum")
       [] OTHER -> Becomes(IF decl.in_extern
                           THEN [Adding(decl, t) EXCEPT !.no_star = FALSE]
                           ELSE Entering(t))

\* A star right after the first parenthesis makes the name suspect.
Punctuation(t) ==
  /\ IsPunctuation(t) /\ ~Is(t, ";")
  /\ Becomes(CASE ~decl.in_extern -> decl
               [] decl.in_extern /\ Is(t, "(") ->
                    [Adding(decl, t) EXCEPT !.no_star = decl.first_bracket,
                                            !.first_bracket = FALSE]
               [] decl.in_extern /\ Is(t, "*") ->
                    [Adding(decl, t) EXCEPT !.need_check = @ \/ decl.no_star]
               [] OTHER -> [Adding(decl, t) EXCEPT !.no_star = FALSE])

\* Names, numbers and strings.
Name(t) ==
  /\ t.kind \in {"identifier", "literal"} /\ ~(Is(t, "\"C\"") /\ decl.in_extern)
  /\ Becomes(CASE ~decl.in_extern -> Entering(t)
               [] decl.in_extern /\ IsOneOf(t, AttrNoReturn) ->
                    [decl EXCEPT !.no_star = FALSE, !.no_return = TRUE]
               [] decl.in_extern /\ IsOneOf(t, AttrIgnore) -> [decl EXCEPT !.no_star = FALSE]
               [] OTHER -> [Adding(decl, t) EXCEPT !.no_star = FALSE])

\* What stands between extern and ; is a function, unless it looks like a
\* pointer to one.
Declares == Len(decl.tokens) > 1 /\ IsFunctionPrototype(decl.tokens)
Dropped(function) ==
  decl.need_check /\ function.name # <<>> /\ Last(function.name) \in PointerNames

\* A mistake for AfterSemicolon: the attribute stays.
AfterSemicolonNoReturn ==
  [decl EXCEPT !.tokens = <<>>, !.in_extern = FALSE, !.need_check = FALSE]

AfterSemicolon == [decl EXCEPT !.tokens = <<>>, !.in_extern = FALSE, !.no_return = FALSE,
                               !.need_check = FALSE]

\* A mistake for Semicolon: a dropped function is dropped from one list only.
SemicolonDropsReference(t) ==
  /\ IsMark(t, ";")
  /\ Read(FALSE)
  /\ \E f \in {Function(decl.tokens, decl.no_return)} :
       /\ functions' = IF Declares THEN Append(functions, f) ELSE functions
       /\ IF Declares /\ ~Dropped(f) THEN AddEntry(Reference(f)) ELSE UNCHANGED file_structure
  /\ decl' = AfterSemicolon
  /\ UNCHANGED callVars

Semicolon(t) ==
  /\ IsMark(t, ";")
  /\ Read(FALSE)
  /\ \E f \in {Function(decl.tokens, decl.no_return)} :
       IF Declares /\ ~Dropped(f)
       THEN functions' = Append(functions, f) /\ AddEntry(Reference(f))
       ELSE UNCHANGED resultVars
  /\ decl' = AfterSemicolon
  /\ UNCHANGED callVars

Loop ==
  /\ At("loop") /\ HasTokens
  /\ LET t == NextToken(FALSE) IN
       IF Passed(t) THEN Pass(t)
       ELSE IF Directive(t) THEN TakeDirective(t)
       ELSE Linkage(t) \/ Comment(t) \/ Keyword(t) \/ Punctuation(t) \/ Name(t) \/ Semicolon(t)

-----------------------------------------------------------------------------
(* The loop, with the code that a procedure returned.                      *)

BackToLoop == Goto("loop", NONE, <<>>) /\ UNCHANGED tokenizerVars

GotCode == At("got_code") /\ AddEntry(Code(ret)) /\ BackToLoop /\ UNCHANGED <<decl, functions>>

\* A type without a semicolon begins, or goes on with, a declaration.
OfType(ts, words) ==
  IF At("got_struct") /\ ts # <<>> /\ Is(Last(ts), "const")
  THEN Append(Front(ts), FakeToken(<<"const">> \o words))
  ELSE Append(ts, FakeToken(words))

GotType ==
  /\ At("got_struct") \/ At("got_enum")
  /\ IF Last(ret) = ";"
     THEN AddEntry(Code(ret)) /\ UNCHANGED decl
     ELSE /\ decl' = [decl EXCEPT !.tokens = OfType(@, ret), !.in_extern = TRUE,
                                  !.no_star = @ /\ ~decl.in_extern]
          /\ UNCHANGED file_structure
  /\ BackToLoop /\ UNCHANGED functions

ParseHeader ==
  /\ phase = "parse" /\ ~Fault
  /\ Loop \/ GotCode \/ GotType
  /\ UNCHANGED <<header, phase, output>>

EndLoop ==
  /\ phase = "parse" /\ At("loop") /\ ~HasTokens
  /\ phase' = "guards"
  /\ UNCHANGED <<tokenizerVars, header, decl, resultVars, callVars, output>>

-----------------------------------------------------------------------------
(* postprocess_file_structure and combine_file_structure                   *)

StartsWith(entry, word) == entry.type = "code" /\ SubSeq(entry.code, 1, 2) = <<"#", word>>
Guarded(fs) == Len(fs) >= 3 /\ StartsWith(fs[1], "ifndef") /\ StartsWith(fs[2], "define")

StripHeaderGuards ==
  /\ phase = "guards"
  /\ file_structure' = IF Guarded(file_structure)
                       THEN SubSeq(file_structure, 3, Len(file_structure) - 1)
                       ELSE file_structure
  /\ phase' = "linkage"
  /\ UNCHANGED <<tokenizerVars, header, decl, functions, callVars, output>>

\* extern "C" { and its closing brace left nothing between these two.
LinkageAt(fs) ==
  {i \in 1..(Len(fs) - 1) : /\ fs[i] = Code(<<"#", "ifdef", "__cplusplus">>)
                            /\ fs[i + 1] = Code(<<"#", "endif">>)}
StripExternCPass ==
  /\ phase = "linkage" /\ LinkageAt(file_structure) # {}
  /\ LET i == CHOOSE k \in LinkageAt(file_structure) :
                \A j \in LinkageAt(file_structure) : k <= j IN
       file_structure' = SubSeq(file_structure, 1, i - 1)
                         \o SubSeq(file_structure, i + 2, Len(file_structure))
  /\ UNCHANGED <<tokenizerVars, header, decl, functions, callVars, phase, output>>

\* What an entry contributes to the generated header, after a comment with its
\* name; the words only.
Lines(entry) ==
  IF entry.type = "code" THEN IF WrangleTypedefs THEN <<entry>> ELSE <<>>
  ELSE <<[type |-> "typedef", function |-> entry.function]>>
       \o IF WrangleTypedefs THEN <<[type |-> "declaration", function |-> entry.function]>>
          ELSE <<>>
LinesOf(fs) == FlattenSeq([i \in DOMAIN fs |-> Lines(fs[i])])

CombineFileStructure ==
  /\ phase = "linkage" /\ LinkageAt(file_structure) = {}
  /\ output' = LinesOf(file_structure)
  /\ phase' = "done"
  /\ UNCHANGED <<tokenizerVars, header, decl, resultVars, callVars>>

\* The process has ended.
Ended == phase \in {"done", "raised"} /\ UNCHANGED vars

Program == ParseHeader \/ SubParser \/ Raise \/ EndLoop \/ StripHeaderGuards
           \/ StripExternCPass \/ CombineFileStructure
Next == Program \/ Ended

\* A Python program that is run goes on.
Spec == Init /\ [][Next]_vars /\ WF_vars(Program)
=============================================================================
