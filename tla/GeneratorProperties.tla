------------------------ MODULE GeneratorProperties ------------------------
(***************************************************************************)
(* What the files of the generator owe to each other, to the headers that  *)
(* are installed and to a C compiler.                                      *)
(***************************************************************************)
EXTENDS Generator

Names == {modules[i].name : i \in DOMAIN modules}
Phases == {"next", "parse", "render", "open", "write"} \cup Ended
Written(name, kind) == files[name][kind].is = "written"

\* Types of main's state: where it is and what it has in hand.  Every header that
\* was parsed is in the context: no two of a module have the same base name.
GeneratorTypeOK ==
  /\ at \in 0..Len(modules) /\ run \in 1..MaxRuns
  /\ phase \in Phases /\ file \in {"header", "source"}
  /\ phase \notin Ended \cup {"next"} => parsed = Len(context) /\ parsed <= Len(Module.headers)
  /\ \A i, j \in DOMAIN context : context[i].key = context[j].key => i = j
  /\ \A name \in Names, kind \in {"header", "source"} :
       files[name][kind].is \in {"absent", "torn", "written"}

-----------------------------------------------------------------------------
(* The pair of a module, against the headers.                              *)

\* The functions that the headers of a module declare, each with its header.
Declared(module, edition) ==
  FlattenSeq([i \in DOMAIN module.headers |->
    LET fs == edition[module.headers[i]] IN
      [j \in DOMAIN fs |-> [header |-> Basename(module.headers[i]), function |-> fs[j]]]])
NamesOf(parts) == [i \in DOMAIN parts |-> parts[i].name]
Variadic(function) == \E i \in DOMAIN function.arguments : function.arguments[i].type = <<"...">>

\* The names of those of them that are like this.
NamesOfSuch(module, edition, Test(_)) ==
  FlattenSeq([i \in DOMAIN module.headers |->
    LET fs == edition[module.headers[i]] IN NamesOf(Keep(fs, {f \in ToSet(fs) : Test(f)}))])

\* The libraries that are said to be described by a header.
Homes(module, header) ==
  IF Cardinality(DOMAIN module.libraries) = 1 THEN DOMAIN module.libraries
  ELSE {l \in DOMAIN module.libraries :
          header \in module.libraries[l].headers \cup {module.libraries[l].text}}

HeaderFits(h, module, edition) ==
  LET declared == Declared(module, edition)
      names == [i \in DOMAIN declared |-> declared[i].function.name] IN
    /\ h.is = "written"
    /\ NamesOf(h.structure) = names
    /\ h.externs = [i \in DOMAIN names |-> ImplOf(names[i])]
    /\ NamesOf(h.macros) = NamesOfSuch(module, edition, Variadic)
SourceFits(s, module, edition) ==
  LET declared == Declared(module, edition) IN
    /\ s.is = "written"
    /\ ToSet(s.slots) = DOMAIN module.libraries /\ IsInjective(s.slots)
    /\ [i \in DOMAIN s.opens |-> s.opens[i].library] = s.slots
    /\ \A i \in DOMAIN s.opens : s.opens[i].required = module.libraries[s.slots[i]].required
    /\ s.closes \in ToSet(s.slots) /\ module.libraries[s.closes].required
    /\ s.functors = [i \in DOMAIN declared |-> [type |-> TypeOf(declared[i].function.name),
                                                name |-> ImplOf(declared[i].function.name)]]
    /\ NamesOf(s.wrappers) = NamesOfSuch(module, edition, LAMBDA f : ~Variadic(f))
    /\ NamesOf(s.loaders) = [i \in DOMAIN declared |-> declared[i].function.name]
    /\ \A i \in DOMAIN s.loaders : Homes(module, declared[i].header) = {s.loaders[i].library}
Fits(pair, module, edition) ==
  HeaderFits(pair.header, module, edition) /\ SourceFits(pair.source, module, edition)
Current(module) == Fits(files[module.name], module, installed)
Generated == {i \in DOMAIN modules : ~modules[i].ignore}

\* When the program ends by itself, the two files of every module have each
\* function of the installed headers once in each of their lists - typedef,
\* extern, functor, look-up in the library that its header describes, and
\* either a wrapper or a macro - whatever earlier runs left and in whatever
\* order Python iterates over the libraries; the handler at exit closes a slot
\* of the module that it cannot do without (main, write_wrangler_to_files).
DoneMeansCurrent ==
  phase = "done" => \A i \in Generated : Current(modules[i])

\* A run that raises, over a header that cannot be parsed or belongs to no
\* library, never leaves the two files of a module apart: each pair is the one
\* from before the run or a new one (write_wrangler_to_files makes all of the
\* code before it opens a file).
RefusalKeepsPairs ==
  phase = "raised" =>
    \A i \in Generated : \/ files[modules[i].name] = before[modules[i].name]
                         \/ i < at /\ Current(modules[i])

\* A run that is stopped leaves the files of at most one module apart or torn,
\* and that is the module it was at.
StopTearsOne ==
  phase = "killed" =>
    \A i \in Generated : \/ files[modules[i].name] = before[modules[i].name]
                         \/ i = at
                         \/ i < at /\ Current(modules[i])

-----------------------------------------------------------------------------
(* Reading C                                                               *)

Opened(words, i, j) == Cardinality({k \in i..j : words[k] = "("})
                         - Cardinality({k \in i..j : words[k] = ")"})

\* The parameters of the function of that name, one after the other.
ParametersIn(words, name) ==
  LET open == SelectInSeq(words, LAMBDA w : w = name) + 1
      close == CHOOSE j \in open..Len(words) :
                 Opened(words, open, j) = 0 /\ \A k \in open..(j - 1) : Opened(words, open, k) > 0
      cuts == {i \in open..close : \/ i \in {open, close}
                                   \/ words[i] = "," /\ Opened(words, open, i) = 1}
      After(i) == CHOOSE j \in cuts : j > i /\ \A k \in cuts : k > i => j <= k IN
    FlattenSeq([i \in DOMAIN words |->
      IF i \in cuts \ {close} THEN <<SubSeq(words, i + 1, After(i) - 1)>> ELSE <<>>])

\* The name that a declaration of a parameter declares.
Declares(part) ==
  LET pointer == SelectInSubSeq(part, 1, Len(part), LAMBDA w : w = "(")
      array == SelectInSeq(part, LAMBDA w : w = "[") IN
    IF part = <<"void">> THEN <<>>
    ELSE IF pointer # 0 THEN <<part[pointer + 2]>>
    ELSE IF array # 0 THEN <<part[array - 1]>>
    ELSE <<Last(part)>>

\* Every wrapper in a file that was written hands over the parameters that it
\* declares, all of them and in their order, with wide prototypes and without:
\* names that headers give in comments, callbacks, arrays, pointers to
\* functions returned (extract_argument_name and, apart from it,
\* generate_function_arguments_declaration).
WrappersForward ==
  \A name \in Names : Written(name, "source") =>
    \A w \in ToSet(files[name].source.wrappers), wide \in BOOLEAN :
      LET parts == ParametersIn(w.declared[wide], w.name) IN
        w.with = [i \in DOMAIN parts |-> Declares(parts[i])]

\* The declaration that a typedef of a pointer to a function stands for.
Pointed(words, name) ==
  LET i == SelectInSeq(words, LAMBDA w : w = TypeOf(name)) IN
    SubSeq(words, 2, i - 3) \o <<name>> \o SubSeq(words, i + 2, Len(words))

\* What the functions that a module's headers declare are taken to be: made of
\* words; none with a (*) in its return type but that of one pointer to a function,
\* or the name of the functor's type, and nowhere with that (*) where declarations
\* are generated, which lose it; declared alike where they are declared again.
FunctionsIn(module, edition) ==
  UNION {ToSet(edition[path]) : path \in {p \in ToSet(module.headers) : edition[p] # REFUSED}}
IsPlain(f) ==
  /\ f.returns \in Seq(STRING)
  /\ f.arguments \in Seq([name : Seq(STRING), type : Seq(STRING)])
  /\ TypeOf(f.name) \notin ToSet(f.returns) \cup {"typedef", "(", "*"}
  /\ \A i, j \in DOMAIN f.returns : EndsPointer(f.returns, i) /\ EndsPointer(f.returns, j) => i = j
DeclaresPlainly(module, edition) ==
  \A f \in FunctionsIn(module, edition) :
    /\ IsPlain(f) /\ (module.wrangle_typedefs => ~HasPointer(f.returns))
    /\ \A g \in FunctionsIn(module, edition), wide \in BOOLEAN :
         f.name = g.name => FunctionDeclaration(f, wide) = FunctionDeclaration(g, wide)
HeadersDeclarePlainly ==
  \A table \in Tables, edition \in Editions : \A i \in DOMAIN table :
    ~table[i].ignore => DeclaresPlainly(table[i], edition)

\* In the files of a finished run a wrapper has the type of the functor that it
\* calls, and so has the declaration in the header where there is one: typedefs,
\* declarations and wrappers are made by three functions of the generator.
WrappersFitFunctors ==
  phase = "done" =>
    \A i \in Generated :
      LET h == files[modules[i].name].header
          s == files[modules[i].name].source IN
        \A t \in ToSet(h.structure), wide \in BOOLEAN :
          LET type == Pointed(t.typedef[wide], t.name) IN
            /\ \A d \in t.declared : d[wide] = type
            /\ \A w \in ToSet(s.wrappers) : w.name = t.name => w.declared[wide] = type
=============================================================================
