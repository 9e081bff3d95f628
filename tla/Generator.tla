----------------------------- MODULE Generator -----------------------------
(***************************************************************************)
(* auto/auto.py from main to the files: for one module after the other the *)
(* headers are parsed, the lists of all its functions are made of what was *)
(* found, and the header and then the source file of the module are        *)
(* written.  What parse_header finds in a header is the header's outcome   *)
(* (HeaderParser says how it finds it); the code of one function is        *)
(* FunctionCode's.                                                         *)
(*                                                                         *)
(* The process may be stopped anywhere, and the program run again, over    *)
(* other editions of the headers.                                          *)
(***************************************************************************)
EXTENDS FunctionCode

CONSTANTS
  Tables,       \* the values of MODULES: sequences of records as Python's dicts
  Editions,     \* the headers that may be installed: a function of paths, each
                \* to its functions or, where the parser raises, to REFUSED
  REFUSED,
  DictOrders,   \* orders of names that iteration over a dict may follow
  MaxRuns       \* how many times the program is run

-----------------------------------------------------------------------------
(* What the program relies on in MODULES, of the modules that are          *)
(* generated.                                                              *)

\* os.path.basename of a path, a sequence of names.
Basename(path) == Last(path)

\* `filename in headers': an element of a tuple, but part of a plain string.
IsPartOf(name, text) ==
  \E i \in 1..(Len(text) - Len(name) + 1) : SubSeq(text, i, i + Len(name) - 1) = name
Mentions(library, name) == name \in library.headers \/ IsPartOf(name, library.text)

IsSequence(s) == s \in Seq(ToSet(s))
NamesItsHeaders(module) ==
  /\ IsSequence(module.headers)
  /\ \A i, j \in DOMAIN module.headers :
       Basename(module.headers[i]) = Basename(module.headers[j]) => i = j
\* The library that is called as the module is can be relied on; no header is
\* described by two libraries, or by a part of a name in a plain string.
NamesItsLibraries(module) ==
  /\ module.lower \in DOMAIN module.libraries /\ module.libraries[module.lower].required
  /\ \A path \in ToSet(module.headers), l \in DOMAIN module.libraries :
       LET name == Basename(path) IN
         Mentions(module.libraries[l], name) =>
           /\ name \in module.libraries[l].headers \cup {module.libraries[l].text}
           /\ \A m \in DOMAIN module.libraries \ {l} :
                name \notin module.libraries[m].headers \cup {module.libraries[m].text}
IsDictOrder(dictOrder, keys) ==
  IsSequence(dictOrder) /\ IsInjective(dictOrder) /\ keys \subseteq ToSet(dictOrder)

ASSUME GeneratorAssumption ==
  /\ MaxRuns \in Nat \ {0}
  /\ \A table \in Tables :
       /\ IsSequence(table)
       /\ \A i, j \in DOMAIN table : table[i].name = table[j].name => i = j
       /\ \A i \in DOMAIN table : ~table[i].ignore =>
            /\ NamesItsHeaders(table[i]) /\ NamesItsLibraries(table[i])
            /\ \A dictOrder \in DictOrders : IsDictOrder(dictOrder, DOMAIN table[i].libraries)
            /\ \A edition \in Editions, path \in ToSet(table[i].headers) :
                 edition[path] = REFUSED \/ IsSequence(edition[path])

-----------------------------------------------------------------------------
VARIABLES
  modules,      \* MODULES
  installed,    \* the edition of the headers
  at,           \* the module that main is at, 0 before the first
  parsed,       \* how many of its headers are parsed
  context,      \* module_context.functions: an ordered dict of header and functions
  order,        \* the order in which dicts of libraries are iterated
  file,         \* the file of the module to be written
  phase,        \* "next", "parse", "render", "open", "write" or how the run ended
  files,        \* files[module name][kind]
  before,       \* the files when this run began; never read by the program
  run           \* runs so far

configVars == <<modules, installed, order, before, run>>
vars == <<configVars, at, parsed, context, file, phase, files>>

Module == modules[at]
Ended == {"done", "raised", "killed"}
Absent == [is |-> "absent"]
Torn == [is |-> "torn"]

Init ==
  /\ modules \in Tables
  /\ installed \in Editions
  /\ order \in DictOrders
  /\ at = 0 /\ parsed = 0 /\ context = <<>> /\ file = "header" /\ phase = "next"
  /\ files = [name \in {modules[i].name : i \in DOMAIN modules} |->
                [kind \in {"header", "source"} |-> Absent]]
  /\ before = files /\ run = 1

-----------------------------------------------------------------------------
(* The dicts.                                                              *)

\* dict[key] = value: the place of a key is that of its first assignment.
Put(dict, key, value) ==
  IF \E i \in DOMAIN dict : dict[i].key = key
  THEN [i \in DOMAIN dict |-> IF dict[i].key = key THEN [key |-> key, value |-> value]
                              ELSE dict[i]]
  ELSE Append(dict, [key |-> key, value |-> value])

\* The elements of s that are in S, in their order.
Keep(s, S) == FlattenSeq([i \in DOMAIN s |-> IF s[i] \in S THEN <<s[i]>> ELSE <<>>])

\* libraries.iteritems()
LibraryNames(module) == Keep(order, DOMAIN module.libraries)

\* A mistake for LibraryForHeader: without a library the first one is taken.
LibraryOrFirst(module, name) ==
  LET names == LibraryNames(module)
      first == SelectInSeq(names, LAMBDA l : Mentions(module.libraries[l], name)) IN
    <<names[IF first = 0 THEN 1 ELSE first]>>

\* get_library_for_header: as a sequence, empty where the function raises.
LibraryForHeader(module, name) ==
  LET names == LibraryNames(module)
      first == SelectInSeq(names, LAMBDA l : Mentions(module.libraries[l], name)) IN
    IF Len(names) = 1 THEN names
    ELSE IF first = 0 THEN <<>> ELSE <<names[first]>>

-----------------------------------------------------------------------------
(* The contents of the two files.                                          *)

NameOf(f) == f.name
AllOf(dict, Code(_, _)) ==
  FlattenSeq([i \in DOMAIN dict |->
    [j \in DOMAIN dict[i].value |-> Code(dict[i].key, dict[i].value[j])]])
Only(Test(_), dict) ==
  [i \in DOMAIN dict |-> [dict[i] EXCEPT !.value = Keep(@, {f \in ToSet(@) : Test(f)})]]

\* FILE_STRUCTURE, without the code kept as it is, which HeaderParser combines.
Structure(f, module) ==
  [name |-> f.name,
   typedef |-> [wide \in BOOLEAN |-> FunctionTypedef(f, wide)],
   declared |-> IF module.wrangle_typedefs
                THEN {[wide \in BOOLEAN |-> HeaderDeclaration(f, wide)]} ELSE {}]

HeaderText(module, dict) ==
  [is        |-> "written",
   structure |-> AllOf(dict, LAMBDA h, f : Structure(f, module)),
   externs   |-> AllOf(dict, LAMBDA h, f : ImplOf(f.name)),
   macros    |-> AllOf(Only(HasVarargs, dict), LAMBDA h, f : Macro(f))]

\* The handler at exit closes the library that is called as the module is.
SourceText(module, dict) ==
  [is       |-> "written",
   slots    |-> LibraryNames(module),
   opens    |-> [i \in DOMAIN LibraryNames(module) |->
                   [library |-> LibraryNames(module)[i],
                    required |-> module.libraries[LibraryNames(module)[i]].required]],
   closes   |-> module.lower,
   functors |-> AllOf(dict, LAMBDA h, f : [type |-> TypeOf(f.name), name |-> ImplOf(f.name)]),
   wrappers |-> AllOf(Only(LAMBDA f : ~HasVarargs(f), dict), LAMBDA h, f : Wrapper(f)),
   loaders  |-> AllOf(dict, LAMBDA h, f : [library |-> LibraryForHeader(module, h)[1],
                                           name |-> f.name])]

Text(module, kind) ==
  IF kind = "header" THEN HeaderText(module, context) ELSE SourceText(module, context)

-----------------------------------------------------------------------------
(* main                                                                    *)

\* A mistake for NextModule: one module_context is made for all modules.
NextModuleSharing ==
  /\ phase = "next" /\ at < Len(modules)
  /\ at' = at + 1
  /\ IF modules[at + 1].ignore THEN UNCHANGED <<parsed, context, phase>>
     ELSE parsed' = 0 /\ UNCHANGED context /\ phase' = "parse"
  /\ UNCHANGED <<configVars, file, files>>
NextModule ==
  /\ phase = "next" /\ at < Len(modules)
  /\ at' = at + 1
  /\ IF modules[at + 1].ignore THEN UNCHANGED <<parsed, context, phase>>
     ELSE parsed' = 0 /\ context' = <<>> /\ phase' = "parse"
  /\ UNCHANGED <<configVars, file, files>>
Finish ==
  /\ phase = "next" /\ at = Len(modules)
  /\ phase' = "done"
  /\ UNCHANGED <<configVars, at, parsed, context, file, files>>

\* parse_header, for the next header of the module.
NextPath == Module.headers[parsed + 1]
Unreadable == phase = "parse" /\ parsed < Len(Module.headers) /\ installed[NextPath] = REFUSED
ParseHeader ==
  /\ phase = "parse" /\ parsed < Len(Module.headers) /\ ~Unreadable
  /\ parsed' = parsed + 1
  /\ context' = Put(context, Basename(NextPath), installed[NextPath])
  /\ UNCHANGED <<configVars, at, file, phase, files>>
Parsed ==
  /\ phase = "parse" /\ parsed = Len(Module.headers)
  /\ phase' = "render"
  /\ UNCHANGED <<configVars, at, parsed, context, file, files>>

-----------------------------------------------------------------------------
(* write_wrangler_to_files                                                 *)

\* A header with functions for which there is no library.
Unplaced ==
  \E i \in DOMAIN context : /\ context[i].value # <<>>
                            /\ LibraryForHeader(Module, context[i].key) = <<>>

\* A mistake for NoLibrary: the look-ups are made when they are written.
NoLibraryForSource == phase = "open" /\ file = "source" /\ Unplaced
NoLibrary == phase = "render" /\ Unplaced

\* All of the code is made before a file is opened.
Render ==
  /\ phase = "render" /\ ~NoLibrary
  /\ phase' = "open" /\ file' = "header"
  /\ UNCHANGED <<configVars, at, parsed, context, files>>

\* A mistake for Emptied: the files of all modules are opened.
AllEmptied == [name \in DOMAIN files |-> [files[name] EXCEPT ![file] = Torn]]
Emptied == [files EXCEPT ![Module.name][file] = Torn]

\* Opening a file for writing empties it.
OpenFile ==
  /\ phase = "open" /\ ~NoLibrary
  /\ files' = Emptied
  /\ phase' = "write"
  /\ UNCHANGED <<configVars, at, parsed, context, file>>
WriteFile ==
  /\ phase = "write"
  /\ files' = [files EXCEPT ![Module.name][file] = Text(Module, file)]
  /\ IF file = "header" THEN file' = "source" /\ phase' = "open"
     ELSE phase' = "next" /\ UNCHANGED file
  /\ UNCHANGED <<configVars, at, parsed, context>>

-----------------------------------------------------------------------------
\* An exception that nothing catches.
Raise ==
  /\ Unreadable \/ NoLibrary
  /\ phase' = "raised"
  /\ UNCHANGED <<configVars, at, parsed, context, file, files>>

\* The process is stopped, from outside or because a file cannot be written.
Stop ==
  /\ phase \notin Ended
  /\ phase' = "killed"
  /\ UNCHANGED <<configVars, at, parsed, context, file, files>>

RunAgain ==
  /\ phase \in Ended /\ run < MaxRuns
  /\ run' = run + 1
  /\ installed' \in Editions
  /\ before' = files
  /\ at' = 0 /\ parsed' = 0 /\ context' = <<>> /\ file' = "header" /\ phase' = "next"
  /\ UNCHANGED <<modules, order, files>>

Program == NextModule \/ ParseHeader \/ Parsed \/ Render \/ OpenFile \/ WriteFile
           \/ Finish \/ Raise
Next == Program \/ Stop \/ RunAgain

Spec == Init /\ [][Next]_vars
=============================================================================
