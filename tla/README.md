# XEW, the X extension wrangler, in TLA+

XEW lets an application use X11, XCB and xkbcommon without being linked against
them.  Each wrapped function `f` is a function of the same name in `libxew` that
jumps through a pointer `f_impl`; `xew<Module>Init` opens the libraries with
`dlopen` and fills the pointers with `dlsym`.  The three modules are generated
by `auto/auto.py` from the X headers and from `auto/module.template.[ch]`; three
programs in `example/` use them.

This directory models the run-time part with its 1605 functions, the generator
from `main` to the files that it writes, and the example programs; TLC checks
the models on small instances, and TLAPS proves what the run-time part promises
for any threads, modules, libraries and functions, and what the generator
promises for any tables and any editions of the headers.

## 1. Inventory

| component | state | operations | correct when |
|---|---|---|---|
| `xew<Module>Init` (`auto/module.template.c:73-95`, instances in `source/xew_{x11,xcb,xkbcommon}.c`) | statics `is_initialized`, `result` | the one attempt, early return for every later call | success means ready; failure leaves nothing behind that can be called; every call gives the same answer |
| library search (`source/xew_util.c`, `openLibraries`) | handles `<slot>_lib` | try names in order, stop at the first that opens, test the required ones | the first name that opens wins; failure only if a required library has none |
| pointer fetching (`fetchPointersFromLibrary`, `source/xew_util.h:82`) | functors `<function>_impl` | one `dlsym` per function | a bound functor points into the library that the table names |
| exit handling (`installAtExitHandler`, `atExitHandler`) | the process's `atexit` list, the handle of the first slot | register; close and clear | every open module is registered; no double close; nobody uses a functor whose library is gone |
| wrappers and `<MODULE>_HAS_SYMBOL` (`include/xew.h:43-47`, `source/xew_*.c`) | none of their own | jump through the functor; test the functor | what is reported as available can be called, and everything can be asked for |
| tables (`*_paths`, `openLibraries`, loaders, wrappers, macros) | constant | - | each function is fetched from the library of its header; all lists agree |
| dynamic linker (external, used through `source/xew_util.h:57-59`) | reference counts, installed files | `dlopen`, `dlsym`, `dlclose` | - |
| declarations (`include/xew_{x11,xcb,xkbcommon}.h`) | none | variadic functions are macros for functors | see wrappers |
| error strings (`source/xew.c`) | none | code to text | the text is that of the code |
| tokenizer of the generator (`auto/auto.py:870-921`) | tokens, index of the next one, one token that was put back | has_tokens, get_next_token, push_token | every token is read once, by whoever is to read it |
| header parser (`auto/auto.py:943-1390`) | the declaration being read (its tokens and five flags), entries, functions | one branch per kind of token; procedures for directives, structs, typedefs and enums; stripping of guards | each declaration contributes its own entries and leaves nothing behind; what cannot be read is refused where it is |
| function analysis (`auto/auto.py:207-470`) | none | name, return type, arguments from tokens | the function found is the one declared |
| formatting of functions (`auto/auto.py:480-825`) | none | typedef, declaration, wrapper, macro | a wrapper has the type of its functor and hands over what it declares |
| tables, loaders and files (`auto/auto.py:41-172, 716-825, 1396-1516`) | `MODULES`, dictionaries by header, the files | parse all headers, make all code, write two files per module | a finished run leaves files that agree with the headers and with each other |
| examples (`example/*.c`) | display, connection, counters | Init, HAS_SYMBOL, calls | only what is available is called; displays are closed; output and status are true |
| X server (external, used by the examples) | connection, screens, events | - | - |

How they interact.  The application calls Init, HAS_SYMBOL and wrappers.  Init
calls `atexit`, the search, the linker, and writes the functors that wrappers
and HAS_SYMBOL read.  `exit` calls back the exit handlers, last registered
first, the application's own among them; each wrangled module's handler writes
its handle and changes what the functors point at without touching them.
Modules share no variable, but they share files: libX11 and libxcb-keysyms need
libxcb, so what one module closes another, or another slot of the same module,
may keep mapped.

The generator runs on its own, before anything is compiled: `parse_header` reads
the tokens of one header in a loop; for directives, structs, typedefs and enums
it puts the token back and calls a procedure, which may call others and puts
back the token it stopped at.  The entries and functions found go into
dictionaries from which the writers of typedefs, functors, wrappers, macros and
loaders make the lists that have to agree at run time.

What is hard here:

- nothing is locked, and the statics are set before the work is done: threads
  that call Init at the same time see each other's half-done state;
- every step can fail on its own: `atexit`, each library, each function;
- exit runs handlers in an order that depends on who registered first;
- functors outlive the library they point into;
- a NULL handle is a legal argument of `dlsym` and means something else;
- the header parser keeps flags and tokens from one token to the next, directives
  may stand inside of any declaration, and only one token can be put back;
- the generator overwrites its files one by one, raises on headers that it does
  not know, and iterates over dictionaries whose order Python does not fix;
- the examples read a count from the server and query one screen at a time
  later, and wait for events that are selected before the window is shown.

PROJECT.json lists these and the others as hazards, each at its line, with the
properties that watch it.

## 2. Modules

| module | what it is |
|---|---|
| `DynLinker` | the linker as the wrangler can observe it: which files open, what they define, reference counts, `dlsym` with a NULL handle. External. |
| `Wrangler` | the wrangling logic and the end of the process: one action per access to shared state, any number of threads and modules |
| `InitOnce` | abstract specification of Init: a module settles once, on one code; only success makes functions usable, their set is fixed, every call returns the code settled on |
| `WranglerProperties` | wrappers and HAS_SYMBOL, the properties, and the refinement mapping to `InitOnce` |
| `X11Functions`, `XcbFunctions`, `XkbcommonFunctions` | every function of the three source files: its look-up, and its wrapper or macro |
| `XewTables` | libraries, names, headers, and how the lists of functions are read |
| `CallSites` | what the preprocessor makes of a call and of HAS_SYMBOL for plain and variadic functions; extends `WranglerProperties` |
| `Tokenizer` | the token stream with one token put back |
| `FunctionTokens` | the analysis of one declaration's tokens, as operators on sequences |
| `HeaderParser` | `parse_header` and its procedures, one action per token or directive; extends the two above |
| `Catalogue` | abstract specification of the parser: the entries planned are found in order, then published; nothing is published of a header that cannot be read |
| `HeaderProperties` | its properties, and the refinement mapping to `Catalogue` |
| `FunctionCode` | the code made of one function: typedef, declaration, wrapper, macro, as sequences of words |
| `Generator` | `main`, the dictionaries and the writing of the files, with runs that raise, are stopped and are repeated; extends `FunctionCode` |
| `GeneratorProperties` | what the files owe to each other, to the headers and to a C compiler |
| `XServer` | the server as the examples see it. External. |
| `Client` | what the examples have in common, composed of `Wrangler` and `XServer`; `xewErrorString` |
| `ExampleX11`, `ExampleXcb`, `ExampleXkbcommon` | the three programs from `main` to the exit handlers; each extends `Client` |
| `Examples` | one specification of the three: an INSTANCE of each with its own bounds, and the variable `program` that says which of them the process runs |
| `MCProcess` | values of the constants that the instances of the run-time part share: the real libraries, names and dependencies |
| `MCModules`, `MCThreads`, `MCTables`, `MCHeader`, `MCGenerator`, `MCExamples` | instances for TLC |
| `WranglerProofs`, `SearchProofs`, `SerialProofs`, `ExitProofs` | the TLAPS proofs of the run-time part, each module extending an earlier one; `SerialProofs` extends `CallSites` too |
| `SequenceLemmas` | lemmas about sequences that know nothing of the program: the least number with a property, induction, what `FlattenSeq` joins |
| `GeneratorProofs` | the TLAPS proofs about `GeneratorProperties`; extends `SequenceLemmas` |
| `HeaderProofs` | the TLAPS proofs about `HeaderProperties`; extends `SequenceLemmas` |
| `ExamplesProofs` | the TLAPS proofs about `Examples`; extends `ExitProofs`, whose theorems it carries into the processes of the programs |

### The run-time part

- `is_initialized`, `result`: the statics of `xew<Module>Init`, per module;
  `lib[l]`: the static handle of slot `l`; `functor[s]`: `<s>_impl`.
- `pc`, `mod`, `cur`, `path`: where a thread is in Init, which slot or function
  it is at (`cur`) and which name of the slot it tries (`path`).
- `CallInit`/`Mark`/`InstallAtExitHandler`/`TestInstalled`/`OpenFound`/
  `OpenMissed`/`OpenExhausted`/`TestRequired`/`OpenDone`/`TestOpened`/`Fetch`/
  `FetchDone`/`Return` are Init from its first to its last line.
- `AtExitHandler` and `ClearHandle` are the two effects of `atExitHandler`;
  `Exit`, `RunCleanup`, `EndProcess` are `exit` of the C library, external, and
  `RegisterCleanup` is the application's own use of `atexit`.
- A handle, and a bound functor, is represented by the name of the file it
  belongs to; NULL is the null pointer; `Wrapper` as the value of a functor is
  the address of the wrapper of the same function.

Grain.  A step is one access to shared state together with the library call
whose value it stores: `handle = dlopen(...)`, `result = installAtExitHandler()`,
`f_impl = dlsym(handle, "f")`.  A `dlopen` or an `atexit` of one thread commutes
with every step of another up to the assignment, so nothing observable is lost;
`dlclose` and the clearing of the handle do not commute and are two steps.
Tests re-read the static they name.

Abstractions.  Arguments and results of wrapped functions do not occur here;
`FunctionCode` is about them.  What is installed, and which functions each file
defines, is chosen in the initial state and does not change.  Where not all
functions are in an instance, those that are stand for the others of their
library: all are looked up by the same macro, one after the other.

Four kinds of application.  `Spec`: any threads calling Init, registering
handlers and exiting at any time.  `SerialSpec`: calls of Init do not overlap, as
in the three example programs.  `OrderlySpec`: moreover the application
registers its exit handlers only after the Inits.  `FairSpec` is Spec with weak
fairness of every thread inside Init until the process ends.

### The header parser

- `tokens`, `current`, `next_token`: the fields of Tokenizer (`current` counts from
  1).  A token that is a record with a mark on the first token of each line
  stands for clang's token with its location; clang is external.
- `decl`: the local variables of `parse_header` that outlive an iteration
  (`in_extern`, `extern_tokens`, `is_first_opening_bracket`, `is_expecting_no_star`,
  `need_check_for_function`, `function_no_return`).
- `stack`: one frame per procedure in progress, with its place (`at`), its
  `next_token` and the code it has put together; `ret` is the code returned.
- `functions`, `file_structure`: the fields of ParseContext; `output` is what
  `combine_file_structure` returns.
- `Pass`, `TakeDirective`, `Linkage`, `Comment`, `Keyword`, `Punctuation`, `Name`,
  `Semicolon` are the branches of the loop; `ParseStruct`, `ParseEnum`,
  `ParseTypedef` are the procedures, an action per token read; `Raise` stands for
  every exception; `StripHeaderGuards`, `StripExternCPass`,
  `CombineFileStructure` are what comes after the loop.

Grain.  The program is sequential, so a step may be as long as one likes: it is
a token of the loop or of a procedure, a whole directive, or the two lists of
parentheses of a typedef of a function pointer.  `parse_preprocessor` pushes the
`#` it is given and reads it again; that pair cancels and is left out.

Abstractions.  Code and types are sequences of words, without the blanks and
line breaks that the program puts between them; the comment with the header's
name that is put before everything is left out.  `PointerNames` stands for the
names that end in `_fn` or `Function`.  A comment is represented by its first
word, which is what the program uses of it.

### The generator

- `modules` is `MODULES`, with the type that `headers` has for each library: a
  tuple (`headers`) or, for `x11_cursor`, a plain string (`text`), of which
  `filename in headers` finds any part.
- `context` is `module_context.functions`, an ordered dictionary by the base
  name of a header; `order` is the order in which iteration over the dictionary
  of libraries goes, which Python leaves open.
- `installed` is the edition of the headers: for each path the functions that
  `parse_header` finds (HeaderParser says how), or REFUSED where it raises.
- `NextModule`, `ParseHeader`, `Parsed`, `Finish` are `main`; `Render`, `OpenFile`,
  `WriteFile` are `write_wrangler_to_files`, which makes all code before it opens
  the first file; `NoLibrary` is `get_library_for_header` raising.  Opening a
  file empties it: it is `Torn` until it is written.
- `Stop` is the process being killed, or a write that fails; `RunAgain` is the
  next run, over other editions of the headers; `before` remembers what the
  files were when a run began and is read by properties only.

A file is a record of its lists (typedefs and declarations, externs, functors,
wrappers, macros, loaders, slots, open code) whose elements are `FunctionCode`'s
sequences of words.

### The examples

A label (`at`) is the call that comes next.  A call of the server or of a
wrapper is a step; a label at which the call cannot return - through a functor
that is not bound or that points to the wrapper itself, or on a display that is
not open - has no step.  `CallsEndInLibraries` says that only one is reached, and
exactly when.

The programs are built by the repository's CMake.  `CMakeLists.txt:3` asks for
version 2.6, so CMake links executables with `-rdynamic` (policy CMP0065), and
lines 21-38 link `libxew` into them as a static library: the wrappers are in the
global scope of the process, where `dlsym` with a NULL handle searches.  So the
runs of the examples have `Exported <- MCSym`, all wrappers that the programs
use.  Where the library for Xinerama cannot be opened, HAS_SYMBOL is true all the
same, and the first call for Xinerama (`XineramaIsActive` at
`example/example_x11.c:65`, `xcb_xinerama_is_active_unchecked` at
`example/example_xcb.c:36`) is one of the wrapper by itself, which does not come
back (`FoundItself`, `Recurses`).  Where the library can be opened but is too old
to have the function, the handle is not NULL and HAS_SYMBOL is false as it
should be.

`WranglerStep` runs Init and exit as `Wrangler` has them, so the search, the missing libraries and the exit handlers
are the real ones.  `Surroundings` is the server changing in between: screens are
plugged in and out, keys are pressed, the window is uncovered, the connection
breaks.  While nobody is connected the server does not change.  `lines`, `changed`
and `outcome` in `ExampleXcb` are what was printed, whether the screens changed
since they were counted, and the local variable of `xineramaScreenGeometry`.

## 3. Runs

| run | specification, instance and bounds | checks |
|---|---|---|
| `modules` | OrderlySpec; the three modules with their 9 libraries and 18 file names, a function of each library; any two libraries missing, the optional ones missing, development names only or besides, old editions; one application handler; 67,002 states | `SuccessMeansReady`, `FailureBindsNothing`, `CleanupSafe`, `PrimaryReleased`, `NeverDangling`, `OneAnswer`, refinement of `InitOnce` |
| `threads` | FairSpec; 2 threads, XCB cut to a required library with two names and an optional one; one application handler; 27,150 states | `TypeOK`, `HandlesHeld`, `HandlerBeforeHandle`, `AttemptsBounded`, `AvailableMeansCallable`, `FailureIsJustified`, `BoundFunctorsStay`, `InitReturns` |
| `tables` | SerialSpec; all 1605 functions, the Inits in any order, full, minimal and insufficient installations, old and new editions; 85,448 states | `ServedFromHome` |
| `header` | headers of two of 18 kinds of declaration in either order, with guards and without, of three of 7 kinds inside `extern "C"`, and with one of 5 pieces that cannot be read between two others; 44,483 states | `ParserTypeOK`, `RoomToPutBack`, `PutBackInPlace`, `ReferencesAreFunctions`, `GuardsMatch`, `NothingIsLost`, `RefusesExactly`, refinement of `Catalogue` (termination included) |
| `generator` | the real MODULES, and MODULES with a header of no library; editions of the headers with one or two functions of each kind, or refused; 3 orders of the libraries; 2 runs (`MaxRuns`) stopped anywhere | `GeneratorTypeOK`, `DoneMeansCurrent`, `RefusalKeepsPairs`, `StopTearsOne`, `WrappersForward`, `WrappersFitFunctors` |
| `examples` | ExamplesSpec; the three programs, real libraries in four installations, a server that is there at first; 1 screen and 3 waiting events for `example_x11`, 2 screens of two geometries for `example_xcb`; wrappers exported as in the CMake build; 66,168 states | `CallsEndInLibraries`, `WindowIsCompleted`, `DisplaysAreClosed`, `ReportsTheScreens`, `FailureIsReported`, `TellsOfTheSystem`, `LinesAreAnswers`, `KeyEndsProgram`, `Terminates` |
| `threads_early_answer` | Spec, the instance of `threads` | violation of `SuccessMeansReady` |
| `early_cleanup` | SerialSpec, the instance of `modules` | violation of `CleanupSafe` |
| `exported` | OrderlySpec, the instance of `modules` with the wrappers in the global scope | violation of `AvailableMeansCallable` |
| `header_pointer_names` | XSetAfterFunction between two other declarations | violation of `AllFunctionsListed` |
| `variadic` | the instance of `tables` | violation of `EveryFunctionCanBeAsked` |
| `examples_headless` | the instance of `examples` with no server | violation of `CallsEndInLibraries` |

### Why the bounds are enough

*Run-time part.*  The tables are the real ones wherever modules run one after
the other.  With two libraries missing every module can fail for each of its
required libraries, alone or together with another module.  One application
handler is before, between or after the handlers of the modules.  The race on
`is_initialized` needs two threads; what three and more can do is covered by the
proofs, which bound nothing.  `MaxCleanups` bounds the application's
registrations and is the only bound on a counter; everything else is finite
because each thread can pass the test of `is_initialized` at most once.
In `tables` the functions do not interact, so what matters is that every
function, library and edition occurs, not their products.

*Parser.*  Nothing but `decl` and the token put back outlives a declaration,
so two declarations in every order show what the first leaves for the second;
the triples are of those declarations that touch the flags, after the `extern`
that `extern "C"` leaves in the list of tokens.  The pieces follow Xlib.h,
Xlibint.h, XKBlib.h, xcb.h and xkbcommon.h: wide prototypes behind `#if` inside of
an argument list, functions that return pointers to functions, variadic functions
with _X_SENTINEL, attributes, struct and enum return types, directives inside of
structs and typedefs, pointers to functions, forward declarations, variables,
includes.  What each is to contribute is written down next to it, by hand, in
`MCHeader`.  The configuration combines `ignore_tokens` of X11 with
`wrangle-typedefs` of the other modules, so that all code is published and
compared; the two settings are independent.

*Generator.*  A run reads the files of earlier runs nowhere, so two runs show all
that one run can leave for another.  An edition has at most two functions in a
header: order and separation show with two.  The orders of the dictionary are the
one of the source, its reverse and a mixed one.

*Examples.*  `example_x11` treats Expose, KeyPress and everything else, so three
waiting events are one of each and every two in both orders; it does not look at
the screens.  `example_xcb` takes no event; with two screens there is one before
and one after each, and a screen can come, go, and go together with all others
between any two of its queries.

### Fairness

`threads` assumes weak fairness of every thread inside Init until the process ends:
the operating system schedules runnable threads, and `dlopen`, `dlsym` and
`atexit` return.  Nothing makes an application call Init or exit, so none is
assumed of those.  `examples` assumes it of the steps of the program; a server
that was reached answers, or the connection is lost and Xlib ends the process.
Nothing is assumed of the server: it need not send events, so `KeyEndsProgram`
starts from a key that waits, and `Terminates` is about the two programs that do
not wait for any: they end, or come to the call that `CallsEndInLibraries` names,
which in the model has no further step (in the process, its stack overflows).  The parser is run to its end: weak fairness of its next step.
The generator has no liveness property: it may be stopped anywhere.
`CHECK_DEADLOCK FALSE` is given where a process or a program ends.

### What the violations show

- `exported`.  With an optional library missing, `dlsym(NULL, name)` searches
  the global scope.  Where the wrappers are visible there - in the CMake build of
  the examples (`CMakeLists.txt:3`, `-rdynamic`), a shared build, the LD_PRELOAD
  use of `README:35` - it finds the wrapper: HAS_SYMBOL is true and the call never
  ends.  `example/example_xcb.c:143` and `example/example_x11.c:89` do make that
  call; run `examples`, which has the wrappers exported, shows that it is the only
  one of its kind.
- `threads_early_answer`.  A thread that calls Init while another is inside gets
  XEW_SUCCESS at once, with no handle and no functor set.
- `early_cleanup`.  A handler registered before Init runs after the library was
  closed; HAS_SYMBOL is still true.  For XCB the same order is harmless
  (`NeverDangling` in run `modules`): libxcb-keysyms is required, never closed,
  and needs libxcb.
- `header_pointer_names`.  `extern int (*XSetAfterFunction(...))(...)` has a star
  after its first parenthesis and a name that ends in `Function`, so it is taken
  for a variable.  It is indeed missing from `source/xew_x11.c`, while
  XSynchronize, declared in the same way, is there.
- `variadic`.  The name of a variadic function is a macro for its functor, and
  HAS_SYMBOL expands its argument before it pastes `_impl` to it: asking for
  `xkb_state_mod_names_are_active`, or one of the eleven of X11, comes to
  `..._impl_impl` and does not compile.
- `examples_headless`.  The libraries are there, the server is not:
  `testXinerama` hands the NULL of `XOpenDisplay` on.  The shortest trace is
  that of `example_x11.c`; `example_xcb.c` does the same at line 99.

### Mutants

For every property of every passing run PROJECT.json names a mistaken version of
one definition, which stands before the step or operator concerned under the
words "A mistake for ..." (in `Wrangler` under "Mistakes that the steps below
could contain"): a dropped guard, a missing reset, a swapped order, a forgotten
close.  TLC refutes the property with it under the run's own configuration.

## 4. Proofs

The theorems of the run-time part are about any sets of threads, modules, slots,
functions and files that satisfy `LinkerAssumption`, `WranglerAssumption` and
`CallSitesAssumption`: the tables are well formed.  Every module has a slot, no
slot belongs to two modules, no file name to two slots, every function is looked
up in a slot of its own module, dependencies are transitive and installed sets
closed under them, NULL is neither a module nor a code.  Those of the generator
are about any tables, editions and orders that satisfy `GeneratorAssumption`: of
each module that is generated, the headers have distinct base names (the
dictionary of functions is keyed by those), the library called as the module is
exists and is required (its handle is the one that the exit handler closes), no
header is described by two libraries, and the orders of the dictionaries are
orders of all their names.  `auto/auto.py:41-172` is like that.  Those of the
parser are about any headers that are made of tokens (`HeadersAssumption`): any
kinds and words in any order, C or not.  Those of the
examples assume `ExamplesAssumption` too: there is a thread, the three modules
exist, NULL is no exit status and the error line no geometry; they are about any
geometries and any bounds on screens and waiting events.  TLC evaluates all of these assumptions on the
real tables.

Some theorems have a hypothesis besides:

- `AvailableIsCallable`, `BoundFunctorsAlwaysStay`, `CleanupAlwaysSafe` and
  `ServedFromHomeAlways` assume `Exported = {}`, and the runs of their properties
  (`threads`, `modules`, `tables`) are of such a process: an application that links
  the library without exporting its symbols.  Run `exported` shows that
  `AvailableMeansCallable` needs it.  `CallsAlwaysEndInLibraries`, about the
  repository's own programs, does not assume it;
- `AttemptsAlwaysBounded` is about finitely many threads, as it counts them;
- `NeverDanglingAlways` assumes `Anchored("XCB")`: a required library of the module
  that its exit handler does not close needs the library that it does close.
  `MCModules` assumes the same of the real libraries, so TLC evaluates it in run
  `modules`; for X11 and XKBCommon it is false, and they do dangle;
- `ServedFromHomeAlways` assumes `ListsAgree`, which is about the tables only: what
  can be called is looked up, by the module of its header and in the library of
  its header.  That the real lists with their 1605 functions agree is what run
  `tables` shows.  The theorem adds that agreeing lists are enough, with any
  libraries installed;
- `CallsAlwaysEndInLibraries` assumes `LibrariesSuffice`: in every edition of the libraries
  that can be met, what the programs call without asking is in a library that is
  required, and what they call after asking HAS_SYMBOL for one function comes with
  that function.  The code asks for nothing else, so this is what it relies on.
  It also assumes `ExportedTogether`, that a build does not export the wrapper of
  the function asked for without that of the one called, and that a server is
  there at first (`Servers \subseteq {"up"}`), which run `examples_headless` shows is
  needed: neither `testXinerama` tests the display.  What it says is an
  equivalence: a call that does not end in its library is the first one for
  Xinerama with the wrapper exported and the library missing, and there it does
  not.  With `Exported = {}` that leaves none;
- `ReferencesAreFunctionsAlways` assumes `[]GuardsMatch`: if the entries of a header
  begin with `#ifndef` and `#define`, the last one is a directive.
  `strip_header_guards` looks at the first two entries only and deletes the last one
  too (`auto/auto.py:1177-1187`); a header that begins like one with guards and
  ends with a function would keep the function in one list only.  Run `header`
  checks `GuardsMatch` of headers like the wrapped ones; for these it depends on the
  last line being read as a directive of its own;
- `WrappersFitFunctorsAlways` assumes `HeadersDeclarePlainly`: the functions of the
  headers are made of words, at most one `(*)` ends in a return type and no name of
  a functor's type is in it, a function that is declared twice is declared alike,
  and none returns a pointer to a function in a module whose header gets
  declarations (XCB and XKBCommon: `generate_function_declarations` loses the `(*)`
  there).  `MCGenerator` assumes it of its headers, which have such a function in X11,
  so TLC evaluates it in run `generator`;
- `TellsOfTheSystemAlways` assumes `XkbcommonAlone`: XKBCommon has one library, which
  it requires.  `MCExamples` assumes `LibrariesSuffice`, `ExportedTogether` and
  `XkbcommonAlone` of the real libraries, so TLC evaluates them.

| module | theorems | run |
|---|---|---|
| `WranglerProofs` | under Spec: `TypeCorrect`, `SafeAlways`, `HandlesAlwaysHeld`, `HandlerAlwaysFirst`, `AvailableIsCallable`; `SerialIsSpec` | `threads`, `exported` |
| `SearchProofs` | under Spec: `SearchAlways`, `HandlesStay`, `FailureAlwaysJustified`, `BoundFunctorsAlwaysStay`, `AttemptsAlwaysBounded` | `threads` |
| `SerialProofs` | under SerialSpec: `SerialAlways`, `OneAnswerAlways`, `FailureNeverBinds`, `SuccessAlwaysReady`, `ServedFromHomeAlways`; SerialSpec implements `InitOnce`: `ImplementsInitOnceAlways` | `modules`, `tables`, `threads_early_answer` |
| `ExitProofs` | `PrimaryAlwaysReleased`, `NeverDanglingAlways` under SerialSpec, `CleanupAlwaysSafe` under OrderlySpec | `modules`, `early_cleanup` |
| `HeaderProofs` | `ParserTypeCorrect`, `RoomToPutBackAlways`, `PutBackInPlaceAlways`, `ReadsToTheEnd`, `ReferencesAreFunctionsAlways` | `header` |
| `GeneratorProofs` | `GeneratorTyped`, `DoneMeansCurrentAlways`, `RefusalKeepsPairsAlways`, `StopTearsOneAlways`, `WrappersFitFunctorsAlways` | `generator` |
| `ExamplesProofs` | under ExamplesSpec: `ExamplesAreOrderly`, `MannersAlways`, `CallsAlwaysEndInLibraries`, `WindowIsAlwaysCompleted`, `DisplaysAlwaysClosed`, `ReportsTheScreensAlways`, `LinesAlwaysAnswer`, `FailureAlwaysReported`, `TellsOfTheSystemAlways` | `examples`, `examples_headless` |

The argument, from the bottom:

- **Safe** (`WranglerProofs`, Spec).  `HandlesHeld` alone is not inductive: closing
  the handle of one slot must not take the last reference of another, which needs
  that a handle comes from the list of its own slot (`HandleNames`) and that lists
  are disjoint.  `HandlerBeforeHandle` needs to know of a thread about to open
  that its module is registered (`OpensRegistered`), also when its own `atexit`
  failed but another thread set `result` back to XEW_SUCCESS in between: that
  thread has registered the module.  `AvailableMeansCallable` needs that bound
  functors are in files with a reference (`BoundToOpen`), and that nothing is
  closed before exit (`NothingClosing`).  For each part of the state a lemma
  (`HandleSteps`, `FunctorSteps`, `RunningSteps`, `ControlSteps`, `ResultSteps`)
  says which actions change it; each conjunct then has one lemma that goes
  through those actions only.
- **Search** (`SearchProofs`, Spec).  Threads race through the same search, but all
  of them try the same names in the same order on files that do not change.  So
  a thread at name n has tried the earlier ones in vain (`SearchMissed`), which
  needs that it started at the first (`FromStart`); a stored handle is the first
  name that opens (`FirstHeld`), whoever stored it; and whoever finds a slot
  empty in the test, although others write to it, may conclude that no name opens
  (`TestMissed`).  From that follow `FailureIsJustified`, and, with `BoundFirst`,
  that fetching again gives a functor the value it had.  All of this is about a
  process that runs.  Once a thread has begun to exit, `atExitHandler` may clear a
  handle between the open and the test of another thread, which is then told
  XEW_ERROR_OPEN_FAILED of a library that opens; `FailureIsJustified` says nothing
  of answers given then.
- **Attempts** (`SearchProofs`, Spec).  The registrations of a module are at most as
  many as the threads that are past the step that registers
  (`RegistrationsCounted`), the opens of a name of a slot at most as many as the
  threads that are done with the slot (`OpensCounted`): a step that adds one
  takes its thread into that set, where it was not before.  A thread is in it
  once, as it comes to a module with one attempt only (`OneAttempt`), and
  nobody opens a file that is no name of a slot (`OthersClosed`).
- **Serial** (`SerialProofs`, SerialSpec).  One thread at a time is inside (`Alone`),
  a module is marked exactly when its attempt has begun (`Begun`), nobody was told
  anything of a module that is being worked at (`Untold`), and what was told is
  what `result` keeps (`Kept`).  That makes the answer one, and with `Bound` -
  functors are bound only of modules whose `result` is a success - it makes
  failure bind nothing.
- **Progress** (`SerialProofs`).  Loop invariants in the style of Hoare, one for each
  of the two loops of Init (`OpenLoop`, `FetchLoop`): all slots, or functions,
  before the current one are served.  They end in `OverMeansReady`, from which
  `SuccessMeansReady` follows.  They hold only because no other thread is inside,
  and because what `dlsym` says of a handle does not depend on what is opened
  later.
- **Refinement** (`SerialProofs`).  A module's attempt is over when no thread is
  inside with it before its return.  The step that ends it is `Settle`, with the
  code and the functions bound; a `Return` or an early return is `Tell`; all
  others stutter, and `exit` does not touch what `InitOnce` sees.
- **Release** (`ExitProofs`, SerialSpec).  The opens of the files of a slot are
  one if its handle is set and none otherwise (`Counted`), which needs that a slot
  is empty when its search begins (`EmptyBefore`, `EmptyAhead`); a module with
  its first slot open is still in the list of handlers, or being closed
  (`StillRegistered`).  When the list is empty nothing is left to close.
- **Anchors** (`ExitProofs`, SerialSpec).  A functor is bound to the first name of its
  slot that opens, and its slot holds that name until exit clears it
  (`BoundAtHome`).  A module with a bound functor has its required libraries open,
  and but for its first one it never closes them (`RequiredKept`): the anchor
  keeps its reference, and what it needs stays mapped, because what opens is
  closed under dependencies (`InstalledTogether`).
- **Orderly** (`ExitProofs`, OrderlySpec).  Handlers of the application are behind
  those of the modules (`AppsLast`), hence run before them, and until then no
  library has been closed (`NothingClosed`).
- **Tokens** (`HeaderProofs`).  That there is room for a token to be put back depends
  on where every procedure in progress is, not only on the innermost: when one
  returns, its caller goes on from a place at which it has no token in hand
  (`Awaiting`).  So the invariant `Held` joins three things.  `Placed`: what was put
  back is the token before `current`, also after a directive, whose end is looked
  for in the header (`LineInside`, `PastLinePlaced`).  `Nested`: the loop of
  `parse_header` is at the bottom and nowhere else, and every frame with another
  above it waits for what that one returns; hence the loop is not returned from.
  `TopBehind`: what the innermost procedure has in hand is the last token read.
  There are a dozen ways in which a procedure goes on (`HandStep`, `WaitStep`,
  `CallStep`, `ReturnStep` and those made of them), each proved once; an action is
  one of these.  That the program stops where it reads an attribute of None
  (`InHandUnlessFault`) is needed: else None would be handed back.
- **References** (`HeaderProofs`).  A function goes into `functions` and
  `file_structure` in one step; everything else that goes into `file_structure` is
  code, which refers to nothing (`ReferencesAppended`).  The passes over
  `file_structure` afterwards take entries away without looking at `functions`: the
  two of an empty block of C++ and the first two of the guards are code because
  of the words that they are told by (`LinkageStripped`, `GuardsStripped`), and the
  last one is by `GuardsMatch`.  The lists are compared by `FlattenJoined`: what a
  list of lists is flattened to can be cut in two anywhere.
- **Texts** (`GeneratorProofs`).  The lists of a file are made apart from each other,
  by passes over the same dictionary that keep some functions and turn each into
  code.  `FlattenPlaces` and `ListsTogether` say where in a flattened list an
  element of a part comes to stand, so that two passes that keep the same
  functions yield lists of the same names (`ListFollows`, `KeptNames`); and a
  function is looked up in the one library that mentions its header, in whatever
  order the dictionary is iterated (`HomeFound`).  From these the two texts fit
  the headers (`HeaderTextFits`, `SourceTextFits`).  Besides, all that is in them is
  made of functions of the headers (`HeaderTextRight`, `SourceTextRight`).
- **Code** (`GeneratorProofs`).  A typedef and a declaration are made by two walks over
  the return type that put different words where its `(*)` ends.  What such a walk
  yields is what is before, the words, the bracket and what is behind
  (`InThePointer`, by `FlattenJoined` again: the places before and behind are lists of
  one word each, `SinglesFlatten`).  The name of the functor's type is found first
  where the typedef has it, since nothing before is that word (`PointedIs`), and
  taking its brackets and star away leaves the declaration (`TypedefIs`).
- **Pairs** (`GeneratorProofs`).  That finished modules have current files is not
  inductive: what is written is made of what was found, so `InHand` says that
  the dictionary holds exactly the outcomes of the headers read so far, in their
  order - which it does because base names are distinct (`KeysApart`) - and that
  a module whose functions have no library does not come to its files
  (`Unplaced`).  `Pairs` then divides the modules in three: those before `at` are
  current and made of what was found (`Right`), those behind are as they were before the run, and the one at `at` is
  as it was until its header is opened.
- **Programs** (`ExamplesProofs`, ExamplesSpec).  Every step of a process is a step of
  an orderly application or leaves the wrangler alone (`ExamplesAreOrderly`), so
  what is proved under Spec, SerialSpec and OrderlySpec holds in it (`World`).  The
  instances of the wrangler inside of the three programs are first shown to be
  the wrangler (`X11Wrangler`, `XcbWrangler`, `XkbWrangler`).  Then, for each program:
  where main is and what it was told before (`X11Where`, `XcbWhere`, `XkbWhere`), for
  which `Awaits` says that an answer is on its way as long as Init goes on.
  `example_x11.c` has no display open but the one in its variable, and that one only
  between its two calls (`OneDisplay`); `Attentive` is `WindowIsCompleted` with the
  events selected before the window is mapped.  In `example_xcb.c` the parameter
  that is counted down while the iterator goes on is the line less the screens
  passed, and the outcome is what was passed at zero (`XcbLocals`); while nothing
  changed, the lines are the first of the screens (`Faithful`).  What HAS_SYMBOL
  answers is whether the file that was opened defines the function, or else
  whether the wrapper was found (`OfferedHas`); one of the two stays true up to the
  first call that depends on the answer, and only the first of them behind it
  (`X11Fit`, `XcbFit`).  What comes with what is defined is there
  (`ReliedOffered`).

Only model-checked:

- `WrappersForward`: it reads the parameters of a wrapper back by counting brackets,
  and what the arguments of a header have to be for that is its whole grammar;
- what the parser makes of a given header (`RefusesExactly`, `AllFunctionsListed`,
  the refinement of `Catalogue`), and what the properties assume of one that is well
  formed: `GuardsMatch`, and the parts of `NothingIsLost` that `ReadsToTheEnd` does
  not state - a header that ends inside of a declaration violates them;
- the tables themselves: 1605 given names are a matter of evaluation;
- liveness (`InitReturns`, `KeyEndsProgram`, `Terminates`, the fairness half of
  the refinement of `Catalogue`), which TLAPS does not prove.

Induction with an operator as its parameter is out of the prover's reach, but
`SequenceLemmas!Induction`, which is about a set of numbers, is not: it is all
that folding a list needs.

## 5. Plan

Done, in the order in which it was built: the wrangling logic with its linker
and `InitOnce`; the safety of handles and functors for any threads; the header
parser and `Catalogue`; the tables with all functions; call sites; the generator
from `main` to the files; the examples with an X server; the proofs of the search,
of serial applications, of the refinement, of exit, of the generator and of the code
that it makes, of the examples and of the parser: its types, its tokens and its two
lists.

Left:

1. `Interposition`: X11 and XCB with exported wrappers, where libX11 binds its own
   calls to XCB's wrappers (hazard at `source/xew_x11.c:4760`); which orders of Init
   are safe.

## 6. Not modelled

- Windows and macOS, where every list of names is empty and Init always fails
  with XEW_ERROR_OPEN_FAILED; the Windows half and the `_CHECKED` macros of
  `source/xew_util.h`, which the generated code does not use.
- Types, constants and structs in the wrapped headers: they have no state and no
  control.
- The layout of generated code (indentation, wrapping of lines, blank lines) and
  the fixed parts of the templates that are copied.
- The calls that the libraries make of each other, which a process with exported
  wrappers binds to those: `example_xcb.c` has all functors of XCB bound before
  libX11 is opened, other orders are left (section 5).
- An argument list with nothing but a comment in it, at which the generator raises
  (`auto/auto.py:334`).  `KeycodeNames` are the names among the wrapped headers
  that the substring test of `auto/auto.py:401` and the comparison next to it match.
- A header that two libraries mention (the substring test of `auto/auto.py:732`):
  `GeneratorAssumption` leaves it out, and the real tables have none.
- Shapes of declarations that the wrapped headers do not have: headers that end
  inside of a declaration, anonymous unions as the last field of a struct (the
  tokens after its brace would be read as a field), `const T *f()` with a typedef
  name T (T would be taken for the name), headers that begin with `#ifndef` and
  `#define` that are not guards, and declarations whose arguments cannot be told
  apart (`MISSING_ARGUMENT`).

Limits of the generator that the models have in them and no wrapped header
reaches: `generate_function_declarations` loses the `(*)` of a function that
returns a pointer to a function (`auto/auto.py:602-620`), which only modules with
`wrangle-typedefs` would show; there is no comma after an array argument that is
not the last (`auto/auto.py:527-531`).  One disagreement of text alone:
`auto/auto.py:110` names `libX11-xcb.so.6`, the committed `source/xew_x11.c:44`
`libX11-xcb.so.1`; the tables are those of the committed source.
`example_xcb.c` leaves its X11 display open when Xinerama is inactive, which no
property demands of a program that ends right away.
