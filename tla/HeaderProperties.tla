-------------------------- MODULE HeaderProperties --------------------------
(***************************************************************************)
(* What the parser of headers owes to the rest of the generator.  Each     *)
(* piece of a header carries, for the properties, the entries that it is   *)
(* to contribute, whether these are guards to be stripped, the names of    *)
(* the functions that it declares, and whether the parser refuses it.      *)
(***************************************************************************)
EXTENDS HeaderParser

Labels == DOMAIN Workaround \cup {Workaround[l] : l \in DOMAIN Workaround}
          \cup {"loop", "got_struct", "got_enum", "got_code", "struct", "fields",
                "nested", "field", "enum", "enum_named", "enum_open", "items",
                "enum_end", "typedef", "typedef_type", "typedef_body", "name",
                "declarator", "semicolon"}

Declaration ==
  [in_extern : BOOLEAN, tokens : Seq(Token), first_bracket : BOOLEAN, no_star : BOOLEAN,
   need_check : BOOLEAN, no_return : BOOLEAN]
Frames == [at : Labels, next : Token \cup {NONE}, code : Seq(Word)]

\* Types of the parser's state: parse_header and the Tokenizer.
ParserTypeOK ==
  /\ tokens \in Seq(Token)
  /\ current \in 1..(Len(tokens) + 1)
  /\ next_token \in Token \cup {NONE}
  /\ decl \in Declaration
  /\ stack \in Seq(Frames) /\ stack # <<>>
  /\ ret \in Seq(Word)
  /\ phase \in {"parse", "guards", "linkage", "done", "raised"}

Refused == {i \in DOMAIN header : header[i].refused}
\* The pieces that can be read: those before the first that cannot.
Readable == IF Refused = {} THEN header ELSE SubSeq(header, 1, Min(Refused) - 1)
PlanOf(pieces) ==
  LET Planned(piece) ==
        [i \in DOMAIN piece.entries |->
           [entry |-> piece.entries[i],
            lines |-> IF piece.guard THEN <<>> ELSE Lines(piece.entries[i])]] IN
    FlattenSeq([i \in DOMAIN pieces |-> Planned(pieces[i])])
Plan == PlanOf(Readable)
Entries(plan) == [i \in DOMAIN plan |-> plan[i].entry]

Found == IF phase \in {"parse", "raised"} THEN file_structure ELSE Entries(Plan)
Cat == INSTANCE Catalogue WITH plan <- Plan, readable <- Refused = {},
                             found <- Found, published <- output

\* Whatever order declarations come in, each contributes its own entries - a
\* function with its name, types, arguments and attribute, a type or directive
\* with all of its words - and nothing of it is left over for the next one; the
\* guards, and only they, are stripped, and the parser ends; of a header that it
\* cannot read, what is before the place is found and no code comes out
\* (parse_header).
ImplementsCatalogue == Cat!Spec

\* The list of functions, from which functors, wrappers and loaders are made,
\* names exactly the functions that the generated header declares, in the same
\* order: entries are added to both, and dropped from both (parse_header).
Refers(entry) == IF entry.type = "function" THEN <<entry.function>> ELSE <<>>
References(fs) == FlattenSeq([i \in DOMAIN fs |-> Refers(fs[i])])
ReferencesAreFunctions == functions = References(file_structure)

\* Of a header that begins as one with guards does, what is taken off the end
\* with them is a directive and no declaration (strip_header_guards looks at the
\* first two entries only).
GuardsMatch ==
  phase = "guards" /\ Guarded(file_structure) => Last(file_structure).type = "code"

\* Labels with a token in hand, and those of procedures that have not begun.
InHand == Attributes \cup {"fields", "field", "declarator"}
Beginning == {"struct", "enum", "typedef"}

\* There is room for one token: push_token raises an exception when one was put
\* back already.  Wherever a procedure holds a token that it may put back there
\* is room for it, however procedures are nested, and one that begins finds the
\* keyword that its caller put back.
RoomToPutBack ==
  /\ Top.at \in InHand => CanPush
  /\ Top.at \in Beginning => ~CanPush

\* No token is read twice, and none is left out or comes out of order, by being
\* put back: what was put back, or is in hand, is the token before the next one to
\* read - also after a directive, which is read up to the token behind it.
PutBackInPlace ==
  /\ next_token # NONE => current > 1 /\ next_token = tokens[LastRead]
  /\ Top.at \in InHand /\ Top.next # NONE => current > 1 /\ Top.next = tokens[LastRead]

\* A token that was put back when the last one had been read is never read
\* again (has_tokens does not count it): it is at most a token that the loop
\* would have passed over.
NothingIsLost ==
  phase \notin {"parse", "raised"} =>
    /\ current > Len(tokens)
    /\ next_token = NONE \/ IsComment(next_token) \/ Passed(next_token)
    /\ ~decl.in_extern /\ Len(stack) = 1

\* A header that the parser cannot read is refused, at the declaration that it
\* cannot read and with what it found before: enums in structs, directives
\* without a name, includes inside of a type.  No other header is.
RefusesExactly ==
  LET Before(i) == FlattenSeq([j \in 1..(i - 1) |-> header[j].entries]) IN
    /\ phase = "raised" => \E i \in Refused : /\ \A j \in Refused : i <= j
                                             /\ file_structure = Before(i)
    /\ phase \in {"guards", "linkage", "done"} => Refused = {}

\* "List of all functions in the parsed sources": every function that the
\* header declares is in it when the header was parsed.
AllFunctionsListed ==
  phase = "done" => [i \in DOMAIN functions |-> functions[i].name]
                    = FlattenSeq([i \in DOMAIN header |-> header[i].declares])
=============================================================================
