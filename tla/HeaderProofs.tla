---------------------------- MODULE HeaderProofs ----------------------------
(***************************************************************************)
(* What holds of parse_header whatever the header is: the two lists in     *)
(* which functions are kept say the same, the procedures keep to their     *)
(* types, and tokens are put back one at a time and where they belong.     *)
(***************************************************************************)
EXTENDS HeaderProperties, SequenceLemmas

\* The references of entries, one list for each entry.
Each(fs) == [i \in DOMAIN fs |-> Refers(fs[i])]

\* Where c is a and then b, and d is x and then y.
Halves(c, a, b, n, m) ==
  \A k \in 1..(n + m) : /\ k <= n => c[k] = a[k]
                        /\ n < k => c[k] = b[k - n]

LEMMA HalvesOf ==
  ASSUME NEW S, NEW a \in Seq(S), NEW b \in Seq(S)
  PROVE  /\ a \o b \in Seq(S) /\ Len(a \o b) = Len(a) + Len(b)
         /\ Halves(a \o b, a, b, Len(a), Len(b))
BY ConcatProperties, LenProperties DEF Halves

\* The references of two lists of entries, one after the other.
LEMMA ReferencesJoined ==
  ASSUME NEW E, NEW a \in Seq(E), NEW b \in Seq(E)
  PROVE  /\ References(a \o b) = References(a) \o References(b)
         /\ References(a) \in Seq({e.function : e \in E})
<1> DEFINE S == {e.function : e \in E}
<1>1. ASSUME NEW e \in E PROVE Refers(e) \in Seq(S)
  <2>1. e.function \in S /\ <<>> \in Seq(S)
    OBVIOUS
  <2>2. <<e.function>> \in Seq(S)
    BY <2>1
  <2> QED
    BY <2>1, <2>2 DEF Refers
<1> HIDE DEF S
<1>2. ASSUME NEW c \in Seq(E)
      PROVE  /\ Each(c) \in Seq(Seq(S)) /\ Len(Each(c)) = Len(c)
             /\ \A i \in 1..Len(c) : Each(c)[i] = Refers(c[i])
  <2>1. Len(c) \in Nat /\ DOMAIN c = 1..Len(c) /\ \A i \in 1..Len(c) : c[i] \in E
    BY LenProperties, ElementOfSeq
  <2>2. Each(c) = [i \in 1..Len(c) |-> Refers(c[i])]
    BY <2>1 DEF Each
  <2>3. \A i \in 1..Len(c) : Refers(c[i]) \in Seq(S)
    BY <2>1, <1>1
  <2>4. Each(c) \in Seq(Seq(S)) /\ DOMAIN Each(c) = 1..Len(c)
    BY <2>1, <2>2, <2>3
  <2>5. Len(Each(c)) = Len(c)
    BY <2>1, <2>4, LenProperties
  <2> QED
    BY <2>2, <2>4, <2>5
<1>3. a \o b \in Seq(E)
  BY ConcatProperties
<1>4. Each(a \o b) = Each(a) \o Each(b)
  <2> SUFFICES ASSUME NEW n \in Nat, n = Len(a), NEW m \in Nat, m = Len(b),
                      NEW c, c = a \o b, NEW d, d = Each(a) \o Each(b)
               PROVE  Each(c) = d
    BY LenProperties
  <2>1. c \in Seq(E) /\ Len(c) = n + m /\ Halves(c, a, b, n, m)
    <3>1. /\ a \o b \in Seq(E) /\ Len(a \o b) = Len(a) + Len(b)
          /\ Halves(a \o b, a, b, Len(a), Len(b))
      BY HalvesOf, Zenon
    <3> QED
      BY <3>1
  <2>2. d \in Seq(Seq(S)) /\ Len(d) = n + m /\ Halves(d, Each(a), Each(b), n, m)
    <3>1. Each(a) \in Seq(Seq(S)) /\ Each(b) \in Seq(Seq(S))
      BY <1>2
    <3>2. /\ Each(a) \o Each(b) \in Seq(Seq(S))
          /\ Len(Each(a) \o Each(b)) = Len(Each(a)) + Len(Each(b))
          /\ Halves(Each(a) \o Each(b), Each(a), Each(b), Len(Each(a)), Len(Each(b)))
      BY <3>1, HalvesOf, Zenon
    <3>3. Len(Each(a)) = n /\ Len(Each(b)) = m
      BY <1>2
    <3> QED
      BY <3>2, <3>3
  <2>3. /\ \A i \in 1..n : Each(a)[i] = Refers(a[i])
        /\ \A i \in 1..m : Each(b)[i] = Refers(b[i])
    BY <1>2
  <2>4. /\ Each(c) \in Seq(Seq(S)) /\ Len(Each(c)) = n + m
        /\ \A i \in 1..(n + m) : Each(c)[i] = Refers(c[i])
    BY <1>2, <2>1
  <2>5. \A k \in 1..(n + m) : Each(c)[k] = d[k]
    <3>1. ASSUME NEW k \in 1..(n + m) PROVE Each(c)[k] = d[k]
      <4>1. CASE k <= n
        <5>1. c[k] = a[k] /\ d[k] = Each(a)[k] /\ k \in 1..n
          BY <4>1, <2>1, <2>2 DEF Halves
        <5> QED
          BY <5>1, <2>3, <2>4
      <4>2. CASE n < k
        <5>1. c[k] = b[k - n] /\ d[k] = Each(b)[k - n] /\ k - n \in 1..m
          BY <4>2, <2>1, <2>2 DEF Halves
        <5>2. Each(b)[k - n] = Refers(b[k - n])
          BY <5>1, <2>3
        <5>3. Each(c)[k] = Refers(c[k])
          BY <2>4
        <5> QED
          BY <5>1, <5>2, <5>3
      <4>3. k <= n \/ n < k
        OBVIOUS
      <4> QED
        BY <4>1, <4>2, <4>3, Zenon
    <3> QED
      BY <3>1
  <2> QED
    BY <2>2, <2>4, <2>5, SeqEqual
<1>5. FlattenSeq(Each(a) \o Each(b)) = FlattenSeq(Each(a)) \o FlattenSeq(Each(b))
  BY <1>2, FlattenJoined
<1>6. FlattenSeq(Each(a)) \in Seq(S)
  <2>1. <<>> \in Seq(S)
    OBVIOUS
  <2> QED
    BY <1>2, <2>1, FlattenAppended
<1> QED
  BY <1>4, <1>5, <1>6 DEF References, Each, S

\* Code is no reference, a reference is one.
LEMMA ReferencesOfOne ==
  /\ \A e : e.type = "code" => References(<<e>>) = <<>>
  /\ \A e : e.type = "function" => References(<<e>>) = <<e.function>>
<1>1. ASSUME NEW e, NEW x, Refers(e) = x PROVE References(<<e>>) = FlattenSeq(<<x>>)
  BY <1>1 DEF References
<1>2. ASSUME NEW S, NEW x \in Seq(S) PROVE FlattenSeq(<<x>>) = x
  <2>1. /\ <<x>> = Append(<<>>, x) /\ <<>> \in Seq(Seq(S))
        /\ FlattenSeq(<<>>) = <<>>
    BY DEF FlattenSeq
  <2>2. FlattenSeq(Append(<<>>, x)) = <<>> \o x
    BY <2>1, FlattenAppended
  <2> QED
    BY <2>1, <2>2
<1>3. ASSUME NEW e, e.type = "code" PROVE References(<<e>>) = <<>>
  <2>1. Refers(e) = <<>> /\ <<>> \in Seq({})
    BY <1>3 DEF Refers
  <2> QED
    BY <1>1, <1>2, <2>1
<1>4. ASSUME NEW e, e.type = "function" PROVE References(<<e>>) = <<e.function>>
  <2>1. Refers(e) = <<e.function>> /\ <<e.function>> \in Seq({e.function})
    BY <1>4 DEF Refers
  <2> QED
    BY <1>1, <1>2, <2>1
<1> QED
  BY <1>3, <1>4

\* What an entry adds.
LEMMA ReferencesAppended ==
  ASSUME NEW E, NEW fs \in Seq(E), NEW e
  PROVE  /\ Append(fs, e) \in Seq(E \cup {e})
         /\ e.type = "code" => References(Append(fs, e)) = References(fs)
         /\ e.type = "function" =>
              References(Append(fs, e)) = Append(References(fs), e.function)
<1> DEFINE F == E \cup {e}
           T == {x.function : x \in F}
<1>1. fs \in Seq(F) /\ <<e>> \in Seq(F) /\ e \in F
  BY SeqMonotonic
<1>2. Append(fs, e) = fs \o <<e>> /\ Append(fs, e) \in Seq(F)
  BY <1>1, AppendIsConcat
<1>3. References(Append(fs, e)) = References(fs) \o References(<<e>>) /\ References(fs) \in Seq(T)
  BY <1>1, <1>2, ReferencesJoined
<1>4. e.type = "code" => References(<<e>>) = <<>>
  BY ReferencesOfOne
<1>5. e.type = "function" => References(<<e>>) = <<e.function>>
  BY ReferencesOfOne
<1>6. References(fs) \o <<>> = References(fs)
  BY <1>3, ConcatEmptySeq
<1>7. Append(References(fs), e.function) = References(fs) \o <<e.function>>
  <2>1. e.function \in T
    OBVIOUS
  <2> QED
    BY <1>3, <2>1, AppendIsConcat
<1> QED
  BY <1>2, <1>3, <1>4, <1>5, <1>6, <1>7

\* What is between two places, and code at the first of them.
LEMMA CodeFirst ==
  ASSUME NEW E, NEW fs \in Seq(E), NEW i \in 1..Len(fs), fs[i].type = "code"
  PROVE  /\ SubSeq(fs, i + 1, Len(fs)) \in Seq(E)
         /\ References(SubSeq(fs, i, Len(fs))) = References(SubSeq(fs, i + 1, Len(fs)))
<1>1. Len(fs) \in Nat /\ i \in Int /\ \A k \in 1..Len(fs) : fs[k] \in E
  BY LenProperties, ElementOfSeq
<1>2. SubSeq(fs, i + 1, Len(fs)) \in Seq(E)
  BY <1>1, SubSeqProperties
<1>3. SubSeq(fs, i, Len(fs)) = <<fs[i]>> \o SubSeq(fs, i + 1, Len(fs))
  BY <1>1, SubSeqRecursiveFirst
<1>4. <<fs[i]>> \in Seq(E) /\ References(<<fs[i]>>) = <<>>
  BY <1>1, ReferencesOfOne
<1>5. /\ References(SubSeq(fs, i, Len(fs))) = <<>> \o References(SubSeq(fs, i + 1, Len(fs)))
      /\ References(SubSeq(fs, i + 1, Len(fs))) \in Seq({e.function : e \in E})
  BY <1>2, <1>3, <1>4, ReferencesJoined
<1> QED
  BY <1>2, <1>5, ConcatEmptySeq

\* The two lists say the same, and one of them is a list.
SameFunctions ==
  /\ \E E : file_structure \in Seq(E)
  /\ ReferencesAreFunctions

\* The guards that are taken off are code, the first two because of the words
\* that they begin with.
LEMMA GuardsStripped == SameFunctions /\ GuardsMatch /\ StripHeaderGuards => SameFunctions'
<1> SUFFICES ASSUME SameFunctions, GuardsMatch, StripHeaderGuards PROVE SameFunctions'
  OBVIOUS
<1> DEFINE fs == file_structure
           n == Len(fs)
<1>1. PICK E : fs \in Seq(E)
  BY DEF SameFunctions
<1>2. functions = References(fs) /\ functions' = functions
  BY DEF SameFunctions, ReferencesAreFunctions, StripHeaderGuards
<1>3. CASE ~Guarded(fs)
  BY <1>1, <1>2, <1>3 DEF SameFunctions, ReferencesAreFunctions, StripHeaderGuards
<1>4. CASE Guarded(fs)
  <2> DEFINE inner == SubSeq(fs, 3, n - 1)
  <2>1. /\ n \in Nat /\ n >= 3 /\ fs[1].type = "code" /\ fs[2].type = "code"
        /\ fs[n].type = "code" /\ file_structure' = inner
    BY <1>1, <1>4, LenProperties DEF Guarded, StartsWith, StripHeaderGuards, GuardsMatch, Last
  <2>2. 1 \in 1..n /\ 2 \in 1..n /\ n \in 1..n /\ \A k \in 1..n : fs[k] \in E
    BY <1>1, <2>1, ElementOfSeq
  <2>3. /\ References(SubSeq(fs, 1, n)) = References(SubSeq(fs, 2, n))
        /\ References(SubSeq(fs, 2, n)) = References(SubSeq(fs, 3, n))
    <3>1. 1 + 1 = 2 /\ 2 + 1 = 3
      OBVIOUS
    <3> QED
      BY <1>1, <2>1, <2>2, <3>1, CodeFirst
  <2>4. SubSeq(fs, 1, n) = fs
    BY <1>1, SubSeqFull
  <2>5. SubSeq(fs, 3, n) = inner \o <<fs[n]>>
    <3>1. 3 \in 1..n /\ n \in 3..n
      BY <2>1
    <3> QED
      BY <1>1, <3>1, SubSeqRecursiveSecond, Zenon
  <2>6. inner \in Seq(E) /\ <<fs[n]>> \in Seq(E)
    BY <2>1, <2>2, SubSeqProperties
  <2>7. References(<<fs[n]>>) = <<>>
    BY <2>1, ReferencesOfOne
  <2>8. /\ References(SubSeq(fs, 3, n)) = References(inner) \o <<>>
        /\ References(inner) \in Seq({x.function : x \in E})
    BY <2>5, <2>6, <2>7, ReferencesJoined
  <2>9. References(inner) = functions'
    BY <1>2, <2>3, <2>4, <2>8, ConcatEmptySeq
  <2> QED
    BY <2>1, <2>6, <2>9 DEF SameFunctions, ReferencesAreFunctions
<1> QED
  BY <1>3, <1>4

\* So are the two lines of an empty block of C++.
LEMMA LinkageStripped == SameFunctions /\ StripExternCPass => SameFunctions'
<1> SUFFICES ASSUME SameFunctions, StripExternCPass PROVE SameFunctions'
  OBVIOUS
<1> DEFINE fs == file_structure
           n == Len(fs)
<1>1. PICK E : fs \in Seq(E)
  BY DEF SameFunctions
<1>2. functions = References(fs) /\ functions' = functions
  BY DEF SameFunctions, ReferencesAreFunctions, StripExternCPass
<1>3. n \in Nat /\ \A k \in 1..n : fs[k] \in E
  BY <1>1, LenProperties, ElementOfSeq
<1>4. PICK i \in LinkageAt(fs) :
        file_structure' = SubSeq(fs, 1, i - 1) \o SubSeq(fs, i + 2, n)
  <2>1. PICK j \in LinkageAt(fs) : \A k \in LinkageAt(fs) : j <= k
    <3>1. LinkageAt(fs) \in SUBSET Nat
      BY <1>3 DEF LinkageAt
    <3>2. LinkageAt(fs) # {}
      BY DEF StripExternCPass
    <3> QED
      BY <3>1, <3>2, Least, Zenon
  <2> QED
    BY <2>1 DEF StripExternCPass
<1> DEFINE before == SubSeq(fs, 1, i - 1)
           after == SubSeq(fs, i + 2, n)
<1>5. /\ i \in 1..n /\ i + 1 \in 1..n /\ i \in Nat
      /\ fs[i].type = "code" /\ fs[i + 1].type = "code"
  BY <1>3 DEF LinkageAt, Code
<1>6. before \in Seq(E) /\ after \in Seq(E) /\ SubSeq(fs, i, n) \in Seq(E)
  BY <1>3, <1>5, SubSeqProperties
<1>7. fs = before \o SubSeq(fs, i, n)
  <2>1. /\ 1 \in 1..(n + 1) /\ i - 1 \in (1 - 1)..n /\ n \in (i - 1)..n
        /\ (i - 1) + 1 = i
    BY <1>3, <1>5
  <2>2. SubSeq(fs, 1, i - 1) \o SubSeq(fs, (i - 1) + 1, n) = SubSeq(fs, 1, n)
    BY <1>1, <2>1, ConcatAdjacentSubSeq, Zenon
  <2>3. SubSeq(fs, 1, n) = fs
    BY <1>1, SubSeqFull
  <2> QED
    BY <2>1, <2>2, <2>3
<1>8. /\ References(SubSeq(fs, i, n)) = References(SubSeq(fs, i + 1, n))
      /\ References(SubSeq(fs, i + 1, n)) = References(after)
  <2>1. (i + 1) + 1 = i + 2
    BY <1>5
  <2> QED
    BY <1>1, <1>5, <2>1, CodeFirst
<1>9. References(fs) = References(before \o after)
  <2>1. References(before \o SubSeq(fs, i, n)) = References(before) \o References(SubSeq(fs, i, n))
    BY <1>6, ReferencesJoined
  <2>2. References(before \o after) = References(before) \o References(after)
    BY <1>6, ReferencesJoined
  <2> QED
    BY <1>7, <1>8, <2>1, <2>2
<1>10. before \o after \in Seq(E)
  BY <1>6, ConcatProperties
<1> QED
  BY <1>2, <1>4, <1>9, <1>10 DEF SameFunctions, ReferencesAreFunctions

LEMMA SameFunctionsKept ==
  ASSUME SameFunctions, UNCHANGED resultVars
  PROVE  SameFunctions'
BY DEF SameFunctions, ReferencesAreFunctions, resultVars

\* Code is added to the entries and to nothing else.
LEMMA SameFunctionsWithCode ==
  ASSUME SameFunctions, UNCHANGED functions, NEW words, AddEntry(Code(words))
  PROVE  SameFunctions'
<1>1. PICK E : file_structure \in Seq(E)
  BY DEF SameFunctions
<1>2. Code(words).type = "code" /\ file_structure' = Append(file_structure, Code(words))
  BY DEF Code, AddEntry
<1>3. /\ file_structure' \in Seq(E \cup {Code(words)})
      /\ References(file_structure') = References(file_structure)
  BY <1>1, <1>2, ReferencesAppended, Zenon
<1> QED
  BY <1>3 DEF SameFunctions, ReferencesAreFunctions

\* A function is added to both.
LEMMA SameFunctionsWithOne ==
  ASSUME SameFunctions, NEW f, functions' = Append(functions, f), AddEntry(Reference(f))
  PROVE  SameFunctions'
<1>1. PICK E : file_structure \in Seq(E)
  BY DEF SameFunctions
<1>2. /\ Reference(f).type = "function" /\ Reference(f).function = f
      /\ file_structure' = Append(file_structure, Reference(f))
  BY DEF Reference, AddEntry
<1>3. /\ file_structure' \in Seq(E \cup {Reference(f)})
      /\ References(file_structure')
           = Append(References(file_structure), Reference(f).function)
  BY <1>1, <1>2, ReferencesAppended, Zenon
<1> QED
  BY <1>2, <1>3 DEF SameFunctions, ReferencesAreFunctions

\* One token of the loop.
LEMMA SameFunctionsLoop == SameFunctions /\ Loop => SameFunctions'
<1> SUFFICES ASSUME SameFunctions, Loop PROVE SameFunctions'
  OBVIOUS
<1> DEFINE t == NextToken(FALSE)
<1>1. \/ Pass(t) \/ TakeDirective(t) \/ Linkage(t) \/ Comment(t)
      \/ Keyword(t) \/ Punctuation(t) \/ Name(t) \/ Semicolon(t)
  BY DEF Loop
<1> HIDE DEF t
<1>2. CASE Pass(t) \/ Linkage(t) \/ Comment(t) \/ Punctuation(t) \/ Name(t)
  BY <1>2, SameFunctionsKept DEF Pass, Linkage, Comment, Punctuation, Name, Becomes
<1>3. CASE Keyword(t)
  BY <1>3, SameFunctionsKept DEF Keyword, Becomes, Descend
<1>4. CASE TakeDirective(t)
  <2>1. CASE UNCHANGED file_structure
    BY <1>4, <2>1, SameFunctionsKept DEF TakeDirective, resultVars
  <2>2. CASE AddEntry(Code(Line(Upcoming)))
    BY <1>4, <2>2, SameFunctionsWithCode DEF TakeDirective
  <2> QED
    BY <1>4, <2>1, <2>2 DEF TakeDirective
<1>5. CASE Semicolon(t)
  <2>1. PICK f : IF Declares /\ ~Dropped(f)
                 THEN functions' = Append(functions, f) /\ AddEntry(Reference(f))
                 ELSE UNCHANGED resultVars
    BY <1>5 DEF Semicolon
  <2> QED
    BY <2>1, SameFunctionsKept, SameFunctionsWithOne
<1> QED
  BY <1>1, <1>2, <1>3, <1>4, <1>5

\* The code that a procedure returned.
LEMMA SameFunctionsGot == SameFunctions /\ (GotCode \/ GotType) => SameFunctions'
<1> SUFFICES ASSUME SameFunctions, GotCode \/ GotType PROVE SameFunctions'
  OBVIOUS
<1>1. UNCHANGED functions /\ (AddEntry(Code(ret)) \/ UNCHANGED file_structure)
  BY DEF GotCode, GotType
<1>2. CASE AddEntry(Code(ret))
  BY <1>1, <1>2, SameFunctionsWithCode
<1>3. CASE UNCHANGED file_structure
  BY <1>1, <1>3, SameFunctionsKept DEF resultVars
<1> QED
  BY <1>1, <1>2, <1>3

LEMMA SameFunctionsStep == SameFunctions /\ GuardsMatch /\ [Next]_vars => SameFunctions'
<1> SUFFICES ASSUME SameFunctions, GuardsMatch, [Next]_vars PROVE SameFunctions'
  OBVIOUS
<1>1. CASE ParseHeader
  BY <1>1, SameFunctionsLoop, SameFunctionsGot DEF ParseHeader
<1>2. CASE SubParser \/ Raise \/ EndLoop
  BY <1>2, SameFunctionsKept DEF SubParser, Raise, EndLoop
<1>3. CASE StripHeaderGuards
  BY <1>3, GuardsStripped
<1>4. CASE StripExternCPass
  BY <1>4, LinkageStripped
<1>5. CASE CombineFileStructure
  BY <1>5, SameFunctionsKept DEF CombineFileStructure
<1>6. CASE UNCHANGED vars
  BY <1>6, SameFunctionsKept DEF vars
<1> QED
  BY <1>1, <1>2, <1>3, <1>4, <1>5, <1>6 DEF Next, Program, Ended

\* parse_header adds every function to functions and to file_structure at once,
\* and what the two passes over file_structure take away is code - as long as
\* what stands last in a header that begins with guards is a directive: then the
\* functors, wrappers and loaders, made from the one list, and the generated
\* header, made from the other, are about the same functions in the same order,
\* whatever the header has in it.
THEOREM ReferencesAreFunctionsAlways == Spec /\ []GuardsMatch => []ReferencesAreFunctions
<1>1. Init => SameFunctions
  <2> SUFFICES ASSUME Init PROVE SameFunctions
    OBVIOUS
  <2>1. file_structure = <<>> /\ functions = <<>> /\ <<>> \in Seq({})
    BY DEF Init
  <2>2. References(<<>>) = <<>>
    BY DEF References, FlattenSeq
  <2> QED
    BY <2>1, <2>2 DEF SameFunctions, ReferencesAreFunctions
<1>2. SameFunctions => ReferencesAreFunctions
  BY DEF SameFunctions
<1> QED
  BY <1>1, <1>2, SameFunctionsStep, PTL DEF Spec

-----------------------------------------------------------------------------
(* The parser: its types, and where the token is that it holds.            *)

\* All but the last.
LEMMA FrontOf ==
  ASSUME NEW S, NEW s \in Seq(S), s # <<>>
  PROVE  /\ Len(s) \in Nat /\ Len(s) >= 1
         /\ Front(s) \in Seq(S) /\ Len(Front(s)) = Len(s) - 1
         /\ \A i \in 1..(Len(s) - 1) : Front(s)[i] = s[i]
<1>1. Len(s) \in Nat /\ Len(s) >= 1
  <2>1. Len(s) \in Nat /\ Len(s) # 0
    BY EmptySeq, LenProperties
  <2> QED
    BY <2>1
<1> DEFINE n == Len(s) - 1
<1>2. n \in Nat /\ 1 \in 1..(Len(s) + 1) /\ n \in (1 - 1)..Len(s)
  BY <1>1
<1>3. /\ SubSeq(s, 1, n) \in Seq(S)
      /\ Len(SubSeq(s, 1, n)) = IF 1 <= n THEN n - 1 + 1 ELSE 0
      /\ \A i \in 1..(n - 1 + 1) : SubSeq(s, 1, n)[i] = s[1 + i - 1]
  BY <1>2, SubSeqProperties
<1>4. (IF 1 <= n THEN n - 1 + 1 ELSE 0) = n /\ n - 1 + 1 = n
  BY <1>2
<1>5. \A i \in 1..n : SubSeq(s, 1, n)[i] = s[i]
  <2>1. ASSUME NEW i \in 1..n PROVE SubSeq(s, 1, n)[i] = s[i]
    <3>1. i \in 1..(n - 1 + 1) /\ 1 + i - 1 = i
      BY <1>2
    <3> QED
      BY <1>3, <3>1
  <2> QED
    BY <2>1
<1> QED
  BY <1>1, <1>3, <1>4, <1>5 DEF Front

\* What a stack is when its top was replaced, when one was put on it, and when
\* its top was taken off.
Replaces(u, s, e, S) ==
  /\ u \in Seq(S) /\ u # <<>> /\ Len(u) = Len(s) /\ Last(u) = e
  /\ \A i \in 1..(Len(s) - 1) : u[i] = s[i]
Covers(u, s, d, e, S) ==
  /\ u \in Seq(S) /\ u # <<>> /\ Len(u) = Len(s) + 1 /\ Last(u) = e /\ u[Len(s)] = d
  /\ \A i \in 1..(Len(s) - 1) : u[i] = s[i]

LEMMA TopReplaced ==
  ASSUME NEW S, NEW s \in Seq(S), s # <<>>, NEW e \in S, NEW u, u = Append(Front(s), e)
  PROVE  Replaces(u, s, e, S)
<1>1. Len(s) \in Nat /\ Len(s) # 0
  BY FrontOf
<1>2. /\ Front(s) \in Seq(S) /\ Len(Front(s)) = Len(s) - 1
      /\ \A i \in 1..(Len(s) - 1) : Front(s)[i] = s[i]
  BY FrontOf
<1>3. /\ u \in Seq(S) /\ u # <<>> /\ Len(u) = Len(Front(s)) + 1 /\ u[Len(Front(s)) + 1] = e
      /\ \A i \in 1..Len(Front(s)) : u[i] = Front(s)[i]
  BY <1>2, AppendProperties
<1> QED
  BY <1>1, <1>2, <1>3 DEF Last, Replaces

LEMMA TopCovered ==
  ASSUME NEW S, NEW s \in Seq(S), s # <<>>, NEW d \in S, NEW e \in S,
         NEW u, u = Front(s) \o <<d, e>>
  PROVE  Covers(u, s, d, e, S)
<1>1. Len(s) \in Nat /\ Len(s) # 0
  BY FrontOf
<1>2. /\ Front(s) \in Seq(S) /\ Len(Front(s)) = Len(s) - 1
      /\ \A i \in 1..(Len(s) - 1) : Front(s)[i] = s[i]
  BY FrontOf
<1>3. <<d, e>> \in Seq(S) /\ Len(<<d, e>>) = 2 /\ <<d, e>>[1] = d /\ <<d, e>>[2] = e
  OBVIOUS
<1>4. /\ u \in Seq(S) /\ Len(u) = Len(Front(s)) + 2
      /\ \A k \in 1..Len(u) :
           \/ k \in 1..Len(Front(s)) /\ k <= Len(Front(s)) /\ u[k] = Front(s)[k]
           \/ k > Len(Front(s)) /\ k - Len(Front(s)) \in 1..2
                /\ u[k] = <<d, e>>[k - Len(Front(s))]
  BY <1>2, <1>3, Joined
<1>5. Len(u) = Len(s) + 1 /\ \A i \in 1..(Len(s) - 1) : u[i] = s[i]
  BY <1>1, <1>2, <1>4
<1>6. u[Len(s)] = d
  <2>1. Len(s) \in 1..Len(u) /\ Len(s) - Len(Front(s)) = 1 /\ ~(Len(s) <= Len(Front(s)))
    BY <1>1, <1>2, <1>5
  <2> QED
    BY <1>3, <1>4, <2>1
<1>7. u[Len(s) + 1] = e
  <2>1. /\ Len(s) + 1 \in 1..Len(u) /\ (Len(s) + 1) - Len(Front(s)) = 2
        /\ ~(Len(s) + 1 <= Len(Front(s)))
    BY <1>1, <1>2, <1>5
  <2> QED
    BY <1>3, <1>4, <2>1
<1>8. u # <<>>
  BY <1>1, <1>4, <1>5, EmptySeq
<1> QED
  BY <1>4, <1>5, <1>6, <1>7, <1>8 DEF Last, Covers

LEMMA TopTaken ==
  ASSUME NEW S, NEW s \in Seq(S), s # <<>>, Len(s) # 1, NEW u, u = Front(s)
  PROVE  /\ u \in Seq(S) /\ u # <<>> /\ Len(u) = Len(s) - 1 /\ Last(u) = s[Len(s) - 1]
         /\ \A i \in 1..(Len(s) - 1) : u[i] = s[i]
<1>1. Len(s) \in Nat /\ Len(s) >= 2
  <2>1. Len(s) \in Nat /\ Len(s) >= 1
    BY FrontOf
  <2>2. \A n \in Nat : n >= 1 /\ n # 1 => n >= 2
    OBVIOUS
  <2> QED
    BY <2>1, <2>2, Zenon
<1>2. /\ u \in Seq(S) /\ Len(u) = Len(s) - 1
      /\ \A i \in 1..(Len(s) - 1) : u[i] = s[i]
  BY FrontOf
<1>3. Len(s) - 1 \in 1..(Len(s) - 1)
  BY <1>1
<1>4. u # <<>>
  BY <1>1, <1>2, EmptySeq
<1> QED
  BY <1>2, <1>3, <1>4 DEF Last

\* The words of tokens are words.
LEMMA WordsTyped ==
  ASSUME NEW ts \in Seq(Token)
  PROVE  WordsOf(ts) \in Seq(Word) /\ SpokenWords(ts) \in Seq(Word)
<1>1. Len(ts) \in Nat /\ DOMAIN ts = 1..Len(ts) /\ \A i \in 1..Len(ts) : ts[i].sp \in Seq(Word)
  <2>1. \A i \in 1..Len(ts) : ts[i] \in Token
    BY ElementOfSeq
  <2> QED
    BY <2>1, LenProperties DEF Token
<1>2. [i \in DOMAIN ts |-> ts[i].sp] \in Seq(Seq(Word))
  BY <1>1
<1>3. [i \in DOMAIN ts |-> IF IsComment(ts[i]) THEN <<>> ELSE ts[i].sp] \in Seq(Seq(Word))
  <2>1. <<>> \in Seq(Word)
    OBVIOUS
  <2>2. \A i \in 1..Len(ts) : (IF IsComment(ts[i]) THEN <<>> ELSE ts[i].sp) \in Seq(Word)
    BY <1>1, <2>1
  <2> QED
    BY <1>1, <2>2
<1> QED
  BY <1>2, <1>3, FlattenPlaces DEF WordsOf, SpokenWords

\* The Tokenizer's variables.
TokensTyped ==
  /\ tokens \in Seq(Token) /\ Len(tokens) \in Nat
  /\ current \in 1..(Len(tokens) + 1)
  /\ next_token \in Token \cup {NONE}

\* Reading without comments stops somewhere.
LEMMA LandingInside ==
  ASSUME TokensTyped, HasTokens, NEW skip
  PROVE  Landing(skip) \in current..Len(tokens)
<1>1. current \in 1..Len(tokens) /\ Len(tokens) \in Nat
  BY DEF TokensTyped, HasTokens
<1>2. CASE skip
  <2> DEFINE Stops == {i \in current..Len(tokens) : i = Len(tokens) \/ ~IsComment(tokens[i])}
  <2>1. Stops \in SUBSET Nat /\ Len(tokens) \in Stops
    BY <1>1
  <2>2. PICK i \in Stops : \A k \in Stops : i <= k
    BY <2>1, Least
  <2>3. \A j \in current..(i - 1) : IsComment(tokens[j])
    <3>1. ASSUME NEW j \in current..(i - 1) PROVE IsComment(tokens[j])
      <4>1. j \in current..Len(tokens) /\ ~(i <= j)
        BY <1>1, <2>1
      <4> QED
        BY <2>2, <4>1
    <3> QED
      BY <3>1
  <2>4. i \in current..Len(tokens) /\ (i = Len(tokens) \/ ~IsComment(tokens[i]))
    BY <2>1
  <2> HIDE DEF Stops
  <2> QED
    BY <1>2, <2>3, <2>4 DEF Landing
<1>3. CASE ~skip
  BY <1>1, <1>3 DEF Landing
<1> QED
  BY <1>2, <1>3

\* t, if anything, is the token before place c.
Behind(t, c) == t \in Token \cup {NONE} /\ (t # NONE => c > 1 /\ t = tokens[c - 1])

\* What was put back is the last that was read.
Placed == TokensTyped /\ Behind(next_token, current)

LEMMA UnreadBehind ==
  ASSUME TokensTyped, NEW skip
  PROVE  /\ PastUnread(skip) \in 1..(Len(tokens) + 1)
         /\ Behind(Unread(skip), PastUnread(skip))
<1>1. CASE HasTokens
  <2> DEFINE i == Landing(skip)
  <2>1. i \in 1..Len(tokens) /\ Len(tokens) \in Nat
    BY <1>1, LandingInside DEF TokensTyped
  <2>2. Unread(skip) = tokens[i] /\ PastUnread(skip) = i + 1
    BY <1>1 DEF Unread, PastUnread
  <2>3. tokens[i] \in Token
    BY <2>1, ElementOfSeq DEF TokensTyped
  <2> HIDE DEF i
  <2>4. i + 1 > 1 /\ (i + 1) - 1 = i /\ i + 1 \in 1..(Len(tokens) + 1)
    BY <2>1
  <2> QED
    BY <2>2, <2>3, <2>4 DEF Behind
<1>2. CASE ~HasTokens
  BY <1>2 DEF Unread, PastUnread, TokensTyped, Behind
<1> QED
  BY <1>1, <1>2

\* What is read, wherever it comes from.
LEMMA ReadBehind ==
  ASSUME Placed, NEW skip, Advance(skip), UNCHANGED tokens
  PROVE  /\ current' \in 1..(Len(tokens) + 1)
         /\ Behind(NextToken(skip), current')
<1>1. CASE next_token = NONE
  BY <1>1, UnreadBehind DEF Placed, Advance, NextToken
<1>2. CASE next_token # NONE
  BY <1>2 DEF Placed, TokensTyped, Advance, NextToken
<1> QED
  BY <1>1, <1>2

LEMMA SomethingNext ==
  ASSUME Placed, HasTokens, NEW skip
  PROVE  NextToken(skip) \in Token /\ NextToken(skip) # NONE
<1>1. NONE \notin Token
  BY HeadersAssumption
<1>2. CASE next_token = NONE
  <2>1. Landing(skip) \in 1..Len(tokens)
    BY LandingInside DEF Placed, TokensTyped
  <2>2. tokens[Landing(skip)] \in Token
    BY <2>1, ElementOfSeq DEF Placed, TokensTyped
  <2> QED
    BY <1>1, <1>2, <2>2 DEF NextToken, Unread
<1>3. CASE next_token # NONE
  BY <1>1, <1>3 DEF Placed, TokensTyped, NextToken
<1> QED
  BY <1>2, <1>3

LEMMA TypedAfter ==
  ASSUME TokensTyped, UNCHANGED tokens, current' \in 1..(Len(tokens) + 1),
         Behind(next_token', current')
  PROVE  Placed'
BY DEF Placed, TokensTyped, Behind

\* Nothing put back is in place wherever the next token is.
LEMMA NothingBehind == \A c : Behind(NONE, c)
BY DEF Behind

\* get_next_token, push_token(get_next_token()), and twice get_next_token.
LEMMA ReadPlaced ==
  ASSUME Placed, NEW skip, Read(skip)
  PROVE  /\ Placed' /\ UNCHANGED tokens /\ next_token' = NONE
         /\ Behind(NextToken(skip), current')
<1>1. /\ next_token' = NONE /\ UNCHANGED tokens
      /\ current' \in 1..(Len(tokens) + 1) /\ Behind(NextToken(skip), current')
  BY ReadBehind DEF Read
<1> QED
  BY <1>1, NothingBehind, TypedAfter DEF Placed

LEMMA ReadAndPushPlaced ==
  ASSUME Placed, HasTokens, NEW skip, ReadAndPush(skip)
  PROVE  Placed' /\ UNCHANGED tokens /\ next_token' # NONE
<1>1. /\ next_token' = NextToken(skip) /\ UNCHANGED tokens
      /\ current' \in 1..(Len(tokens) + 1) /\ Behind(NextToken(skip), current')
  BY ReadBehind DEF ReadAndPush
<1> QED
  BY <1>1, SomethingNext, TypedAfter DEF Placed

LEMMA ReadBothPlaced ==
  ASSUME Placed, ReadBoth(TRUE)
  PROVE  /\ Placed' /\ UNCHANGED tokens /\ next_token' = NONE
         /\ Behind(Unread(TRUE), current')
<1>1. /\ next_token' = NONE /\ UNCHANGED tokens
      /\ current' \in 1..(Len(tokens) + 1) /\ Behind(Unread(TRUE), current')
  BY UnreadBehind DEF ReadBoth, Placed
<1> QED
  BY <1>1, NothingBehind, TypedAfter DEF Placed

\* push_token of what was read last.
LEMMA PushPlaced ==
  ASSUME Placed, NEW t, Behind(t, current), Push(t)
  PROVE  Placed' /\ UNCHANGED <<tokens, current>> /\ next_token' = t
<1>1. next_token' = t /\ UNCHANGED <<tokens, current>>
  BY DEF Push
<1> QED
  BY <1>1, TypedAfter DEF Placed, TokensTyped

\* The line of a directive ends in the header.
LEMMA LineInside ==
  ASSUME TokensTyped, NEW i \in 1..Len(tokens)
  PROVE  LineEnd(i) \in i..Len(tokens) /\ Line(i) \in Seq(Word)
<1> DEFINE n == Len(tokens)
           Ends == {j \in i..n : j = n \/ tokens[j + 1].first}
<1>1. n \in Nat /\ i \in Nat /\ tokens \in Seq(Token)
  BY DEF TokensTyped
<1>2. Ends \in SUBSET Nat /\ n \in Ends
  BY <1>1
<1>3. PICK j \in Ends : \A k \in Ends : j <= k
  BY <1>2, Least
<1>4. \A k \in (i + 1)..j : ~tokens[k].first
  <2>1. ASSUME NEW k \in (i + 1)..j PROVE ~tokens[k].first
    <3>1. k - 1 \in i..n /\ k - 1 # n /\ ~(j <= k - 1) /\ (k - 1) + 1 = k
      BY <1>1, <1>2
    <3>2. k - 1 \notin Ends
      BY <1>3, <3>1
    <3> QED
      BY <3>1, <3>2
  <2> QED
    BY <2>1
<1>5. j \in i..n /\ (j = n \/ tokens[j + 1].first)
  BY <1>2
<1>6. LineEnd(i) \in i..n
  <2> HIDE DEF Ends
  <2> QED
    BY <1>4, <1>5 DEF LineEnd
<1>7. SubSeq(tokens, i, LineEnd(i)) \in Seq(Token)
  <2>1. \A k \in i..LineEnd(i) : tokens[k] \in Token
    <3>1. \A k \in i..LineEnd(i) : k \in 1..n
      BY <1>1, <1>6
    <3> QED
      BY <1>1, <3>1, ElementOfSeq
  <2>2. i \in Int /\ LineEnd(i) \in Int
    BY <1>1, <1>6
  <2> QED
    BY <2>1, <2>2, SubSeqProperties
<1> QED
  BY <1>6, <1>7, WordsTyped DEF Line

\* The token after it is read with it.
LEMMA PastLinePlaced ==
  ASSUME Placed, NEW i \in 1..Len(tokens), PastLine(i)
  PROVE  /\ UNCHANGED tokens /\ current' \in 1..(Len(tokens) + 1)
         /\ Behind(AfterLine(i), current')
<1> DEFINE e == LineEnd(i)
           n == Len(tokens)
<1>1. n \in Nat /\ i \in Nat /\ tokens \in Seq(Token) /\ e \in i..n
  BY LineInside DEF Placed, TokensTyped
<1> HIDE DEF e
<1>2. CASE e = n
  <2>1. AfterLine(i) = NONE
    BY <1>2 DEF AfterLine, e
  <2>2. current' = e + 1 /\ UNCHANGED tokens
    BY <2>1 DEF PastLine, e
  <2> QED
    BY <1>1, <2>1, <2>2, NothingBehind
<1>3. CASE e # n
  <2>1. AfterLine(i) = tokens[e + 1]
    BY <1>3 DEF AfterLine, e
  <2>2. e + 1 \in 1..n /\ tokens[e + 1] \in Token
    BY <1>1, <1>3, ElementOfSeq
  <2>3. current' = e + 2 /\ UNCHANGED tokens
    BY <2>1, <2>2, HeadersAssumption DEF PastLine, e
  <2>4. e + 2 > 1 /\ (e + 2) - 1 = e + 1 /\ e + 2 \in 1..(n + 1)
    BY <1>1, <2>2
  <2> QED
    BY <2>1, <2>2, <2>3, <2>4 DEF Behind
<1> QED
  BY <1>2, <1>3

\* The bottom frame is the loop of parse_header, or waits for what it called;
\* so do the frames of procedures that called others.
Callers == {"loop", "got_struct", "got_enum", "got_code"}
Awaiting == {"got_struct", "got_enum", "got_code", "nested", "typedef_body"}
Nested ==
  /\ stack[1].at \in Callers
  /\ \A i \in 2..Len(stack) : stack[i].at \notin Callers
  /\ \A i \in 1..(Len(stack) - 1) : stack[i].at \in Awaiting
Stacked == stack \in Seq(Frames) /\ stack # <<>> /\ ret \in Seq(Word)

\* Places of a stack of at least two.
LEMMA PlacesBelow ==
  ASSUME NEW n \in Nat, n >= 1, n # 1
  PROVE  /\ 1 \in 1..(n - 1) /\ n - 1 \in 1..(n - 1) /\ n \in 2..n
         /\ \A i \in 2..(n - 1) : i \in 1..(n - 1) /\ i \in 2..n
         /\ \A i \in 1..((n - 1) - 1) : i \in 1..(n - 1)
OBVIOUS

LEMMA AllLabels ==
  /\ Callers \subseteq Labels /\ Awaiting \subseteq Labels
  /\ InHand \subseteq Labels /\ Beginning \subseteq Labels /\ "semicolon" \in Labels
  /\ \A l \in InHand \cup Beginning : l \notin Callers /\ l \notin Awaiting
  /\ InHand \cap Beginning = {}
<1>1. {"tag", "brace", "close", "named", "open", "end"} \subseteq Labels
  <2>1. DOMAIN Workaround = {"tag", "brace", "close"}
    BY DEF Workaround
  <2>2. Workaround["tag"] = "named" /\ Workaround["brace"] = "open" /\ Workaround["close"] = "end"
    BY DEF Workaround
  <2> QED
    BY <2>1, <2>2 DEF Labels
<1>2. {"loop", "got_struct", "got_enum", "got_code", "struct", "fields", "nested", "field",
       "enum", "enum_named", "enum_open", "items", "enum_end", "typedef", "typedef_type",
       "typedef_body", "name", "declarator", "semicolon"} \subseteq Labels
  BY DEF Labels
<1>3. Callers \subseteq Labels /\ Awaiting \subseteq Labels /\ "semicolon" \in Labels
  BY <1>2 DEF Callers, Awaiting
<1>4. InHand \subseteq Labels /\ Beginning \subseteq Labels
  BY <1>1, <1>2 DEF InHand, Beginning, Attributes
<1>5. /\ \A l \in InHand \cup Beginning : l \notin Callers /\ l \notin Awaiting
      /\ InHand \cap Beginning = {}
  BY DEF InHand, Beginning, Attributes, Callers, Awaiting
<1> QED
  BY <1>3, <1>4, <1>5

LEMMA TopTyped ==
  ASSUME Stacked
  PROVE  /\ Len(stack) \in Nat /\ Len(stack) >= 1 /\ Top = stack[Len(stack)] /\ Top \in Frames
         /\ Top.at \in Labels /\ Top.next \in Token \cup {NONE} /\ Top.code \in Seq(Word)
         /\ Nested /\ Len(stack) # 1 => Top.at \notin Callers
         /\ Nested /\ Len(stack) = 1 => Top.at \in Callers
<1>1. Len(stack) \in Nat /\ Len(stack) >= 1
  BY FrontOf DEF Stacked
<1>2. Top = stack[Len(stack)]
  BY DEF Top, Last
<1>3. Top \in Frames
  <2>1. Len(stack) \in 1..Len(stack)
    BY <1>1
  <2> QED
    BY <1>2, <2>1, ElementOfSeq DEF Stacked
<1>4. Top.at \in Labels /\ Top.next \in Token \cup {NONE} /\ Top.code \in Seq(Word)
  BY <1>3 DEF Frames
<1>5. Nested /\ Len(stack) # 1 => Top.at \notin Callers
  <2>1. Len(stack) # 1 => Len(stack) \in 2..Len(stack)
    BY <1>1, PlacesBelow, Zenon
  <2> QED
    BY <1>2, <2>1 DEF Nested
<1>6. Nested /\ Len(stack) = 1 => Top.at \in Callers
  BY <1>2 DEF Nested
<1> QED
  BY <1>1, <1>2, <1>3, <1>4, <1>5, <1>6

\* A procedure goes on, calls another, returns.
LEMMA GotoNested ==
  ASSUME Stacked, Nested, NEW at \in Labels, NEW next \in Token \cup {NONE},
         NEW code \in Seq(Word), Goto(at, next, code), at \in Callers <=> Top.at \in Callers
  PROVE  Stacked' /\ Nested' /\ Top'.at = at /\ Top'.next = next
<1> DEFINE e == [Top EXCEPT !.at = at, !.next = next, !.code = code]
           n == Len(stack)
<1>1. n \in Nat /\ n >= 1 /\ Top \in Frames
  BY TopTyped
<1>2. e \in Frames /\ e.at = at /\ e.next = next
  BY <1>1 DEF Frames
<1>3. stack' = Append(Front(stack), e) /\ ret' = ret
  BY DEF Goto
<1> HIDE DEF e
<1>4. /\ stack' \in Seq(Frames) /\ stack' # <<>> /\ Len(stack') = n /\ Last(stack') = e
      /\ \A i \in 1..(n - 1) : stack'[i] = stack[i]
  <2>1. stack \in Seq(Frames) /\ stack # <<>>
    BY DEF Stacked
  <2>2. Replaces(stack', stack, e, Frames)
    BY <1>2, <1>3, <2>1, TopReplaced, Zenon
  <2> QED
    BY <2>2 DEF Replaces
<1>5. stack'[n] = e
  BY <1>4 DEF Last
<1>6. Nested'
  <2>1. stack'[1].at \in Callers
    <3>1. CASE n = 1
      BY <1>2, <1>5, <3>1, TopTyped
    <3>2. CASE n # 1
      <4>1. 1 \in 1..(n - 1)
        BY <1>1, <3>2, PlacesBelow, Zenon
      <4> QED
        BY <1>4, <4>1 DEF Nested
    <3> QED
      BY <3>1, <3>2
  <2>2. ASSUME NEW i \in 2..n PROVE stack'[i].at \notin Callers
    <3>1. CASE i = n
      <4>1. n # 1
        BY <3>1
      <4> QED
        BY <1>2, <1>5, <3>1, <4>1, TopTyped
    <3>2. CASE i # n
      <4>1. i \in 1..(n - 1) /\ i \in 2..n
        BY <1>1, <3>2
      <4> QED
        BY <1>4, <4>1 DEF Nested
    <3> QED
      BY <3>1, <3>2
  <2> QED
    BY <1>4, <2>1, <2>2 DEF Nested
<1> QED
  BY <1>2, <1>3, <1>4, <1>6 DEF Stacked, Top

LEMMA CallNested ==
  ASSUME Stacked, Nested, NEW procedure \in Beginning, NEW resume \in Awaiting,
         Call(procedure, resume), resume \in Callers <=> Top.at \in Callers
  PROVE  Stacked' /\ Nested' /\ Top'.at = procedure
<1> DEFINE d == [Top EXCEPT !.at = resume]
           e == Frame(procedure)
           n == Len(stack)
<1>1. n \in Nat /\ n >= 1 /\ Top \in Frames /\ resume \in Labels /\ procedure \in Labels
  BY TopTyped, AllLabels
<1>2. d \in Frames /\ d.at = resume
  BY <1>1 DEF Frames
<1>3. e \in Frames /\ e.at = procedure
  <2>1. <<>> \in Seq(Word)
    OBVIOUS
  <2> QED
    BY <1>1, <2>1 DEF Frames, Frame
<1>4. stack' = Front(stack) \o <<d, e>> /\ ret' = ret
  BY DEF Call
<1> HIDE DEF d, e
<1>5. /\ stack' \in Seq(Frames) /\ stack' # <<>> /\ Len(stack') = n + 1 /\ Last(stack') = e
      /\ stack'[n] = d /\ \A i \in 1..(n - 1) : stack'[i] = stack[i]
  <2>1. stack \in Seq(Frames) /\ stack # <<>>
    BY DEF Stacked
  <2>2. Covers(stack', stack, d, e, Frames)
    BY <1>2, <1>3, <1>4, <2>1, TopCovered, Zenon
  <2> QED
    BY <2>2 DEF Covers
<1>6. stack'[n + 1] = e
  BY <1>5 DEF Last
<1>7. stack'[1].at \in Callers
  <2>1. CASE n = 1
    BY <1>2, <1>5, <2>1, TopTyped
  <2>2. CASE n # 1
    <3>1. 1 \in 1..(n - 1)
      BY <1>1, <2>2, PlacesBelow, Zenon
    <3> QED
      BY <1>5, <3>1 DEF Nested
  <2> QED
    BY <2>1, <2>2
<1>8. ASSUME NEW i \in 2..(n + 1) PROVE stack'[i].at \notin Callers
  <2>1. CASE i = n + 1
    BY <1>3, <1>6, <2>1, AllLabels
  <2>2. CASE i = n
    <3>1. n # 1
      BY <2>2
    <3> QED
      BY <1>2, <1>5, <2>2, <3>1, TopTyped
  <2>3. CASE i # n /\ i # n + 1
    <3>1. i \in 1..(n - 1) /\ i \in 2..n
      BY <1>1, <2>3
    <3> QED
      BY <1>5, <3>1 DEF Nested
  <2> QED
    BY <2>1, <2>2, <2>3
<1>9. ASSUME NEW i \in 1..((n + 1) - 1) PROVE stack'[i].at \in Awaiting
  <2>1. CASE i = n
    BY <1>2, <1>5, <2>1
  <2>2. CASE i # n
    <3>1. i \in 1..(n - 1)
      BY <1>1, <2>2
    <3> QED
      BY <1>5, <3>1 DEF Nested
  <2> QED
    BY <2>1, <2>2
<1>10. Nested'
  BY <1>5, <1>7, <1>8, <1>9 DEF Nested
<1> QED
  BY <1>3, <1>4, <1>5, <1>10 DEF Stacked, Top

LEMMA ReturnNested ==
  ASSUME Stacked, Nested, Top.at \notin Callers, NEW code \in Seq(Word), Return(code)
  PROVE  Stacked' /\ Nested' /\ Top'.at \in Awaiting
<1> DEFINE n == Len(stack)
<1>1. n \in Nat /\ n >= 1 /\ n # 1
  BY TopTyped
<1>2. stack' = Front(stack) /\ ret' = code
  BY DEF Return
<1>3. /\ stack' \in Seq(Frames) /\ stack' # <<>> /\ Len(stack') = n - 1
      /\ Last(stack') = stack[n - 1] /\ \A i \in 1..(n - 1) : stack'[i] = stack[i]
  BY <1>1, <1>2, TopTaken DEF Stacked
<1>4. /\ 1 \in 1..(n - 1) /\ n - 1 \in 1..(n - 1)
      /\ \A i \in 2..(n - 1) : i \in 1..(n - 1) /\ i \in 2..n
      /\ \A i \in 1..((n - 1) - 1) : i \in 1..(n - 1)
  BY <1>1, PlacesBelow, Zenon
<1>5. Nested'
  <2>1. stack'[1].at \in Callers
    BY <1>3, <1>4 DEF Nested
  <2>2. \A i \in 2..(n - 1) : stack'[i].at \notin Callers
    BY <1>3, <1>4 DEF Nested
  <2>3. \A i \in 1..((n - 1) - 1) : stack'[i].at \in Awaiting
    BY <1>3, <1>4 DEF Nested
  <2> QED
    BY <1>3, <2>1, <2>2, <2>3 DEF Nested
<1>6. stack[n - 1].at \in Awaiting
  BY <1>4 DEF Nested
<1> QED
  BY <1>2, <1>3, <1>5, <1>6 DEF Stacked, Top

\* What holds of the Tokenizer and of the stack together.
TopBehind == Top.at \in InHand => Behind(Top.next, current)
Held == Placed /\ Stacked /\ Nested /\ RoomToPutBack /\ TopBehind

LEMMA CodeTyped ==
  ASSUME Stacked
  PROVE  /\ Top.code \in Seq(Word) /\ Top.code \o ret \in Seq(Word)
         /\ Append(Top.code, ";") \in Seq(Word) /\ Append(Top.code, "}") \in Seq(Word)
         /\ Top.next # NONE => Top.next \in Token /\ Words(Top.next) \in Seq(Word)
<1>1. Top.code \in Seq(Word) /\ ret \in Seq(Word) /\ Top.next \in Token \cup {NONE}
  BY TopTyped DEF Stacked
<1>2. Top.code \o ret \in Seq(Word)
  BY <1>1, ConcatProperties
<1>3. ";" \in Word /\ "}" \in Word
  BY DEF Word
<1>4. Append(Top.code, ";") \in Seq(Word) /\ Append(Top.code, "}") \in Seq(Word)
  BY <1>1, <1>3, AppendProperties
<1>5. Top.next # NONE => Top.next \in Token /\ Words(Top.next) \in Seq(Word)
  <2>1. ASSUME Top.next # NONE PROVE Top.next \in Token /\ Top.next.sp \in Seq(Word)
    BY <1>1, <2>1 DEF Token
  <2> QED
    BY <1>1, <2>1, ConcatProperties DEF Words
<1> QED
  BY <1>1, <1>2, <1>4, <1>5

\* A procedure goes on with a token in hand.
LEMMA HandStep ==
  ASSUME Held, Top.at \notin Callers, Placed', UNCHANGED tokens, next_token' = NONE,
         NEW at \in InHand, NEW next, Behind(next, current'),
         NEW code \in Seq(Word), Goto(at, next, code)
  PROVE  Held'
<1>1. at \in Labels /\ at \notin Callers /\ at \notin Beginning /\ next \in Token \cup {NONE}
  BY AllLabels DEF Behind
<1>2. Stacked' /\ Nested' /\ Top'.at = at /\ Top'.next = next
  BY <1>1, GotoNested DEF Held
<1>3. RoomToPutBack'
  BY <1>1, <1>2 DEF RoomToPutBack, CanPush
<1>4. TopBehind'
  BY <1>2 DEF TopBehind, Behind
<1> QED
  BY <1>2, <1>3, <1>4 DEF Held

\* A procedure goes on, or the loop, without one.
LEMMA WaitStep ==
  ASSUME Held, Placed', NEW at \in Labels, at \notin InHand, at \notin Beginning,
         at \in Callers <=> Top.at \in Callers, NEW next \in Token \cup {NONE},
         NEW code \in Seq(Word), Goto(at, next, code)
  PROVE  Held'
<1>1. Stacked' /\ Nested' /\ Top'.at = at
  BY GotoNested DEF Held
<1> QED
  BY <1>1 DEF Held, RoomToPutBack, TopBehind

LEMMA CallStep ==
  ASSUME Held, Placed', next_token' # NONE, NEW procedure \in Beginning,
         NEW resume \in Awaiting, Call(procedure, resume),
         resume \in Callers <=> Top.at \in Callers
  PROVE  Held'
<1>1. Stacked' /\ Nested' /\ Top'.at = procedure /\ procedure \notin InHand
  BY CallNested, AllLabels DEF Held
<1> QED
  BY <1>1 DEF Held, RoomToPutBack, TopBehind, CanPush

LEMMA ReturnStep ==
  ASSUME Held, Placed', Top.at \notin Callers, NEW code \in Seq(Word), Return(code)
  PROVE  Held'
<1>1. Stacked' /\ Nested' /\ Top'.at \in Awaiting
  BY ReturnNested DEF Held
<1>2. Top'.at \notin InHand /\ Top'.at \notin Beginning
  BY <1>1, AllLabels
<1> QED
  BY <1>1, <1>2 DEF Held, RoomToPutBack, TopBehind

LEMMA ReadOnStep ==
  ASSUME Held, Top.at \notin Callers, NEW at \in InHand, NEW code \in Seq(Word),
         ReadOn(at, code)
  PROVE  Held'
<1>1. Read(TRUE) /\ Goto(at, NextToken(TRUE), code)
  BY DEF ReadOn
<1>2. Placed' /\ UNCHANGED tokens /\ next_token' = NONE /\ Behind(NextToken(TRUE), current')
  BY <1>1, ReadPlaced DEF Held
<1> QED
  BY <1>1, <1>2, HandStep

LEMMA StayStep ==
  ASSUME Held, Top.at \in InHand, NEW at \in InHand, Stay(at)
  PROVE  Held'
<1>1. Goto(at, Top.next, Top.code) /\ UNCHANGED tokenizerVars
  BY DEF Stay
<1>2. next_token = NONE /\ Behind(Top.next, current) /\ Top.at \notin Callers
  BY AllLabels DEF Held, RoomToPutBack, CanPush, TopBehind
<1>3. Placed' /\ UNCHANGED tokens /\ next_token' = NONE /\ Behind(Top.next, current')
  BY <1>1, <1>2 DEF Held, Placed, TokensTyped, Behind, tokenizerVars
<1>4. Top.code \in Seq(Word)
  BY CodeTyped DEF Held
<1> QED
  BY <1>1, <1>2, <1>3, <1>4, HandStep

LEMMA SkipStep ==
  ASSUME Held, Top.at \in InHand, Top.next # NONE, NEW then \in InHand, SkipDirective(then)
  PROVE  Held'
<1>1. /\ PastLine(LastRead) /\ next_token' = NONE
      /\ Goto(then, AfterLine(LastRead), Top.code \o Line(LastRead))
  BY DEF SkipDirective
<1>2. Placed /\ LastRead \in 1..Len(tokens) /\ Top.at \notin Callers
  BY AllLabels DEF Held, TopBehind, Behind, Placed, TokensTyped, LastRead
<1>3. /\ UNCHANGED tokens /\ current' \in 1..(Len(tokens) + 1)
      /\ Behind(AfterLine(LastRead), current')
  BY <1>1, <1>2, PastLinePlaced
<1>4. Placed'
  BY <1>1, <1>2, <1>3, TypedAfter, NothingBehind DEF Placed
<1>5. Top.code \o Line(LastRead) \in Seq(Word)
  <2>1. Line(LastRead) \in Seq(Word) /\ Top.code \in Seq(Word)
    BY <1>2, LineInside, CodeTyped DEF Held, Placed
  <2> QED
    BY <2>1, ConcatProperties
<1> QED
  BY <1>1, <1>2, <1>3, <1>4, <1>5, HandStep

LEMMA BeginStep ==
  ASSUME Held, Top.at \in Beginning, NEW at \in InHand, Begin(at)
  PROVE  Held'
<1>1. ReadBoth(TRUE) /\ Goto(at, Unread(TRUE), next_token.sp)
  BY DEF Begin
<1>2. next_token \in Token /\ Top.at \notin Callers
  BY AllLabels DEF Held, RoomToPutBack, CanPush, Placed, TokensTyped
<1>3. next_token.sp \in Seq(Word)
  BY <1>2 DEF Token
<1>4. Placed' /\ UNCHANGED tokens /\ next_token' = NONE /\ Behind(Unread(TRUE), current')
  BY <1>1, ReadBothPlaced DEF Held
<1> QED
  BY <1>1, <1>2, <1>3, <1>4, HandStep

LEMMA PushTop ==
  ASSUME Held, Top.at \in InHand, Push(Top.next)
  PROVE  Placed' /\ next_token' = Top.next
BY PushPlaced DEF Held, TopBehind

LEMMA HandBackStep ==
  ASSUME Held, Top.at \in InHand, Top.next # NONE, HandBack
  PROVE  Held'
<1>1. Top.at \notin Callers /\ Words(Top.next) \in Seq(Word) /\ Top.code \in Seq(Word)
  BY AllLabels, CodeTyped DEF Held
<1>2. CASE Return(Words(Top.next)) /\ UNCHANGED tokenizerVars
  <2>1. Placed'
    BY <1>2 DEF Held, Placed, TokensTyped, Behind, tokenizerVars
  <2> QED
    BY <1>1, <1>2, <2>1, ReturnStep
<1>3. CASE Push(Top.next) /\ Return(Top.code)
  <2>1. Placed'
    BY <1>3, PushTop
  <2> QED
    BY <1>1, <1>3, <2>1, ReturnStep
<1> QED
  BY <1>2, <1>3 DEF HandBack

\* What a procedure calls begins with the token that it puts back.
LEMMA PushAndCallStep ==
  ASSUME Held, Top.at \in InHand, Top.next # NONE, Push(Top.next),
         NEW procedure \in Beginning, NEW resume \in {"nested", "typedef_body"},
         Call(procedure, resume)
  PROVE  Held'
<1>1. Placed' /\ next_token' # NONE
  BY PushTop
<1>2. resume \in Awaiting /\ resume \notin Callers /\ Top.at \notin Callers
  BY AllLabels DEF Awaiting, Callers
<1> QED
  BY <1>1, <1>2, CallStep

\* The labels of the procedures.
LEMMA HandLabels ==
  /\ {"tag", "named", "brace", "open", "close", "end", "fields", "field", "enum_named",
      "enum_open", "items", "enum_end", "typedef_type", "name", "declarator"} \subseteq InHand
  /\ {"struct", "enum", "typedef"} \subseteq Beginning
  /\ {"nested", "typedef_body", "semicolon"} \cap Callers = {}
BY DEF InHand, Attributes, Beginning, Callers

\* The program stops rather than to go on without a token where it needs one.
LEMMA InHandUnlessFault ==
  ASSUME ~Fault, Top.at \in Attributes
  PROVE  Top.next # NONE
BY DEF Fault

LEMMA StructStep ==
  ASSUME Held, ~Fault, ParseStruct
  PROVE  Held'
<1>1. CASE StructKeyword
  BY <1>1, BeginStep, HandLabels DEF StructKeyword, At
<1>2. CASE StructWorkaround
  <2>1. Top.at \in {"tag", "brace", "close"} /\ Workaround[Top.at] \in {"named", "open", "end"}
    BY <1>2 DEF StructWorkaround, Workaround
  <2>2. Top.at \in InHand /\ Top.next # NONE /\ Workaround[Top.at] \in InHand
    BY <2>1, InHandUnlessFault, HandLabels DEF Attributes
  <2> QED
    BY <1>2, <2>2, SkipStep, StayStep DEF StructWorkaround
<1>3. CASE StructName
  <2>1. Top.at \in InHand /\ Top.at \notin Callers /\ Words(Top.next) \in Seq(Word)
    BY <1>3, InHandUnlessFault, HandLabels, AllLabels, CodeTyped
    DEF StructName, At, Attributes, Held
  <2> QED
    BY <1>3, <2>1, ReadOnStep, StayStep, HandLabels DEF StructName
<1>4. CASE StructOpen
  <2>1. Top.at \in InHand /\ Top.at \notin Callers /\ Words(Top.next) \in Seq(Word)
    BY <1>4, InHandUnlessFault, HandLabels, AllLabels, CodeTyped
    DEF StructOpen, At, Attributes, Held
  <2> QED
    BY <1>4, <2>1, ReadOnStep, StayStep, HandLabels DEF StructOpen
<1>5. CASE FieldDirective
  BY <1>5, SkipStep, HandLabels DEF FieldDirective, At
<1>6. CASE FieldStruct
  BY <1>6, PushAndCallStep, HandLabels DEF FieldStruct, At
<1>7. CASE FieldAfterStruct
  BY <1>7, ReadOnStep, HandLabels, CodeTyped DEF FieldAfterStruct, At, Held
<1>8. CASE FieldOther
  BY <1>8, StayStep, HandLabels DEF FieldOther, At
<1>9. CASE FieldToken
  <2>1. Top.at \notin Callers /\ Words(Top.next) \in Seq(Word)
    BY <1>9, HandLabels, AllLabels, CodeTyped DEF FieldToken, At, Held
  <2> QED
    BY <1>9, <2>1, ReadOnStep, HandLabels DEF FieldToken
<1>10. CASE FieldEnd
  <2>1. Top.at \notin Callers
    BY <1>10, HandLabels, AllLabels DEF FieldEnd, At
  <2> QED
    BY <1>10, <2>1, ReadOnStep, HandLabels, CodeTyped DEF FieldEnd, Held
<1>11. CASE StructClose
  <2>1. Top.at \notin Callers
    BY <1>11, HandLabels, AllLabels DEF StructClose, At
  <2> QED
    BY <1>11, <2>1, ReadOnStep, HandLabels, CodeTyped DEF StructClose, Held
<1>12. CASE StructEnd
  <2>1. Top.at \in InHand /\ Top.next # NONE
    BY <1>12, InHandUnlessFault, HandLabels DEF StructEnd, At, Attributes
  <2> QED
    BY <1>12, <2>1, HandBackStep DEF StructEnd
<1> QED
  BY <1>1, <1>2, <1>3, <1>4, <1>5, <1>6, <1>7, <1>8, <1>9, <1>10, <1>11, <1>12
  DEF ParseStruct

LEMMA EnumStep ==
  ASSUME Held, ~Fault, ParseEnum
  PROVE  Held'
<1>1. CASE EnumKeyword
  BY <1>1, BeginStep, HandLabels DEF EnumKeyword, At
<1>2. CASE EnumName
  <2>1. Top.at \in InHand /\ Top.at \notin Callers /\ Words(Top.next) \in Seq(Word)
    BY <1>2, InHandUnlessFault, HandLabels, AllLabels, CodeTyped
    DEF EnumName, At, Attributes, Held
  <2> QED
    BY <1>2, <2>1, ReadOnStep, StayStep, HandLabels DEF EnumName
<1>3. CASE EnumOpen
  <2>1. Top.at \in InHand /\ Top.at \notin Callers /\ Words(Top.next) \in Seq(Word)
    BY <1>3, InHandUnlessFault, HandLabels, AllLabels, CodeTyped
    DEF EnumOpen, At, Attributes, Held
  <2> QED
    BY <1>3, <2>1, ReadOnStep, StayStep, HandLabels DEF EnumOpen
<1>4. CASE EnumItem
  <2>1. Top.at \notin Callers /\ Words(Top.next) \in Seq(Word)
    BY <1>4, InHandUnlessFault, HandLabels, AllLabels, CodeTyped
    DEF EnumItem, At, Attributes, Held
  <2>2. (IF Is(Top.next, "}") THEN "enum_end" ELSE "items") \in InHand
    BY HandLabels
  <2> QED
    BY <1>4, <2>1, <2>2, ReadOnStep DEF EnumItem
<1>5. CASE EnumEnd
  <2>1. Top.at \in InHand /\ Top.next # NONE
    BY <1>5, InHandUnlessFault, HandLabels DEF EnumEnd, At, Attributes
  <2> QED
    BY <1>5, <2>1, HandBackStep DEF EnumEnd
<1> QED
  BY <1>1, <1>2, <1>3, <1>4, <1>5 DEF ParseEnum

\* A pointer to a function is read up to a place in the header.
LEMMA PointerInside ==
  ASSUME TokensTyped, LastRead \in 1..Len(tokens), NEW end \in ArgumentsEnd(LastRead)
  PROVE  /\ end + 1 \in 1..(Len(tokens) + 1)
         /\ SpokenWords(SubSeq(tokens, LastRead, end)) \in Seq(Word)
<1> DEFINE n == Len(tokens)
           m == LastRead
<1>1. n \in Nat /\ m \in 1..n /\ tokens \in Seq(Token)
  BY DEF TokensTyped
<1>2. PICK o \in ArgumentsOpen(m) : end \in (o + 1)..n
  BY DEF ArgumentsEnd, Firsts
<1>3. PICK c \in NameEnd(m) : o \in (c + 1)..n
  BY <1>2 DEF ArgumentsOpen, Firsts
<1>4. c \in m..n
  BY <1>3 DEF NameEnd, Firsts
<1> HIDE DEF m
<1>5. end \in m..n
  BY <1>1, <1>2, <1>3, <1>4
<1>6. SubSeq(tokens, m, end) \in Seq(Token)
  <2>1. \A k \in m..end : tokens[k] \in Token
    <3>1. \A k \in m..end : k \in 1..n
      BY <1>1, <1>5
    <3> QED
      BY <1>1, <3>1, ElementOfSeq
  <2>2. m \in Int /\ end \in Int
    BY <1>1, <1>5
  <2> QED
    BY <2>1, <2>2, SubSeqProperties
<1>7. end + 1 \in 1..(n + 1)
  BY <1>1, <1>5
<1> QED
  BY <1>6, <1>7, WordsTyped DEF m

LEMMA TypedefStep ==
  ASSUME Held, ~Fault, ParseTypedef
  PROVE  Held'
<1>1. CASE TypedefKeyword
  BY <1>1, BeginStep, HandLabels DEF TypedefKeyword, At
<1>2. CASE TypedefType
  <2>1. /\ Top.at \in InHand /\ Top.at \notin Callers /\ Top.next # NONE
        /\ Words(Top.next) \in Seq(Word)
    BY <1>2, InHandUnlessFault, HandLabels, AllLabels, CodeTyped
    DEF TypedefType, At, Attributes, Held
  <2>2. CASE Push(Top.next) /\ Call("struct", "typedef_body")
    BY <2>1, <2>2, PushAndCallStep, HandLabels
  <2>3. CASE Push(Top.next) /\ Call("enum", "typedef_body")
    BY <2>1, <2>3, PushAndCallStep, HandLabels
  <2>4. CASE ReadOn("name", Words(Top.next))
    BY <2>1, <2>4, ReadOnStep, HandLabels
  <2> QED
    BY <1>2, <2>2, <2>3, <2>4 DEF TypedefType
<1>3. CASE TypedefBody
  BY <1>3, ReadOnStep, HandLabels, CodeTyped DEF TypedefBody, At, Held
<1>4. CASE FunctionPointer
  <2>1. PICK end \in ArgumentsEnd(LastRead) :
          /\ current' = end + 1
          /\ Goto("semicolon", NONE, Top.code \o SpokenWords(SubSeq(tokens, LastRead, end)))
    BY <1>4 DEF FunctionPointer
  <2>2. Top.at \in InHand /\ Top.at \notin Callers /\ Top.next # NONE
    BY <1>4, InHandUnlessFault, HandLabels, AllLabels DEF FunctionPointer, At, Attributes
  <2>3. TokensTyped /\ LastRead \in 1..Len(tokens) /\ next_token = NONE
    BY <2>2 DEF Held, TopBehind, Behind, Placed, TokensTyped, LastRead, RoomToPutBack, CanPush
  <2>4. /\ current' \in 1..(Len(tokens) + 1)
        /\ SpokenWords(SubSeq(tokens, LastRead, end)) \in Seq(Word)
    BY <2>1, <2>3, PointerInside
  <2>5. Placed'
    <3>1. UNCHANGED tokens /\ next_token' = NONE
      BY <1>4, <2>3 DEF FunctionPointer
    <3> QED
      BY <2>3, <2>4, <3>1, TypedAfter, NothingBehind
  <2>6. Top.code \o SpokenWords(SubSeq(tokens, LastRead, end)) \in Seq(Word)
    BY <2>4, CodeTyped, ConcatProperties DEF Held
  <2>7. "semicolon" \in Labels /\ "semicolon" \notin InHand \cup Beginning
    BY AllLabels DEF InHand, Attributes, Beginning
  <2> QED
    BY <2>1, <2>2, <2>5, <2>6, <2>7, WaitStep, HandLabels
<1>5. CASE Declarator
  BY <1>5, StayStep, HandLabels DEF Declarator, At
<1>6. CASE DeclaratorDirective
  BY <1>6, SkipStep, HandLabels DEF DeclaratorDirective, At
<1>7. CASE DeclaratorWord
  <2>1. Top.at \notin Callers /\ Words(Top.next) \in Seq(Word)
    BY <1>7, HandLabels, AllLabels, CodeTyped DEF DeclaratorWord, At, Held
  <2> QED
    BY <1>7, <2>1, ReadOnStep, HandLabels DEF DeclaratorWord
<1>8. CASE DeclaratorEnd
  <2>1. Top.at \in InHand /\ Top.at \notin Callers /\ Top.code \in Seq(Word)
    BY <1>8, HandLabels, AllLabels, CodeTyped DEF DeclaratorEnd, At, Held
  <2>2. Placed'
    BY <1>8, <2>1, PushTop DEF DeclaratorEnd
  <2>3. "semicolon" \in Labels /\ "semicolon" \notin InHand \cup Beginning
    BY AllLabels DEF InHand, Attributes, Beginning
  <2> QED
    BY <1>8, <2>1, <2>2, <2>3, WaitStep, HandLabels DEF DeclaratorEnd
<1>9. CASE TypedefEnd
  <2>1. Top.at \notin Callers
    BY <1>9, HandLabels DEF TypedefEnd, At
  <2>2. Placed'
    BY <1>9, ReadPlaced DEF TypedefEnd, Held
  <2> QED
    BY <1>9, <2>1, <2>2, CodeTyped, ReturnStep DEF TypedefEnd, Held
<1> QED
  BY <1>1, <1>2, <1>3, <1>4, <1>5, <1>6, <1>7, <1>8, <1>9 DEF ParseTypedef

\* The declaration that is read.
LEMMA DeclarationTyped ==
  ASSUME NEW d \in Declaration, NEW t \in Token
  PROVE  /\ Adding(d, t) \in Declaration
         /\ \A b \in BOOLEAN : [d EXCEPT !.in_extern = b] \in Declaration
         /\ \A b \in BOOLEAN : [d EXCEPT !.no_star = b] \in Declaration
         /\ \A b \in BOOLEAN : [d EXCEPT !.need_check = b] \in Declaration
         /\ \A b, c \in BOOLEAN : [d EXCEPT !.no_star = b, !.first_bracket = c] \in Declaration
         /\ \A b, c \in BOOLEAN : [d EXCEPT !.no_star = b, !.no_return = c] \in Declaration
         /\ d.in_extern \in BOOLEAN /\ d.no_star \in BOOLEAN /\ d.first_bracket \in BOOLEAN
         /\ d.need_check \in BOOLEAN
<1>1. d.tokens \in Seq(Token)
  BY DEF Declaration
<1>2. Append(d.tokens, t) \in Seq(Token)
  BY <1>1, AppendProperties
<1>3. Adding(d, t) \in Declaration
  BY <1>2 DEF Adding, Declaration
<1> QED
  BY <1>3 DEF Declaration

LEMMA EnteringTyped ==
  ASSUME decl \in Declaration, NEW t \in Token
  PROVE  Entering(t) \in Declaration
<1>1. Adding(decl, t) \in Declaration
  BY DeclarationTyped
<1> QED
  BY <1>1 DEF Entering, Declaration

LEMMA AfterSemicolonTyped ==
  ASSUME decl \in Declaration
  PROVE  AfterSemicolon \in Declaration
<1>1. <<>> \in Seq(Token)
  OBVIOUS
<1> QED
  BY <1>1 DEF AfterSemicolon, Declaration

LEMMA OfTypeTyped ==
  ASSUME NEW ts \in Seq(Token), NEW words \in Seq(Word)
  PROVE  OfType(ts, words) \in Seq(Token)
<1>1. \A ws \in Seq(Word) : FakeToken(ws) \in Token
  BY DEF FakeToken, Token, Kinds
<1>2. <<"const">> \o words \in Seq(Word)
  <2>1. "const" \in Word
    BY DEF Word
  <2>2. <<"const">> \in Seq(Word)
    BY <2>1
  <2> QED
    BY <2>2, ConcatProperties
<1>3. Append(ts, FakeToken(words)) \in Seq(Token)
  BY <1>1, AppendProperties
<1>4. ts # <<>> => Append(Front(ts), FakeToken(<<"const">> \o words)) \in Seq(Token)
  <2>1. ts # <<>> => Front(ts) \in Seq(Token)
    BY FrontOf
  <2> QED
    BY <1>1, <1>2, <2>1, AppendProperties
<1> QED
  BY <1>3, <1>4 DEF OfType

\* The loop reads a token and calls nothing.
LEMMA LoopGoesOn ==
  ASSUME Held, At("loop"), Placed', UNCHANGED callVars
  PROVE  Held'
<1>1. Stacked' /\ Nested'
  BY DEF Held, Stacked, Nested, callVars
<1>2. Top' = Top /\ Top.at \notin InHand /\ Top.at \notin Beginning
  BY DEF Top, callVars, At, InHand, Attributes, Beginning
<1> QED
  BY <1>1, <1>2 DEF Held, RoomToPutBack, TopBehind

LEMMA BecomesStep ==
  ASSUME Held, At("loop"), NEW d \in Declaration, Becomes(d)
  PROVE  Held' /\ decl' \in Declaration
<1>1. Placed' /\ UNCHANGED callVars /\ decl' = d
  BY ReadPlaced DEF Becomes, Held, callVars
<1> QED
  BY <1>1, LoopGoesOn

LEMMA DescendStep ==
  ASSUME Held, At("loop"), HasTokens, decl \in Declaration, NEW procedure \in Beginning,
         NEW resume \in {"got_struct", "got_enum", "got_code"}, Descend(procedure, resume)
  PROVE  Held' /\ decl' \in Declaration
<1>1. Placed' /\ next_token' # NONE
  BY ReadAndPushPlaced DEF Held, Descend
<1>2. resume \in Awaiting /\ resume \in Callers /\ Top.at \in Callers
  BY DEF Awaiting, Callers, At
<1>3. Call(procedure, resume) /\ decl' = decl
  BY DEF Descend
<1> QED
  BY <1>1, <1>2, <1>3, CallStep

LEMMA DirectiveStep ==
  ASSUME Held, At("loop"), HasTokens, decl \in Declaration, NEW t, TakeDirective(t)
  PROVE  Held' /\ decl' \in Declaration
<1>1. Placed /\ Upcoming \in 1..Len(tokens)
  BY DEF Held, Placed, TokensTyped, Behind, Upcoming, LastRead, HasTokens
<1>2. /\ PastLine(Upcoming) /\ next_token' = AfterLine(Upcoming)
      /\ decl' = decl /\ UNCHANGED callVars
  BY DEF TakeDirective, callVars
<1>3. Placed'
  BY <1>1, <1>2, PastLinePlaced, TypedAfter DEF Placed
<1> QED
  BY <1>2, <1>3, LoopGoesOn

LEMMA KeywordStep ==
  ASSUME Held, At("loop"), HasTokens, decl \in Declaration, NEW t \in Token, Keyword(t)
  PROVE  Held' /\ decl' \in Declaration
<1>1. CASE Becomes(Entering(t))
  BY <1>1, EnteringTyped, BecomesStep
<1>2. CASE Becomes(IF decl.in_extern THEN [Adding(decl, t) EXCEPT !.no_star = FALSE]
                   ELSE Entering(t))
  <2>1. (IF decl.in_extern THEN [Adding(decl, t) EXCEPT !.no_star = FALSE]
         ELSE Entering(t)) \in Declaration
    BY EnteringTyped, DeclarationTyped
  <2> QED
    BY <1>2, <2>1, BecomesStep
<1>3. CASE \/ Descend("struct", "got_struct") \/ Descend("typedef", "got_code")
           \/ Descend("enum", "got_enum")
  BY <1>3, DescendStep, HandLabels
<1> QED
  BY <1>1, <1>2, <1>3 DEF Keyword

LEMMA PunctuationStep ==
  ASSUME Held, At("loop"), decl \in Declaration, NEW t \in Token, Punctuation(t)
  PROVE  Held' /\ decl' \in Declaration
<1> DEFINE a == Adding(decl, t)
           d == CASE ~decl.in_extern -> decl
                  [] decl.in_extern /\ Is(t, "(") ->
                       [a EXCEPT !.no_star = decl.first_bracket, !.first_bracket = FALSE]
                  [] decl.in_extern /\ Is(t, "*") ->
                       [a EXCEPT !.need_check = @ \/ decl.no_star]
                  [] OTHER -> [a EXCEPT !.no_star = FALSE]
<1>1. a \in Declaration /\ decl.in_extern \in BOOLEAN
  BY DeclarationTyped
<1>2. [a EXCEPT !.no_star = decl.first_bracket, !.first_bracket = FALSE] \in Declaration
  BY <1>1, DeclarationTyped
<1>3. [a EXCEPT !.need_check = @ \/ decl.no_star] \in Declaration
  BY <1>1, DeclarationTyped
<1>4. [a EXCEPT !.no_star = FALSE] \in Declaration
  BY <1>1, DeclarationTyped
<1>5. d \in Declaration
  BY <1>1, <1>2, <1>3, <1>4
<1>6. Becomes(d)
  BY DEF Punctuation
<1> HIDE DEF d
<1> QED
  BY <1>5, <1>6, BecomesStep

LEMMA NameStep ==
  ASSUME Held, At("loop"), decl \in Declaration, NEW t \in Token, Name(t)
  PROVE  Held' /\ decl' \in Declaration
<1> DEFINE a == Adding(decl, t)
           d == CASE ~decl.in_extern -> Entering(t)
                  [] decl.in_extern /\ IsOneOf(t, AttrNoReturn) ->
                       [decl EXCEPT !.no_star = FALSE, !.no_return = TRUE]
                  [] decl.in_extern /\ IsOneOf(t, AttrIgnore) -> [decl EXCEPT !.no_star = FALSE]
                  [] OTHER -> [a EXCEPT !.no_star = FALSE]
<1>1. /\ Entering(t) \in Declaration
      /\ [decl EXCEPT !.no_star = FALSE, !.no_return = TRUE] \in Declaration
      /\ [decl EXCEPT !.no_star = FALSE] \in Declaration
      /\ [a EXCEPT !.no_star = FALSE] \in Declaration
  BY DeclarationTyped, EnteringTyped
<1>2. d \in Declaration
  BY <1>1
<1>3. Becomes(d)
  BY DEF Name
<1> HIDE DEF d
<1> QED
  BY <1>2, <1>3, BecomesStep

LEMMA LoopStep ==
  ASSUME Held, decl \in Declaration, Loop
  PROVE  Held' /\ decl' \in Declaration
<1> DEFINE t == NextToken(FALSE)
<1>1. At("loop") /\ HasTokens
  BY DEF Loop
<1>2. t \in Token
  BY <1>1, SomethingNext DEF Held
<1>3. \/ Pass(t) \/ TakeDirective(t) \/ Linkage(t) \/ Comment(t) \/ Keyword(t)
      \/ Punctuation(t) \/ Name(t) \/ Semicolon(t)
  BY DEF Loop
<1> HIDE DEF t
<1>4. CASE Pass(t)
  BY <1>1, <1>4, BecomesStep DEF Pass
<1>5. CASE TakeDirective(t)
  BY <1>1, <1>5, DirectiveStep
<1>6. CASE Linkage(t)
  <2>1. [decl EXCEPT !.in_extern = FALSE] \in Declaration
    BY <1>2, DeclarationTyped
  <2> QED
    BY <1>1, <1>6, <2>1, BecomesStep DEF Linkage
<1>7. CASE Comment(t)
  <2>1. (IF decl.in_extern THEN Adding(decl, t) ELSE decl) \in Declaration
    BY <1>2, DeclarationTyped
  <2> QED
    BY <1>1, <1>7, <2>1, BecomesStep DEF Comment
<1>8. CASE Keyword(t)
  BY <1>1, <1>2, <1>8, KeywordStep
<1>9. CASE Punctuation(t)
  BY <1>1, <1>2, <1>9, PunctuationStep
<1>10. CASE Name(t)
  BY <1>1, <1>2, <1>10, NameStep
<1>11. CASE Semicolon(t)
  <2>1. Read(FALSE) /\ decl' = AfterSemicolon /\ UNCHANGED callVars
    BY <1>11 DEF Semicolon, callVars
  <2>2. Placed'
    BY <2>1, ReadPlaced DEF Held
  <2> QED
    BY <1>1, <2>1, <2>2, LoopGoesOn, AfterSemicolonTyped
<1> QED
  BY <1>3, <1>4, <1>5, <1>6, <1>7, <1>8, <1>9, <1>10, <1>11

\* The loop goes on with what a procedure returned.
LEMMA BackStep ==
  ASSUME Held, At("got_code") \/ At("got_struct") \/ At("got_enum"), BackToLoop
  PROVE  Held'
<1>1. Goto("loop", NONE, <<>>) /\ UNCHANGED tokenizerVars
  BY DEF BackToLoop
<1>2. Placed'
  BY <1>1 DEF Held, Placed, TokensTyped, Behind, tokenizerVars
<1>3. /\ "loop" \in Labels /\ "loop" \in Callers /\ "loop" \notin InHand \cup Beginning
      /\ Top.at \in Callers /\ <<>> \in Seq(Word)
  BY AllLabels DEF Callers, At
<1> QED
  BY <1>1, <1>2, <1>3, WaitStep

LEMMA GotTypeStep ==
  ASSUME Held, decl \in Declaration, GotType
  PROVE  Held' /\ decl' \in Declaration
<1>1. Held'
  BY BackStep DEF GotType
<1>2. decl.tokens \in Seq(Token) /\ ret \in Seq(Word)
  BY DEF Declaration, Held, Stacked
<1>3. OfType(decl.tokens, ret) \in Seq(Token)
  BY <1>2, OfTypeTyped
<1>4. [decl EXCEPT !.tokens = OfType(@, ret), !.in_extern = TRUE,
                   !.no_star = @ /\ ~decl.in_extern] \in Declaration
  BY <1>3 DEF Declaration
<1> QED
  BY <1>1, <1>4 DEF GotType

-----------------------------------------------------------------------------
(* The program.                                                            *)

Phases == {"parse", "guards", "linkage", "done", "raised"}
Parsing == Held /\ decl \in Declaration /\ phase \in Phases

LEMMA ParsingKept ==
  ASSUME Parsing, UNCHANGED <<tokenizerVars, callVars, decl>>, phase' \in Phases
  PROVE  Parsing'
<1>1. UNCHANGED <<tokens, current, next_token, stack, ret, decl>>
  BY DEF tokenizerVars, callVars
<1>2. Top' = Top /\ Placed' /\ Stacked' /\ Nested'
  BY <1>1 DEF Parsing, Held, Top, Placed, TokensTyped, Behind, Stacked, Nested
<1> QED
  BY <1>1, <1>2 DEF Parsing, Held, RoomToPutBack, CanPush, TopBehind, Behind

LEMMA ParsingFirst ==
  ASSUME Init
  PROVE  Parsing
<1>1. tokens \in Seq(Token)
  BY HeadersAssumption, FlattenPlaces DEF Init
<1>2. current = 1 /\ next_token = NONE
  BY DEF Init, TokenizerInit
<1>3. Placed
  <2>1. Len(tokens) \in Nat
    BY <1>1, LenProperties
  <2>2. current \in 1..(Len(tokens) + 1)
    BY <1>2, <2>1
  <2> QED
    BY <1>1, <1>2, <2>1, <2>2 DEF Placed, TokensTyped, Behind
<1>4. stack = <<Frame("loop")>> /\ ret = <<>>
  BY DEF Init
<1>5. Frame("loop") \in Frames
  <2>1. <<>> \in Seq(Word)
    OBVIOUS
  <2>2. "loop" \in Labels
    BY AllLabels DEF Callers
  <2> QED
    BY <2>1, <2>2 DEF Frame, Frames
<1>6. Len(stack) = 1 /\ stack[1] = Frame("loop") /\ stack \in Seq(Frames) /\ stack # <<>>
  BY <1>4, <1>5
<1>7. Stacked
  <2>1. ret \in Seq(Word)
    BY <1>4
  <2> QED
    BY <1>6, <2>1 DEF Stacked
<1>8. Nested
  BY <1>6 DEF Nested, Frame, Callers
<1>9. Top.at = "loop"
  BY <1>6 DEF Top, Last, Frame
<1>10. RoomToPutBack /\ TopBehind
  BY <1>9 DEF RoomToPutBack, TopBehind, InHand, Attributes, Beginning
<1>11. decl \in Declaration /\ phase \in Phases
  <2>1. <<>> \in Seq(Token)
    OBVIOUS
  <2> QED
    BY <2>1 DEF Init, NoDeclaration, Declaration, Phases
<1> QED
  BY <1>3, <1>7, <1>8, <1>10, <1>11 DEF Parsing, Held

LEMMA ParsingStep ==
  ASSUME Parsing, [Next]_vars
  PROVE  Parsing'
<1>1. CASE SubParser
  BY <1>1, StructStep, EnumStep, TypedefStep DEF SubParser, Parsing
<1>2. CASE ParseHeader
  <2>1. UNCHANGED phase
    BY <1>2 DEF ParseHeader
  <2>2. CASE Loop
    BY <2>1, <2>2, LoopStep DEF Parsing
  <2>3. CASE GotCode
    BY <2>1, <2>3, BackStep DEF GotCode, Parsing
  <2>4. CASE GotType
    BY <2>1, <2>4, GotTypeStep DEF Parsing
  <2> QED
    BY <1>2, <2>2, <2>3, <2>4 DEF ParseHeader
<1>3. CASE Raise
  BY <1>3, ParsingKept DEF Raise, Phases
<1>4. CASE EndLoop
  BY <1>4, ParsingKept DEF EndLoop, Phases
<1>5. CASE StripHeaderGuards
  BY <1>5, ParsingKept DEF StripHeaderGuards, Phases
<1>6. CASE StripExternCPass
  BY <1>6, ParsingKept DEF StripExternCPass, Parsing
<1>7. CASE CombineFileStructure
  BY <1>7, ParsingKept DEF CombineFileStructure, Phases
<1>8. CASE UNCHANGED vars
  BY <1>8, ParsingKept DEF vars, Parsing
<1> QED
  BY <1>1, <1>2, <1>3, <1>4, <1>5, <1>6, <1>7, <1>8 DEF Next, Program, Ended

LEMMA ParsingAlways == Spec => []Parsing
<1>1. Init => Parsing
  BY ParsingFirst
<1>2. Parsing /\ [Next]_vars => Parsing'
  BY ParsingStep
<1> QED
  BY <1>1, <1>2, PTL DEF Spec

\* Types of the parser's state, whatever the headers are: no procedure ends up
\* at a place that it does not have, or with a thing in hand that is no token,
\* and parse_header is never returned from (parse_header and the procedures
\* that it calls).
THEOREM ParserTypeCorrect == Spec => []ParserTypeOK
<1>1. Parsing => ParserTypeOK
  BY DEF Parsing, Held, Placed, TokensTyped, Stacked, Phases, ParserTypeOK
<1> QED
  BY <1>1, ParsingAlways, PTL

\* push_token never raises, whatever the headers are: in every procedure, however
\* deep in structs and typedefs, there is room for the token that may be put
\* back, and a procedure that is called finds its keyword put back.
THEOREM RoomToPutBackAlways == Spec => []RoomToPutBack
<1>1. Parsing => RoomToPutBack
  BY DEF Parsing, Held
<1> QED
  BY <1>1, ParsingAlways, PTL

\* Tokens are read in their order, each once, whatever the headers are: what is
\* put back, or held to be put back, is the last one read (Tokenizer).
THEOREM PutBackInPlaceAlways == Spec => []PutBackInPlace
<1>1. Parsing => PutBackInPlace
  BY DEF Parsing, Held, Placed, TopBehind, Behind, PutBackInPlace, LastRead
<1> QED
  BY <1>1, ParsingAlways, PTL

\* parse_header leaves its loop with nothing left to read and no procedure in
\* progress; what comes afterwards reads no token (has_tokens).
AtTheEnd == phase \in {"guards", "linkage", "done"} => ~HasTokens /\ At("loop")
THEOREM ReadsToTheEnd ==
  Spec => [](phase \notin {"parse", "raised"} => current > Len(tokens) /\ Len(stack) = 1)
<1>1. Init => AtTheEnd
  BY DEF Init, AtTheEnd
<1>2. AtTheEnd /\ [Next]_vars => AtTheEnd'
  <2> SUFFICES ASSUME AtTheEnd, [Next]_vars
               PROVE  AtTheEnd'
    OBVIOUS
  <2>1. CASE SubParser \/ ParseHeader
    <3>1. phase' = "parse"
      BY <2>1 DEF SubParser, ParseHeader
    <3> QED
      BY <3>1 DEF AtTheEnd
  <2>2. CASE Raise
    BY <2>2 DEF Raise, AtTheEnd
  <2>3. CASE UNCHANGED <<tokenizerVars, callVars>> /\ phase' = phase
    BY <2>3 DEF tokenizerVars, callVars, AtTheEnd, HasTokens, At, Top
  <2>4. CASE UNCHANGED <<tokenizerVars, callVars>> /\ ~HasTokens /\ At("loop")
    BY <2>4 DEF tokenizerVars, callVars, AtTheEnd, HasTokens, At, Top
  <2>5. CASE EndLoop
    BY <2>4, <2>5 DEF EndLoop
  <2>6. CASE StripHeaderGuards
    BY <2>4, <2>6 DEF StripHeaderGuards, AtTheEnd
  <2>7. CASE StripExternCPass
    BY <2>3, <2>7 DEF StripExternCPass
  <2>8. CASE CombineFileStructure
    BY <2>4, <2>8 DEF CombineFileStructure, AtTheEnd
  <2>9. CASE UNCHANGED vars
    BY <2>3, <2>9 DEF vars
  <2> QED
    BY <2>1, <2>2, <2>5, <2>6, <2>7, <2>8, <2>9 DEF Next, Program, Ended
<1>3. Parsing /\ AtTheEnd =>
        (phase \notin {"parse", "raised"} => current > Len(tokens) /\ Len(stack) = 1)
  <2> SUFFICES ASSUME Parsing, AtTheEnd, phase \notin {"parse", "raised"}
               PROVE  current > Len(tokens) /\ Len(stack) = 1
    OBVIOUS
  <2>1. ~HasTokens /\ At("loop")
    BY DEF AtTheEnd, Parsing, Phases
  <2>2. current > Len(tokens)
    BY <2>1 DEF HasTokens, Parsing, Held, Placed, TokensTyped
  <2>3. Len(stack) = 1
    BY <2>1, TopTyped DEF Parsing, Held, At, Callers
  <2> QED
    BY <2>2, <2>3
<1> QED
  BY <1>1, <1>2, <1>3, ParsingAlways, PTL DEF Spec
=============================================================================
