-------------------------- MODULE GeneratorProofs --------------------------
(***************************************************************************)
(* Proofs about the generator, for every table of modules and every        *)
(* edition of the headers with what GeneratorAssumption says of them: the  *)
(* files of a finished run are complete and agree, a refused run never     *)
(* leaves half a pair, a stopped one at most one.                          *)
(*                                                                         *)
(* First what the texts of the two files have, for any headers; then the   *)
(* invariant of main.                                                      *)
(***************************************************************************)
EXTENDS GeneratorProperties, SequenceLemmas, FiniteSetTheorems

LEMMA IsSequenceHas ==
  ASSUME NEW s, IsSequence(s)
  PROVE  /\ s \in Seq(ToSet(s)) /\ Len(s) \in Nat /\ DOMAIN s = 1..Len(s)
         /\ s = [i \in 1..Len(s) |-> s[i]]
         /\ \A i \in 1..Len(s) : s[i] \in ToSet(s)
         /\ \A x \in ToSet(s) : \E i \in 1..Len(s) : x = s[i]
<1>1. s \in Seq(ToSet(s))
  BY DEF IsSequence
<1> DEFINE S == ToSet(s)
<1>2. /\ Len(s) \in Nat /\ DOMAIN s = 1..Len(s) /\ s = [i \in 1..Len(s) |-> s[i]]
      /\ \A i \in 1..Len(s) : s[i] \in S
  <2>1. s \in Seq(S)
    BY <1>1
  <2> HIDE DEF S
  <2> QED
    BY <2>1, LenProperties, ElementOfSeq
<1>3. \A x \in ToSet(s) : \E i \in DOMAIN s : x = s[i]
  BY DEF ToSet
<1> QED
  BY <1>1, <1>2, <1>3

LEMMA SequenceIs ==
  ASSUME NEW s, NEW S, s \in Seq(S)
  PROVE  IsSequence(s)
<1>1. /\ Len(s) \in Nat /\ DOMAIN s = 1..Len(s) /\ s = [i \in 1..Len(s) |-> s[i]]
  BY LenProperties
<1>2. \A i \in 1..Len(s) : s[i] \in ToSet(s)
  BY <1>1 DEF ToSet
<1> DEFINE T == ToSet(s)
<1>3. \A i \in 1..Len(s) : s[i] \in T
  BY <1>2
<1> HIDE DEF T
<1>4. s \in Seq(T)
  BY <1>1, <1>3
<1> QED
  BY <1>4 DEF IsSequence, T

\* What is kept of a sequence, and from where.
LEMMA KeepHas ==
  ASSUME NEW s, IsSequence(s), NEW S
  PROVE  /\ IsSequence(Keep(s, S)) /\ ToSet(Keep(s, S)) \subseteq ToSet(s) \cap S
         /\ S \subseteq ToSet(s) => ToSet(Keep(s, S)) = S
         /\ IsInjective(s) => IsInjective(Keep(s, S))
<1> DEFINE T == ToSet(s)
           A == [i \in DOMAIN s |-> IF s[i] \in S THEN <<s[i]>> ELSE <<>>]
           f == FlattenSeq(A)
<1>1. /\ Len(s) \in Nat /\ DOMAIN s = 1..Len(s) /\ \A i \in 1..Len(s) : s[i] \in T
      /\ \A x \in T : \E i \in 1..Len(s) : x = s[i]
  BY IsSequenceHas
<1>2. Keep(s, S) = f
  BY DEF Keep
<1> HIDE DEF T
<1>3. A \in Seq(Seq(T)) /\ Len(A) = Len(s)
  BY <1>1
<1>10. \A i \in 1..Len(A) : \/ s[i] \in S /\ A[i] = <<s[i]>> /\ Len(A[i]) = 1
                            \/ s[i] \notin S /\ Len(A[i]) = 0
  BY <1>1, <1>3
<1> HIDE DEF A
<1> DEFINE p == Places(A)
<1>4. /\ f \in Seq(T) /\ Filled(p, A, Len(A)) /\ Len(p) = Len(f)
      /\ \A k \in 1..Len(f) : \E i \in 1..Len(A) : \E j \in 1..Len(A[i]) :
           f[k] = A[i][j] /\ p[k] = <<i, j>>
  BY <1>3, FlattenPlaces
<1> HIDE DEF f, p
<1>5. ASSUME NEW k \in 1..Len(f)
      PROVE  \E i \in 1..Len(s) : s[i] \in S /\ f[k] = s[i] /\ p[k] = <<i, 1>>
  <2>1. PICK i \in 1..Len(A) : \E j \in 1..Len(A[i]) : f[k] = A[i][j] /\ p[k] = <<i, j>>
    BY <1>4
  <2>2. PICK j \in 1..Len(A[i]) : f[k] = A[i][j] /\ p[k] = <<i, j>>
    BY <2>1
  <2>3. i \in 1..Len(s) /\ s[i] \in S /\ j = 1 /\ A[i] = <<s[i]>>
    <3>1. i \in 1..Len(s)
      BY <1>1, <1>3
    <3>2. s[i] \in S /\ A[i] = <<s[i]>> /\ Len(A[i]) = 1
      BY <1>10
    <3> QED
      BY <3>1, <3>2
  <2>4. f[k] = s[i] /\ p[k] = <<i, 1>>
    BY <2>2, <2>3
  <2> QED
    BY <2>3, <2>4
<1>6. Len(f) \in Nat /\ DOMAIN f = 1..Len(f) /\ IsSequence(f)
  BY <1>4, LenProperties, SequenceIs
<1>7. ToSet(f) \subseteq T \cap S
  BY <1>1, <1>5, <1>6 DEF ToSet
<1>8. ASSUME S \subseteq T, NEW x \in S PROVE x \in ToSet(f)
  <2>1. PICK i \in 1..Len(s) : x = s[i]
    BY <1>1, <1>8
  <2>2. i \in 1..Len(A) /\ 1 \in 1..Len(A[i])
    <3>1. i \in 1..Len(A) /\ s[i] \in S
      BY <1>1, <1>3, <1>8, <2>1
    <3>2. Len(A[i]) = 1
      BY <1>10, <3>1
    <3> QED
      BY <3>1, <3>2
  <2>3. PICK k \in 1..Len(p) : p[k] = <<i, 1>>
    BY <1>4, <2>2 DEF Filled
  <2>4. k \in 1..Len(f)
    BY <1>4
  <2>5. PICK h \in 1..Len(s) : f[k] = s[h] /\ p[k] = <<h, 1>>
    BY <1>5, <2>4
  <2>6. h = i
    BY <2>3, <2>5
  <2> QED
    BY <1>6, <2>1, <2>4, <2>5, <2>6 DEF ToSet
<1>9. ASSUME IsInjective(s) PROVE IsInjective(f)
  <2>1. \A i, j \in 1..Len(s) : s[i] = s[j] => i = j
    BY <1>1, <1>9 DEF IsInjective
  <2>2. ASSUME NEW k \in 1..Len(f), NEW l \in 1..Len(f), f[k] = f[l] PROVE k = l
    <3>1. PICK i \in 1..Len(s) : f[k] = s[i] /\ p[k] = <<i, 1>>
      BY <1>5
    <3>2. PICK j \in 1..Len(s) : f[l] = s[j] /\ p[l] = <<j, 1>>
      BY <1>5
    <3>3. i = j
      BY <2>1, <2>2, <3>1, <3>2
    <3>4. p[k] = p[l]
      BY <3>1, <3>2, <3>3
    <3> QED
      BY <1>4, <3>4 DEF Filled
  <2> QED
    BY <1>6, <2>2 DEF IsInjective
<1> QED
  BY <1>2, <1>6, <1>7, <1>8, <1>9 DEF T

-----------------------------------------------------------------------------

\* The headers of the module, all of them read.
Readable(module, edition) ==
  IsSequence(module.headers) /\
  \A i \in DOMAIN module.headers : IsSequence(edition[module.headers[i]])

\* A list that follows what the headers declare: its k-th element is of the
\* function of the k-th declaration.
Follows(list, A, module, edition) ==
  LET d == Declared(module, edition) IN
    \E m \in Nat :
      /\ list = [k \in 1..m |-> list[k]] /\ d = [k \in 1..m |-> d[k]]
      /\ \A k \in 1..m :
           \E i \in DOMAIN module.headers : \E j \in DOMAIN edition[module.headers[i]] :
             /\ list[k] = A[i][j]
             /\ d[k].header = Basename(module.headers[i])
             /\ d[k].function = edition[module.headers[i]][j]

LEMMA ListFollows ==
  ASSUME NEW module, NEW edition, Readable(module, edition), NEW A,
         A = [i \in DOMAIN module.headers |-> A[i]],
         \A i \in DOMAIN module.headers :
           A[i] = [j \in DOMAIN edition[module.headers[i]] |-> A[i][j]]
  PROVE  Follows(FlattenSeq(A), A, module, edition)
<1> DEFINE n == Len(module.headers)
           L == [i \in 1..n |-> Len(edition[module.headers[i]])]
           B == [i \in DOMAIN module.headers |->
                  [j \in DOMAIN edition[module.headers[i]] |->
                    [header |-> Basename(module.headers[i]),
                     function |-> edition[module.headers[i]][j]]]]
<1>1. n \in Nat /\ DOMAIN module.headers = 1..n
  BY IsSequenceHas DEF Readable
<1>2. ASSUME NEW i \in 1..n
      PROVE  L[i] \in Nat /\ DOMAIN edition[module.headers[i]] = 1..L[i]
  <2>1. IsSequence(edition[module.headers[i]])
    BY <1>1 DEF Readable
  <2> QED
    BY <2>1, IsSequenceHas
<1>3. Declared(module, edition) = FlattenSeq(B)
  BY DEF Declared
<1>4. ASSUME NEW i \in 1..n, NEW j \in 1..L[i]
      PROVE  /\ B[i][j].header = Basename(module.headers[i])
             /\ B[i][j].function = edition[module.headers[i]][j]
  BY <1>1, <1>2
<1>5. \A i \in 1..n : B[i] = [j \in 1..L[i] |-> B[i][j]]
  BY <1>1, <1>2
<1>6. B = [i \in 1..n |-> B[i]]
  BY <1>1
<1> HIDE DEF B
<1>7. Shaped(B, n, L)
  BY <1>5, <1>6 DEF Shaped
<1>8. Shaped(A, n, L)
  BY <1>1, <1>2 DEF Shaped
<1> HIDE DEF n, L
<1>9. PICK m \in Nat : InStep(FlattenSeq(A), FlattenSeq(B), A, B, n, L, m)
  BY <1>1, <1>2, <1>7, <1>8, ListsTogether
<1>10. ASSUME NEW k \in 1..m
       PROVE  \E i \in DOMAIN module.headers : \E j \in DOMAIN edition[module.headers[i]] :
                /\ FlattenSeq(A)[k] = A[i][j]
                /\ FlattenSeq(B)[k].header = Basename(module.headers[i])
                /\ FlattenSeq(B)[k].function = edition[module.headers[i]][j]
  <2>1. PICK i \in 1..n : \E j \in 1..L[i] :
          FlattenSeq(A)[k] = A[i][j] /\ FlattenSeq(B)[k] = B[i][j]
    BY <1>9 DEF InStep
  <2>2. PICK j \in 1..L[i] : FlattenSeq(A)[k] = A[i][j] /\ FlattenSeq(B)[k] = B[i][j]
    BY <2>1
  <2>3. i \in DOMAIN module.headers /\ j \in DOMAIN edition[module.headers[i]]
    BY <1>1, <1>2
  <2> QED
    BY <1>4, <2>2, <2>3
<1> DEFINE f == FlattenSeq(A)
           g == FlattenSeq(B)
<1>11. /\ f = [k \in 1..m |-> f[k]] /\ g = [k \in 1..m |-> g[k]]
       /\ \A k \in 1..m :
            \E i \in DOMAIN module.headers : \E j \in DOMAIN edition[module.headers[i]] :
              /\ f[k] = A[i][j]
              /\ g[k].header = Basename(module.headers[i])
              /\ g[k].function = edition[module.headers[i]][j]
  BY <1>9, <1>10 DEF InStep
<1> HIDE DEF f, g
<1>12. g = Declared(module, edition)
  BY <1>3 DEF g
<1>13. Follows(f, A, module, edition)
  BY <1>11, <1>12 DEF Follows
<1> QED
  BY <1>13 DEF f

\* A list made of what is kept of each list in K has the names of what is kept.
HasNamesOf(list, K, n) == NamesOf(list) = FlattenSeq([i \in 1..n |-> NamesOf(K[i])])

LEMMA KeptNames ==
  ASSUME NEW n \in Nat, NEW K, \A i \in 1..n : IsSequence(K[i]), NEW A,
         A = [i \in 1..n |-> A[i]], \A i \in 1..n : A[i] = [j \in DOMAIN K[i] |-> A[i][j]],
         \A i \in 1..n : \A j \in DOMAIN K[i] : A[i][j].name = K[i][j].name
  PROVE  HasNamesOf(FlattenSeq(A), K, n)
<1> DEFINE L == [i \in 1..n |-> Len(K[i])]
           B == [i \in 1..n |-> NamesOf(K[i])]
<1>1. \A i \in 1..n : L[i] \in Nat /\ DOMAIN K[i] = 1..L[i]
  BY IsSequenceHas
<1>2. ASSUME NEW i \in 1..n
      PROVE  B[i] = [j \in 1..L[i] |-> B[i][j]] /\ \A j \in 1..L[i] : B[i][j] = A[i][j].name
  BY <1>1 DEF NamesOf
<1>3. B = [i \in 1..n |-> B[i]]
  OBVIOUS
<1> HIDE DEF B
<1>4. Shaped(A, n, L) /\ Shaped(B, n, L)
  BY <1>1, <1>2, <1>3 DEF Shaped
<1> HIDE DEF L
<1>5. PICK m \in Nat : InStep(FlattenSeq(A), FlattenSeq(B), A, B, n, L, m)
  BY <1>1, <1>4, ListsTogether
<1>6. \A k \in 1..m : FlattenSeq(A)[k].name = FlattenSeq(B)[k]
  <2> TAKE k \in 1..m
  <2>1. PICK i \in 1..n : \E j \in 1..L[i] :
          FlattenSeq(A)[k] = A[i][j] /\ FlattenSeq(B)[k] = B[i][j]
    BY <1>5 DEF InStep
  <2>2. PICK j \in 1..L[i] : FlattenSeq(A)[k] = A[i][j] /\ FlattenSeq(B)[k] = B[i][j]
    BY <2>1
  <2>3. B[i][j] = A[i][j].name
    BY <1>2
  <2> QED
    BY <2>2, <2>3
<1>7. NamesOf(FlattenSeq(A)) = FlattenSeq(B)
  BY <1>5, <1>6 DEF NamesOf, InStep
<1> QED
  BY <1>7 DEF B, HasNamesOf

\* What was found in the headers of the module, as main has it in hand.
Matches(dict, module, edition) ==
  /\ Readable(module, edition)
  /\ dict = [i \in DOMAIN module.headers |->
               [key |-> Basename(module.headers[i]), value |-> edition[module.headers[i]]]]

\* Each function's place in a list of the functions in a dict.
LEMMA ListOfAll ==
  ASSUME NEW module, NEW edition, NEW dict, Matches(dict, module, edition), NEW A,
         A = [i \in DOMAIN dict |-> A[i]],
         \A i \in DOMAIN dict : A[i] = [j \in DOMAIN dict[i].value |-> A[i][j]]
  PROVE  Follows(FlattenSeq(A), A, module, edition)
<1>1. /\ DOMAIN dict = DOMAIN module.headers
      /\ \A i \in DOMAIN module.headers : dict[i].value = edition[module.headers[i]]
  BY DEF Matches
<1>2. A = [i \in DOMAIN module.headers |-> A[i]]
  BY <1>1
<1>3. \A i \in DOMAIN module.headers :
        A[i] = [j \in DOMAIN edition[module.headers[i]] |-> A[i][j]]
  BY <1>1
<1> QED
  BY <1>2, <1>3, ListFollows DEF Matches

LEMMA FollowsNames ==
  ASSUME NEW module, NEW edition, NEW list, NEW A, Follows(list, A, module, edition),
         \A i \in DOMAIN module.headers : \A j \in DOMAIN edition[module.headers[i]] :
           A[i][j].name = edition[module.headers[i]][j].name
  PROVE  NamesOf(list) = [k \in DOMAIN Declared(module, edition) |->
                            Declared(module, edition)[k].function.name]
<1> DEFINE d == Declared(module, edition)
<1>1. PICK m \in Nat :
        /\ list = [k \in 1..m |-> list[k]] /\ d = [k \in 1..m |-> d[k]]
        /\ \A k \in 1..m :
             \E i \in DOMAIN module.headers : \E j \in DOMAIN edition[module.headers[i]] :
               list[k] = A[i][j] /\ d[k].function = edition[module.headers[i]][j]
  BY DEF Follows
<1> HIDE DEF d
<1>2. DOMAIN list = 1..m /\ DOMAIN d = 1..m
  BY <1>1
<1>3. \A k \in 1..m : list[k].name = d[k].function.name
  BY <1>1
<1>4. NamesOf(list) = [k \in DOMAIN d |-> d[k].function.name]
  BY <1>2, <1>3 DEF NamesOf
<1> QED
  BY <1>4 DEF d

\* The list of the names of what is kept of a dict.
LEMMA KeptOfAll ==
  ASSUME NEW module, NEW edition, NEW dict, Matches(dict, module, edition), NEW K,
         \A i \in DOMAIN dict : IsSequence(K[i]), NEW A,
         A = [i \in DOMAIN dict |-> A[i]],
         \A i \in DOMAIN dict : A[i] = [j \in DOMAIN K[i] |-> A[i][j]],
         \A i \in DOMAIN dict : \A j \in DOMAIN K[i] : A[i][j].name = K[i][j].name
  PROVE  HasNamesOf(FlattenSeq(A), K, Len(module.headers))
<1> DEFINE n == Len(module.headers)
<1>1. n \in Nat /\ DOMAIN module.headers = 1..n
  BY IsSequenceHas DEF Matches, Readable
<1>2. DOMAIN dict = 1..n
  BY <1>1 DEF Matches
<1> HIDE DEF n
<1>3. /\ \A i \in 1..n : IsSequence(K[i])
      /\ A = [i \in 1..n |-> A[i]] /\ \A i \in 1..n : A[i] = [j \in DOMAIN K[i] |-> A[i][j]]
      /\ \A i \in 1..n : \A j \in DOMAIN K[i] : A[i][j].name = K[i][j].name
  BY <1>2
<1> QED
  BY <1>1, <1>3, KeptNames DEF n

\* The text of the header has what the headers of the module declare.
LEMMA HeaderTextFits ==
  ASSUME NEW module, NEW edition, NEW dict, Matches(dict, module, edition)
  PROVE  HeaderFits(HeaderText(module, dict), module, edition)
<1> DEFINE d == Declared(module, edition)
           h == HeaderText(module, dict)
           V(i) == edition[module.headers[i]]
<1>0. /\ DOMAIN dict = DOMAIN module.headers
      /\ \A i \in DOMAIN module.headers : dict[i].value = V(i) /\ IsSequence(V(i))
  BY DEF Matches, Readable
<1>1. NamesOf(h.structure) = [k \in DOMAIN d |-> d[k].function.name]
  <2> DEFINE A == [i \in DOMAIN dict |->
                    [j \in DOMAIN dict[i].value |-> Structure(dict[i].value[j], module)]]
  <2>1. h.structure = FlattenSeq(A)
    BY DEF HeaderText, AllOf
  <2>2. \A i \in DOMAIN module.headers : \A j \in DOMAIN V(i) : A[i][j].name = V(i)[j].name
    BY <1>0 DEF Structure
  <2>3. /\ A = [i \in DOMAIN dict |-> A[i]]
        /\ \A i \in DOMAIN dict : A[i] = [j \in DOMAIN dict[i].value |-> A[i][j]]
    OBVIOUS
  <2> HIDE DEF A
  <2>4. Follows(FlattenSeq(A), A, module, edition)
    BY <2>3, ListOfAll
  <2> QED
    BY <2>1, <2>2, <2>4, FollowsNames
<1>2. h.externs = [k \in DOMAIN d |-> ImplOf(d[k].function.name)]
  <2> DEFINE A == [i \in DOMAIN dict |->
                    [j \in DOMAIN dict[i].value |-> ImplOf(dict[i].value[j].name)]]
             f == FlattenSeq(A)
  <2>1. h.externs = f
    BY DEF HeaderText, AllOf
  <2>2. \A i \in DOMAIN module.headers : \A j \in DOMAIN V(i) : A[i][j] = ImplOf(V(i)[j].name)
    BY <1>0
  <2>3. /\ A = [i \in DOMAIN dict |-> A[i]]
        /\ \A i \in DOMAIN dict : A[i] = [j \in DOMAIN dict[i].value |-> A[i][j]]
    OBVIOUS
  <2> HIDE DEF A
  <2>4. Follows(f, A, module, edition)
    BY <2>3, ListOfAll
  <2> HIDE DEF f
  <2>5. PICK m \in Nat :
          /\ f = [k \in 1..m |-> f[k]] /\ d = [k \in 1..m |-> d[k]]
          /\ \A k \in 1..m : \E i \in DOMAIN module.headers : \E j \in DOMAIN V(i) :
               f[k] = A[i][j] /\ d[k].function = V(i)[j]
    BY <2>4 DEF Follows
  <2> HIDE DEF d
  <2>6. \A k \in 1..m : f[k] = ImplOf(d[k].function.name)
    BY <2>2, <2>5
  <2> QED
    BY <2>1, <2>5, <2>6
<1>3. NamesOf(h.macros) = NamesOfSuch(module, edition, Variadic)
  <2> DEFINE K == [i \in DOMAIN dict |->
                    Keep(dict[i].value, {f \in ToSet(dict[i].value) : HasVarargs(f)})]
             A == [i \in DOMAIN dict |-> [j \in DOMAIN K[i] |-> Macro(K[i][j])]]
  <2>1. h.macros = FlattenSeq(A)
    <3>1. DOMAIN Only(HasVarargs, dict) = DOMAIN dict
      BY DEF Only
    <3>2. \A i \in DOMAIN dict : Only(HasVarargs, dict)[i].value = K[i]
      BY DEF Only, Matches
    <3> QED
      BY <3>1, <3>2 DEF HeaderText, AllOf
  <2>2. \A i \in DOMAIN dict : IsSequence(K[i])
    BY <1>0, KeepHas
  <2>4. \A i \in DOMAIN module.headers :
          K[i] = Keep(V(i), {f \in ToSet(V(i)) : Variadic(f)})
    BY <1>0 DEF Variadic, HasVarargs
  <2> HIDE DEF K
  <2>5. /\ A = [i \in DOMAIN dict |-> A[i]]
        /\ \A i \in DOMAIN dict : A[i] = [j \in DOMAIN K[i] |-> A[i][j]]
        /\ \A i \in DOMAIN dict : \A j \in DOMAIN K[i] : A[i][j].name = K[i][j].name
    BY DEF Macro
  <2> HIDE DEF A
  <2>6. NamesOf(FlattenSeq(A)) = FlattenSeq([i \in DOMAIN module.headers |-> NamesOf(K[i])])
    <3>1. HasNamesOf(FlattenSeq(A), K, Len(module.headers))
      BY <2>2, <2>5, KeptOfAll
    <3>2. DOMAIN module.headers = 1..Len(module.headers)
      BY IsSequenceHas DEF Matches, Readable
    <3> QED
      BY <3>1, <3>2 DEF HasNamesOf
  <2>7. NamesOfSuch(module, edition, Variadic)
          = FlattenSeq([i \in DOMAIN module.headers |-> NamesOf(K[i])])
    BY <2>4 DEF NamesOfSuch
  <2> QED
    BY <2>1, <2>6, <2>7
<1>4. h.is = "written"
  BY DEF HeaderText
<1> HIDE DEF h
<1>5. HeaderFits(h, module, edition)
  <2> DEFINE names == [k \in DOMAIN d |-> d[k].function.name]
  <2>1. [k \in DOMAIN names |-> ImplOf(names[k])] = [k \in DOMAIN d |-> ImplOf(d[k].function.name)]
    OBVIOUS
  <2> HIDE DEF names
  <2>2. h.externs = [k \in DOMAIN names |-> ImplOf(names[k])]
    BY <1>2, <2>1
  <2> QED
    BY <1>1, <1>3, <1>4, <2>2 DEF HeaderFits, names
<1> QED
  BY <1>5 DEF h

\* The slots of the source file: the libraries of the module, each once.
LEMMA SlotsRight ==
  ASSUME NEW module, IsDictOrder(order, DOMAIN module.libraries)
  PROVE  /\ IsSequence(LibraryNames(module)) /\ IsInjective(LibraryNames(module))
         /\ ToSet(LibraryNames(module)) = DOMAIN module.libraries
  BY KeepHas DEF IsDictOrder, LibraryNames

\* A module has one library where it has one slot.
LEMMA OneSlot ==
  ASSUME NEW names, IsSequence(names), IsInjective(names)
  PROVE  /\ Len(names) = 1 => ToSet(names) = {names[1]} /\ Cardinality(ToSet(names)) = 1
         /\ Len(names) # 1 => Cardinality(ToSet(names)) # 1
<1> DEFINE S == ToSet(names)
<1>1. /\ names \in Seq(S) /\ Len(names) \in Nat /\ DOMAIN names = 1..Len(names)
      /\ \A i \in 1..Len(names) : names[i] \in S
      /\ \A x \in S : \E i \in 1..Len(names) : x = names[i]
  BY IsSequenceHas
<1>2. IsFiniteSet(S)
  <2>1. names \in Surjection(1..Len(names), S)
    <3>1. names \in [1..Len(names) -> S]
      BY <1>1
    <3> HIDE DEF S
    <3> QED
      BY <1>1, <3>1 DEF Surjection
  <2>2. IsFiniteSet(1..Len(names))
    BY <1>1, FS_Interval
  <2> HIDE DEF S
  <2> QED
    BY <2>1, <2>2, FS_Surjection
<1> HIDE DEF S
<1>3. ASSUME Len(names) = 1 PROVE S = {names[1]} /\ Cardinality(S) = 1
  <2>1. S = {names[1]}
    BY <1>1, <1>3
  <2> QED
    BY <2>1, FS_Singleton
<1>4. ASSUME Cardinality(S) = 1 PROVE Len(names) = 1
  <2>1. PICK x : S = {x}
    BY <1>2, <1>4, FS_Singleton
  <2>2. \A i, j \in 1..Len(names) : i = j
    BY <1>1, <2>1 DEF IsInjective
  <2>3. Len(names) >= 1
    BY <1>1, <2>1
  <2>4. 1 \in 1..Len(names) /\ Len(names) \in 1..Len(names)
    BY <1>1, <2>3
  <2> QED
    BY <2>2, <2>4
<1> QED
  BY <1>3, <1>4 DEF S

\* The library that a header is given to is the one that it describes.
LEMMA HomeFound ==
  ASSUME NEW module, NamesItsLibraries(module), IsDictOrder(order, DOMAIN module.libraries),
         NEW path \in ToSet(module.headers),
         LibraryForHeader(module, Basename(path)) # <<>>
  PROVE  Homes(module, Basename(path)) = {LibraryForHeader(module, Basename(path))[1]}
<1> DEFINE name == Basename(path)
           names == LibraryNames(module)
           I == {i \in 1..Len(names) : Mentions(module.libraries[names[i]], name)}
           first == IF I # {} THEN Min(I) ELSE 0
<1>1. LibraryForHeader(module, name) =
        IF Len(names) = 1 THEN names ELSE IF first = 0 THEN <<>> ELSE <<names[first]>>
  BY DEF LibraryForHeader, SelectInSeq
<1>2. /\ IsSequence(names) /\ IsInjective(names) /\ ToSet(names) = DOMAIN module.libraries
  BY SlotsRight
<1> HIDE DEF names
<1>3. CASE Len(names) = 1
  <2>1. LibraryForHeader(module, name) = names
    BY <1>1, <1>3
  <2>2. DOMAIN module.libraries = {names[1]} /\ Cardinality(DOMAIN module.libraries) = 1
    BY <1>2, <1>3, OneSlot
  <2> QED
    BY <2>1, <2>2 DEF Homes
<1>4. CASE Len(names) # 1
  <2>1. first # 0 /\ LibraryForHeader(module, name) = <<names[first]>>
    BY <1>1, <1>4
  <2>2. first \in I
    <3>1. I # {} /\ I \subseteq Nat
      BY <2>1
    <3> HIDE DEF I
    <3>2. \E x \in I : \A y \in I : x <= y
      BY <3>1, Least
    <3>3. Min(I) \in I
      BY <3>2 DEF Min
    <3> QED
      BY <3>1, <3>3
  <2> DEFINE l == names[first]
  <2>3. l \in DOMAIN module.libraries /\ Mentions(module.libraries[l], name)
    <3>1. first \in 1..Len(names)
      BY <2>2
    <3>2. names[first] \in ToSet(names)
      BY <1>2, <3>1, IsSequenceHas
    <3> HIDE DEF first
    <3> QED
      BY <1>2, <2>2, <3>2
  <2>4. LibraryForHeader(module, name)[1] = l
    BY <2>1
  <2> HIDE DEF l, I, first
  <2>5. /\ name \in module.libraries[l].headers \cup {module.libraries[l].text}
        /\ \A m \in DOMAIN module.libraries \ {l} :
             name \notin module.libraries[m].headers \cup {module.libraries[m].text}
    BY <2>3 DEF NamesItsLibraries
  <2>6. Cardinality(DOMAIN module.libraries) # 1
    BY <1>2, <1>4, OneSlot
  <2>7. Homes(module, name) = {l}
    BY <2>3, <2>5, <2>6 DEF Homes
  <2> QED
    BY <2>4, <2>7
<1> QED
  BY <1>3, <1>4

\* No function of a header without a library.
Placed(module, dict) ==
  \A i \in DOMAIN dict : dict[i].value # <<>> => LibraryForHeader(module, dict[i].key) # <<>>

\* The text of the source file has what the headers of the module declare.
LEMMA SourceTextFits ==
  ASSUME NEW module, NEW edition, NEW dict, Matches(dict, module, edition),
         Placed(module, dict), NamesItsLibraries(module),
         IsDictOrder(order, DOMAIN module.libraries)
  PROVE  SourceFits(SourceText(module, dict), module, edition)
<1> DEFINE d == Declared(module, edition)
           s == SourceText(module, dict)
           V(i) == edition[module.headers[i]]
           names == LibraryNames(module)
<1>0. /\ DOMAIN dict = DOMAIN module.headers
      /\ \A i \in DOMAIN module.headers :
           dict[i].key = Basename(module.headers[i]) /\ dict[i].value = V(i) /\ IsSequence(V(i))
  BY DEF Matches, Readable
<1>1. s.functors = [k \in DOMAIN d |-> [type |-> TypeOf(d[k].function.name),
                                        name |-> ImplOf(d[k].function.name)]]
  <2> DEFINE A == [i \in DOMAIN dict |-> [j \in DOMAIN dict[i].value |->
                    [type |-> TypeOf(dict[i].value[j].name),
                     name |-> ImplOf(dict[i].value[j].name)]]]
             f == FlattenSeq(A)
  <2>1. s.functors = f
    BY DEF SourceText, AllOf
  <2>2. \A i \in DOMAIN module.headers : \A j \in DOMAIN V(i) :
          A[i][j] = [type |-> TypeOf(V(i)[j].name), name |-> ImplOf(V(i)[j].name)]
    BY <1>0
  <2>3. /\ A = [i \in DOMAIN dict |-> A[i]]
        /\ \A i \in DOMAIN dict : A[i] = [j \in DOMAIN dict[i].value |-> A[i][j]]
    OBVIOUS
  <2> HIDE DEF A
  <2>4. Follows(f, A, module, edition)
    BY <2>3, ListOfAll
  <2> HIDE DEF f
  <2>5. PICK m \in Nat :
          /\ f = [k \in 1..m |-> f[k]] /\ d = [k \in 1..m |-> d[k]]
          /\ \A k \in 1..m : \E i \in DOMAIN module.headers : \E j \in DOMAIN V(i) :
               f[k] = A[i][j] /\ d[k].function = V(i)[j]
    BY <2>4 DEF Follows
  <2> HIDE DEF d
  <2>6. \A k \in 1..m : f[k] = [type |-> TypeOf(d[k].function.name),
                                name |-> ImplOf(d[k].function.name)]
    <3> TAKE k \in 1..m
    <3>1. PICK i \in DOMAIN module.headers : \E j \in DOMAIN V(i) :
            f[k] = A[i][j] /\ d[k].function = V(i)[j]
      BY <2>5
    <3>2. PICK j \in DOMAIN V(i) : f[k] = A[i][j] /\ d[k].function = V(i)[j]
      BY <3>1
    <3>3. A[i][j] = [type |-> TypeOf(V(i)[j].name), name |-> ImplOf(V(i)[j].name)]
      BY <2>2
    <3> QED
      BY <3>2, <3>3
  <2> QED
    BY <2>1, <2>5, <2>6
<1>2. NamesOf(s.wrappers) = NamesOfSuch(module, edition, LAMBDA f : ~Variadic(f))
  <2> DEFINE K == [i \in DOMAIN dict |->
                    Keep(dict[i].value, {f \in ToSet(dict[i].value) : ~HasVarargs(f)})]
             A == [i \in DOMAIN dict |-> [j \in DOMAIN K[i] |-> Wrapper(K[i][j])]]
  <2>1. s.wrappers = FlattenSeq(A)
    <3>1. DOMAIN Only(LAMBDA f : ~HasVarargs(f), dict) = DOMAIN dict
      BY DEF Only
    <3>2. \A i \in DOMAIN dict : Only(LAMBDA f : ~HasVarargs(f), dict)[i].value = K[i]
      BY DEF Only, Matches
    <3> QED
      BY <3>1, <3>2 DEF SourceText, AllOf
  <2>2. \A i \in DOMAIN dict : IsSequence(K[i])
    BY <1>0, KeepHas
  <2>4. \A i \in DOMAIN module.headers :
          K[i] = Keep(V(i), {f \in ToSet(V(i)) : ~Variadic(f)})
    BY <1>0 DEF Variadic, HasVarargs
  <2> HIDE DEF K
  <2>5. /\ A = [i \in DOMAIN dict |-> A[i]]
        /\ \A i \in DOMAIN dict : A[i] = [j \in DOMAIN K[i] |-> A[i][j]]
        /\ \A i \in DOMAIN dict : \A j \in DOMAIN K[i] : A[i][j].name = K[i][j].name
    BY DEF Wrapper
  <2> HIDE DEF A
  <2>6. NamesOf(FlattenSeq(A)) = FlattenSeq([i \in DOMAIN module.headers |-> NamesOf(K[i])])
    <3>1. HasNamesOf(FlattenSeq(A), K, Len(module.headers))
      BY <2>2, <2>5, KeptOfAll
    <3>2. DOMAIN module.headers = 1..Len(module.headers)
      BY IsSequenceHas DEF Matches, Readable
    <3> QED
      BY <3>1, <3>2 DEF HasNamesOf
  <2>7. NamesOfSuch(module, edition, LAMBDA f : ~Variadic(f))
          = FlattenSeq([i \in DOMAIN module.headers |-> NamesOf(K[i])])
    BY <2>4 DEF NamesOfSuch
  <2> QED
    BY <2>1, <2>6, <2>7
<1>3. /\ NamesOf(s.loaders) = [k \in DOMAIN d |-> d[k].function.name]
      /\ \A k \in DOMAIN s.loaders : Homes(module, d[k].header) = {s.loaders[k].library}
  <2> DEFINE A == [i \in DOMAIN dict |-> [j \in DOMAIN dict[i].value |->
                    [library |-> LibraryForHeader(module, dict[i].key)[1],
                     name |-> dict[i].value[j].name]]]
             f == FlattenSeq(A)
  <2>1. s.loaders = f
    BY DEF SourceText, AllOf
  <2>2. \A i \in DOMAIN module.headers : \A j \in DOMAIN V(i) :
          /\ A[i][j].library = LibraryForHeader(module, Basename(module.headers[i]))[1]
          /\ A[i][j].name = V(i)[j].name
    BY <1>0
  <2>3. /\ A = [i \in DOMAIN dict |-> A[i]]
        /\ \A i \in DOMAIN dict : A[i] = [j \in DOMAIN dict[i].value |-> A[i][j]]
    OBVIOUS
  <2> HIDE DEF A
  <2>4. Follows(f, A, module, edition)
    BY <2>3, ListOfAll
  <2>5. NamesOf(f) = [k \in DOMAIN d |-> d[k].function.name]
    BY <2>2, <2>4, FollowsNames
  <2> HIDE DEF f
  <2>6. PICK m \in Nat :
          /\ f = [k \in 1..m |-> f[k]] /\ d = [k \in 1..m |-> d[k]]
          /\ \A k \in 1..m : \E i \in DOMAIN module.headers : \E j \in DOMAIN V(i) :
               /\ f[k] = A[i][j]
               /\ d[k].header = Basename(module.headers[i]) /\ d[k].function = V(i)[j]
    BY <2>4 DEF Follows
  <2> HIDE DEF d
  <2>7. ASSUME NEW k \in 1..m PROVE Homes(module, d[k].header) = {f[k].library}
    <3>1. PICK i \in DOMAIN module.headers : \E j \in DOMAIN V(i) :
            f[k] = A[i][j] /\ d[k].header = Basename(module.headers[i])
      BY <2>6
    <3>2. PICK j \in DOMAIN V(i) : f[k] = A[i][j]
      BY <3>1
    <3>3. V(i) # <<>>
      BY <3>2
    <3>4. LibraryForHeader(module, Basename(module.headers[i])) # <<>>
      BY <1>0, <3>3 DEF Placed
    <3>5. module.headers[i] \in ToSet(module.headers)
      BY DEF ToSet
    <3>6. Homes(module, Basename(module.headers[i]))
            = {LibraryForHeader(module, Basename(module.headers[i]))[1]}
      BY <3>4, <3>5, HomeFound
    <3> QED
      BY <2>2, <3>1, <3>2, <3>6
  <2> QED
    BY <2>1, <2>5, <2>6, <2>7
<1>4. /\ s.slots = names /\ IsSequence(names) /\ IsInjective(names)
      /\ ToSet(names) = DOMAIN module.libraries
  BY SlotsRight DEF SourceText
<1>5. /\ [i \in DOMAIN s.opens |-> s.opens[i].library] = names
      /\ \A i \in DOMAIN s.opens : s.opens[i].required = module.libraries[names[i]].required
  <2>1. /\ DOMAIN s.opens = DOMAIN names
        /\ \A i \in DOMAIN names : /\ s.opens[i].library = names[i]
                                   /\ s.opens[i].required = module.libraries[names[i]].required
    BY DEF SourceText
  <2>2. names = [i \in DOMAIN names |-> names[i]]
    BY <1>4, IsSequenceHas
  <2> HIDE DEF s, names
  <2> QED
    BY <2>1, <2>2
<1>6. s.is = "written" /\ s.closes = module.lower
  BY DEF SourceText
<1>7. module.lower \in DOMAIN module.libraries /\ module.libraries[module.lower].required
  BY DEF NamesItsLibraries
<1> HIDE DEF s, names
<1>8. SourceFits(s, module, edition)
  BY <1>1, <1>2, <1>3, <1>4, <1>5, <1>6, <1>7 DEF SourceFits
<1> QED
  BY <1>8 DEF s

-----------------------------------------------------------------------------
(* The code of one function.                                               *)

\* Two sequences with the same places are the same.
LEMMA SamePlaces ==
  ASSUME NEW S, NEW s \in Seq(S), NEW t \in Seq(S), Len(s) = Len(t),
         \A i \in 1..Len(s) : s[i] = t[i]
  PROVE  s = t
<1>1. s = [i \in 1..Len(s) |-> s[i]] /\ t = [i \in 1..Len(t) |-> t[i]]
  BY LenProperties
<1> QED
  BY <1>1

LEMMA PartOf ==
  ASSUME NEW S, NEW s \in Seq(S), NEW m \in 1..(Len(s) + 1), NEW n \in (m - 1)..Len(s)
  PROVE  /\ SubSeq(s, m, n) \in Seq(S) /\ Len(SubSeq(s, m, n)) = n - m + 1
         /\ \A i \in 1..(n - m + 1) : SubSeq(s, m, n)[i] = s[m + i - 1]
<1>1. Len(s) \in Nat
  BY LenProperties
<1>2. m \in Int /\ n \in Int /\ m >= 1 /\ n <= Len(s) /\ m <= n + 1
  BY <1>1
<1>3. \A i \in m..n : s[i] \in S
  <2>1. \A i \in m..n : i \in 1..Len(s)
    BY <1>1, <1>2
  <2> QED
    BY <2>1, ElementOfSeq
<1> DEFINE t == SubSeq(s, m, n)
           size == IF m <= n THEN n - m + 1 ELSE 0
<1>4. t \in Seq(S) /\ Len(t) = size /\ \A i \in 1..(n - m + 1) : t[i] = s[m + i - 1]
  BY <1>2, <1>3, SubSeqProperties
<1>5. size = n - m + 1
  BY <1>2
<1> HIDE DEF t, size
<1>6. /\ t \in Seq(S) /\ Len(t) = n - m + 1
      /\ \A i \in 1..(n - m + 1) : t[i] = s[m + i - 1]
  BY <1>4, <1>5
<1> QED
  BY <1>6 DEF t

\* Where c has what a and then b have.
Glues(c, a, b, n, m, S) ==
  /\ n \in Nat /\ m \in Nat /\ c \in Seq(S) /\ Len(c) = n + m
  /\ \A k \in 1..n : c[k] = a[k]
  /\ \A k \in 1..m : c[n + k] = b[k]

LEMMA Glued ==
  ASSUME NEW S, NEW a \in Seq(S), NEW b \in Seq(S)
  PROVE  Glues(a \o b, a, b, Len(a), Len(b), S)
<1> DEFINE n == Len(a)
           m == Len(b)
           c == a \o b
<1>1. n \in Nat /\ m \in Nat
  BY LenProperties
<1>2. /\ c \in Seq(S) /\ Len(c) = n + m
      /\ \A k \in 1..Len(c) :
           \/ k \in 1..n /\ k <= n /\ c[k] = a[k]
           \/ k > n /\ k - n \in 1..m /\ c[k] = b[k - n]
  BY Joined
<1> HIDE DEF c, n, m
<1>3. \A k \in 1..n : k \in 1..(n + m) /\ ~(k > n)
  BY <1>1
<1>4. \A k \in 1..m : n + k \in 1..(n + m) /\ ~(n + k <= n) /\ (n + k) - n = k
  BY <1>1
<1>5. \A k \in 1..n : c[k] = a[k]
  BY <1>2, <1>3
<1>6. \A k \in 1..m : c[n + k] = b[k]
  BY <1>2, <1>4
<1>7. Glues(c, a, b, n, m, S)
  BY <1>1, <1>2, <1>5, <1>6 DEF Glues
<1> QED
  BY <1>7 DEF c, n, m

\* Lists of one element each.
Single(s) == [i \in DOMAIN s |-> <<s[i]>>]

LEMMA SinglesFlatten ==
  ASSUME NEW S, NEW s \in Seq(S)
  PROVE  Single(s) \in Seq(Seq(S)) /\ Len(Single(s)) = Len(s) /\ FlattenSeq(Single(s)) = s
<1> DEFINE G == {n \in Nat : \A t \in Seq(S) : Len(t) = n => FlattenSeq(Single(t)) = t}
<1>1. ASSUME NEW t \in Seq(S) PROVE Single(t) \in Seq(Seq(S)) /\ Len(Single(t)) = Len(t)
  <2>1. Len(t) \in Nat /\ DOMAIN t = 1..Len(t) /\ \A i \in 1..Len(t) : t[i] \in S
    BY LenProperties, ElementOfSeq
  <2>2. \A x \in S : <<x>> \in Seq(S)
    OBVIOUS
  <2> QED
    BY <2>1, <2>2 DEF Single
<1>2. 0 \in G
  <2>1. ASSUME NEW t \in Seq(S), Len(t) = 0 PROVE FlattenSeq(Single(t)) = t
    <3>1. t = <<>> /\ Single(t) = <<>>
      BY <1>1, <2>1, EmptySeq
    <3> QED
      BY <3>1 DEF FlattenSeq
  <2> QED
    BY <2>1
<1>3. ASSUME NEW n \in Nat, n \in G PROVE n + 1 \in G
  <2>1. ASSUME NEW t \in Seq(S), Len(t) = n + 1 PROVE FlattenSeq(Single(t)) = t
    <3> DEFINE u == SubSeq(t, 1, n)
               x == t[n + 1]
    <3>1. u \in Seq(S) /\ Len(u) = n /\ \A i \in 1..n : u[i] = t[i]
      <4>1. 1 \in 1..(Len(t) + 1) /\ n \in (1 - 1)..Len(t) /\ n - 1 + 1 = n
        BY <2>1
      <4>2. \A i \in 1..n : 1 + i - 1 = i
        OBVIOUS
      <4> QED
        BY <4>1, <4>2, PartOf
    <3>2. x \in S /\ <<x>> \in Seq(S)
      BY <2>1, ElementOfSeq
    <3> HIDE DEF u, x
    <3>3. t = Append(u, x)
      <4>1. /\ Append(u, x) \in Seq(S) /\ Len(Append(u, x)) = n + 1
            /\ Append(u, x)[n + 1] = x /\ \A i \in 1..n : Append(u, x)[i] = u[i]
        BY <3>1, <3>2, AppendProperties
      <4>2. \A i \in 1..(n + 1) : t[i] = Append(u, x)[i]
        <5>1. \A i \in 1..(n + 1) : i \in 1..n \/ i = n + 1
          OBVIOUS
        <5> QED
          BY <3>1, <4>1, <5>1 DEF x
      <4> QED
        BY <2>1, <4>1, <4>2, SamePlaces
    <3>4. Single(t) = Append(Single(u), <<x>>)
      <4>1. /\ Single(u) \in Seq(Seq(S)) /\ Len(Single(u)) = n
            /\ Single(t) \in Seq(Seq(S)) /\ Len(Single(t)) = n + 1
        BY <1>1, <2>1, <3>1
      <4>2. /\ \A i \in 1..n : Single(u)[i] = <<u[i]>>
            /\ \A i \in 1..(n + 1) : Single(t)[i] = <<t[i]>>
        BY <2>1, <3>1, LenProperties DEF Single
      <4>3. /\ Append(Single(u), <<x>>) \in Seq(Seq(S)) /\ Len(Append(Single(u), <<x>>)) = n + 1
            /\ Append(Single(u), <<x>>)[n + 1] = <<x>>
            /\ \A i \in 1..n : Append(Single(u), <<x>>)[i] = Single(u)[i]
        BY <3>2, <4>1, AppendProperties
      <4>4. \A i \in 1..(n + 1) : Single(t)[i] = Append(Single(u), <<x>>)[i]
        <5>1. \A i \in 1..(n + 1) : i \in 1..n \/ i = n + 1
          OBVIOUS
        <5> QED
          BY <3>1, <4>2, <4>3, <5>1 DEF x
      <4> DEFINE Q == Seq(S)
      <4>5. Single(t) \in Seq(Q) /\ Append(Single(u), <<x>>) \in Seq(Q)
        BY <4>1, <4>3
      <4> HIDE DEF Q
      <4> QED
        BY <4>1, <4>3, <4>4, <4>5, SamePlaces
    <3>5. FlattenSeq(Single(u)) = u
      BY <1>3, <3>1
    <3>6. FlattenSeq(Append(Single(u), <<x>>)) = FlattenSeq(Single(u)) \o <<x>>
      BY <1>1, <3>1, <3>2, FlattenAppended
    <3>7. u \o <<x>> = Append(u, x)
      BY <3>1, <3>2
    <3> QED
      BY <3>3, <3>4, <3>5, <3>6, <3>7
  <2> QED
    BY <2>1
<1> HIDE DEF G
<1>4. Nat \subseteq G
  BY <1>2, <1>3, Induction
<1>5. Len(s) \in G
  BY <1>4, LenProperties
<1> QED
  BY <1>1, <1>5 DEF G

\* A type with one (*), which ends at p, and something inside of it.
LEMMA InThePointer ==
  ASSUME NEW S, ")" \in S, NEW r \in Seq(S), NEW p \in 1..Len(r), EndsPointer(r, p),
         \A i \in 1..Len(r) : EndsPointer(r, i) => i = p,
         NEW words \in Seq(S)
  PROVE  /\ SubSeq(r, 1, p - 1) \in Seq(S) /\ SubSeq(r, p + 1, Len(r)) \in Seq(S)
         /\ InPointer(r, words)
              = SubSeq(r, 1, p - 1) \o (words \o (<<")">> \o SubSeq(r, p + 1, Len(r))))
<1> DEFINE n == Len(r)
           front == SubSeq(r, 1, p - 1)
           back == SubSeq(r, p + 1, n)
           x == words \o <<")">>
           A == [i \in DOMAIN r |-> IF EndsPointer(r, i) THEN words \o <<")">> ELSE <<r[i]>>]
           Q == Seq(S)
<1>1. n \in Nat /\ p \in 1..n /\ DOMAIN r = 1..n /\ \A i \in 1..n : r[i] \in S
  BY LenProperties, ElementOfSeq
<1>2. front \in Seq(S) /\ Len(front) = p - 1 /\ \A i \in 1..(p - 1) : front[i] = r[i]
  <2>1. /\ 1 \in 1..(n + 1) /\ p - 1 \in (1 - 1)..n /\ (p - 1) - 1 + 1 = p - 1
        /\ \A i \in 1..(p - 1) : 1 + i - 1 = i
    BY <1>1
  <2> QED
    BY <2>1, PartOf
<1>3. back \in Seq(S) /\ Len(back) = n - p /\ \A i \in 1..(n - p) : back[i] = r[p + i]
  <2>1. /\ p + 1 \in 1..(n + 1) /\ n \in ((p + 1) - 1)..n /\ n - (p + 1) + 1 = n - p
        /\ \A i \in 1..(n - p) : (p + 1) + i - 1 = p + i
    BY <1>1
  <2>2. /\ back \in Seq(S) /\ Len(back) = n - p
        /\ \A i \in 1..(n - p) : back[i] = r[(p + 1) + i - 1]
    <3> DEFINE q == p + 1
    <3>1. q \in 1..(n + 1) /\ n \in (q - 1)..n
      BY <2>1
    <3> HIDE DEF q
    <3>2. /\ SubSeq(r, q, n) \in Seq(S) /\ Len(SubSeq(r, q, n)) = n - q + 1
          /\ \A i \in 1..(n - q + 1) : SubSeq(r, q, n)[i] = r[q + i - 1]
      BY <3>1, PartOf
    <3> QED
      BY <2>1, <3>2 DEF q
  <2> HIDE DEF back
  <2> QED
    BY <2>1, <2>2
<1>4. x \in Seq(S)
  BY ConcatProperties
<1>5. /\ A = [i \in 1..n |-> IF i = p THEN x ELSE <<r[i]>>]
      /\ \A i \in 1..n : <<r[i]>> \in Seq(S)
  BY <1>1
<1> HIDE DEF n, front, back, x, A
<1>6. A \in Seq(Q) /\ Len(A) = n /\ A[p] = x /\ \A i \in 1..n : i # p => A[i] = <<r[i]>>
  BY <1>1, <1>4, <1>5
<1>7. /\ Single(front) \in Seq(Q) /\ Len(Single(front)) = p - 1
      /\ \A i \in 1..(p - 1) : Single(front)[i] = <<r[i]>>
  <2>1. Single(front) \in Seq(Seq(S)) /\ Len(Single(front)) = p - 1 /\ DOMAIN front = 1..(p - 1)
    BY <1>2, SinglesFlatten, LenProperties
  <2>2. \A i \in 1..(p - 1) : Single(front)[i] = <<r[i]>>
    BY <1>2, <2>1 DEF Single
  <2> QED
    BY <2>1, <2>2
<1>8. /\ Single(back) \in Seq(Q) /\ Len(Single(back)) = n - p
      /\ \A i \in 1..(n - p) : Single(back)[i] = <<r[p + i]>>
  <2>1. Single(back) \in Seq(Seq(S)) /\ Len(Single(back)) = n - p /\ DOMAIN back = 1..(n - p)
    BY <1>3, SinglesFlatten, LenProperties
  <2>2. \A i \in 1..(n - p) : Single(back)[i] = <<r[p + i]>>
    BY <1>3, <2>1 DEF Single
  <2> QED
    BY <2>1, <2>2
<1> DEFINE h == Append(Single(front), x)
<1>9. /\ h \in Seq(Q) /\ Len(h) = p /\ h[p] = x
      /\ \A i \in 1..(p - 1) : h[i] = <<r[i]>>
  <2>1. x \in Q /\ p - 1 + 1 = p
    BY <1>1, <1>4
  <2> HIDE DEF Q
  <2> QED
    BY <1>7, <2>1, AppendProperties
<1>10. A = h \o Single(back)
  <2> HIDE DEF h, Q
  <2> DEFINE c == h \o Single(back)
  <2>1. /\ c \in Seq(Q) /\ Len(c) = p + (n - p)
        /\ \A k \in 1..p : c[k] = h[k]
        /\ \A k \in 1..(n - p) : c[p + k] = Single(back)[k]
    <3>1. Glues(c, h, Single(back), Len(h), Len(Single(back)), Q)
      BY <1>8, <1>9, Glued, Zenon
    <3> QED
      BY <1>8, <1>9, <3>1 DEF Glues
  <2> HIDE DEF c
  <2>2. Len(c) = n
    BY <1>1, <1>8, <1>9, <2>1
  <2>3. ASSUME NEW k \in 1..n PROVE A[k] = c[k]
    <3>1. CASE k < p
      <4>1. k \in 1..(p - 1) /\ k \in 1..p /\ k # p
        BY <1>1, <3>1
      <4> QED
        BY <1>6, <1>9, <2>1, <4>1
    <3>2. CASE k = p
      <4>1. k \in 1..p
        BY <1>1, <3>2
      <4> QED
        BY <1>6, <1>9, <2>1, <3>2, <4>1
    <3>3. CASE k > p
      <4>1. k - p \in 1..(n - p) /\ p + (k - p) = k /\ k # p
        BY <1>1, <3>3
      <4>2. c[k] = Single(back)[k - p]
        BY <2>1, <4>1
      <4> QED
        BY <1>6, <1>8, <4>1, <4>2
    <3> QED
      BY <1>1, <3>1, <3>2, <3>3
  <2>4. A = c
    BY <1>6, <2>1, <2>2, <2>3, SamePlaces
  <2> QED
    BY <2>4 DEF c
<1>11. FlattenSeq(h) = front \o x
  BY <1>2, <1>4, <1>7, SinglesFlatten, FlattenAppended
<1>12. FlattenSeq(A) = (front \o x) \o back
  <2>1. FlattenSeq(h \o Single(back)) = FlattenSeq(h) \o FlattenSeq(Single(back))
    BY <1>8, <1>9, FlattenJoined
  <2>2. FlattenSeq(Single(back)) = back
    BY <1>3, SinglesFlatten
  <2> QED
    BY <1>10, <1>11, <2>1, <2>2
<1>13. (front \o x) \o back = front \o (words \o (<<")">> \o back))
  <2> DEFINE close == <<")">>
             after == close \o back
  <2>0. x = words \o close
    BY DEF x
  <2>1. front \in Seq(S) /\ x \in Seq(S) /\ back \in Seq(S)
    BY <1>2, <1>3, <1>4
  <2>2. words \in Seq(S) /\ close \in Seq(S) /\ back \in Seq(S)
    BY <1>3
  <2> HIDE DEF close
  <2>3. Regroups(front, x, back) /\ Regroups(words, close, back)
    BY <2>1, <2>2, Regrouped
  <2>4. (front \o x) \o back = front \o (x \o back)
    BY <2>3, Zenon DEF Regroups
  <2>5. (words \o close) \o back = words \o after
    BY <2>3, Zenon DEF Regroups
  <2>6. x \o back = words \o after
    BY <2>0, <2>5
  <2> HIDE DEF after
  <2>7. (front \o x) \o back = front \o (words \o after)
    BY <2>4, <2>6
  <2> QED
    BY <2>7 DEF close, after
<1>14. InPointer(r, words) = FlattenSeq(A)
  BY DEF InPointer, A
<1> QED
  BY <1>2, <1>3, <1>12, <1>13, <1>14 DEF front, back, n

\* What the typedef of a pointer says of a function of the name.
LEMMA PointedIs ==
  ASSUME NEW S, {"typedef", "(", "*", ")"} \subseteq S, NEW name, name \in S,
         TypeOf(name) \in S \ {"typedef", "(", "*"},
         NEW b \in Seq(S), \A i \in 1..Len(b) : b[i] # TypeOf(name), NEW e \in Seq(S)
  PROVE  Pointed(<<"typedef">> \o (b \o (<<"(", "*", TypeOf(name), ")">> \o e)), name)
           = (b \o <<name>>) \o e
<1> DEFINE T == TypeOf(name)
           d == <<"(", "*", T, ")">>
           de == d \o e
           bde == b \o de
           words == <<"typedef">> \o bde
           n == Len(b)
           m == Len(e)
<1>0. n \in Nat /\ m \in Nat /\ T \in S /\ T # "typedef" /\ T # "(" /\ T # "*"
  BY LenProperties
<1> HIDE DEF T
<1>1. d \in Seq(S) /\ Len(d) = 4 /\ d[1] = "(" /\ d[2] = "*" /\ d[3] = T /\ d[4] = ")"
  BY <1>0
<1>2. <<"typedef">> \in Seq(S) /\ Len(<<"typedef">>) = 1 /\ <<"typedef">>[1] = "typedef"
  OBVIOUS
<1> HIDE DEF d, n, m
<1>3. /\ de \in Seq(S) /\ Len(de) = 4 + m
      /\ \A k \in 1..4 : de[k] = d[k]
      /\ \A k \in 1..m : de[4 + k] = e[k]
  <2>1. Glues(de, d, e, Len(d), Len(e), S)
    BY <1>1, Glued, Zenon
  <2> QED
    BY <1>1, <2>1 DEF Glues, m
<1> HIDE DEF de
<1>4. /\ bde \in Seq(S) /\ Len(bde) = n + (4 + m)
      /\ \A k \in 1..n : bde[k] = b[k]
      /\ \A k \in 1..(4 + m) : bde[n + k] = de[k]
  <2>1. Glues(bde, b, de, Len(b), Len(de), S)
    BY <1>3, Glued, Zenon
  <2> QED
    BY <1>3, <2>1 DEF Glues, n
<1> HIDE DEF bde
<1>5. /\ words \in Seq(S) /\ Len(words) = n + m + 5 /\ words[1] = "typedef"
      /\ \A k \in 1..(n + (4 + m)) : words[1 + k] = bde[k]
  <2>1. /\ words \in Seq(S) /\ Len(words) = 1 + (n + (4 + m))
        /\ \A k \in 1..1 : words[k] = <<"typedef">>[k]
        /\ \A k \in 1..(n + (4 + m)) : words[1 + k] = bde[k]
    <3>1. Glues(words, <<"typedef">>, bde, Len(<<"typedef">>), Len(bde), S)
      BY <1>2, <1>4, Glued, Zenon
    <3> HIDE DEF words
    <3> QED
      BY <1>2, <1>4, <3>1 DEF Glues
  <2>2. 1 \in 1..1
    OBVIOUS
  <2> HIDE DEF words
  <2> QED
    BY <1>0, <1>2, <2>1, <2>2
<1> HIDE DEF words
<1>6. \A k \in 1..n : words[1 + k] = b[k]
  <2>1. \A k \in 1..n : k \in 1..(n + (4 + m))
    BY <1>0
  <2> QED
    BY <1>4, <1>5, <2>1
<1>7. \A k \in 1..4 : words[n + 1 + k] = d[k]
  <2>1. ASSUME NEW k \in 1..4 PROVE words[n + 1 + k] = d[k]
    <3>1. n + k \in 1..(n + (4 + m)) /\ k \in 1..(4 + m) /\ 1 + (n + k) = n + 1 + k
      BY <1>0
    <3>2. words[1 + (n + k)] = bde[n + k]
      BY <1>5, <3>1
    <3>3. bde[n + k] = de[k] /\ de[k] = d[k]
      BY <1>3, <1>4, <3>1
    <3> QED
      BY <3>1, <3>2, <3>3
  <2> QED
    BY <2>1
<1>8. \A k \in 1..m : words[n + 5 + k] = e[k]
  <2>1. ASSUME NEW k \in 1..m PROVE words[n + 5 + k] = e[k]
    <3>1. /\ n + (4 + k) \in 1..(n + (4 + m)) /\ 4 + k \in 1..(4 + m)
          /\ 1 + (n + (4 + k)) = n + 5 + k
      BY <1>0
    <3>2. words[1 + (n + (4 + k))] = bde[n + (4 + k)]
      BY <1>5, <3>1
    <3>3. bde[n + (4 + k)] = de[4 + k] /\ de[4 + k] = e[k]
      BY <1>3, <1>4, <3>1
    <3> QED
      BY <3>1, <3>2, <3>3
  <2> QED
    BY <2>1
<1> DEFINE I == {k \in 1..Len(words) : words[k] = T}
<1>9. n + 4 \in I
  <2>1. n + 4 \in 1..Len(words) /\ n + 1 + 3 = n + 4 /\ 3 \in 1..4
    BY <1>0, <1>5
  <2>2. words[n + 4] = T
    BY <1>1, <1>7, <2>1
  <2> QED
    BY <2>1, <2>2
<1>10. ASSUME NEW k \in I PROVE n + 4 <= k
  <2>1. k \in Nat /\ k >= 1 /\ words[k] = T
    BY <1>5
  <2>2. k # 1
    BY <1>0, <1>5, <2>1
  <2>3. ASSUME k <= n + 1 PROVE FALSE
    <3>1. k - 1 \in 1..n /\ 1 + (k - 1) = k
      BY <1>0, <2>1, <2>2, <2>3
    <3>2. b[k - 1] = T
      BY <1>6, <2>1, <3>1
    <3> QED
      BY <3>1, <3>2 DEF T, n
  <2>4. k # n + 2
    <3>1. n + 1 + 1 = n + 2 /\ 1 \in 1..4
      BY <1>0
    <3> QED
      BY <1>0, <1>1, <1>7, <2>1, <3>1
  <2>5. k # n + 3
    <3>1. n + 1 + 2 = n + 3 /\ 2 \in 1..4
      BY <1>0
    <3> QED
      BY <1>0, <1>1, <1>7, <2>1, <3>1
  <2> QED
    BY <1>0, <2>1, <2>3, <2>4, <2>5
<1>11. Min(I) = n + 4
  <2>1. I \subseteq Nat
    OBVIOUS
  <2> HIDE DEF I
  <2>2. Min(I) \in I /\ \A y \in I : Min(I) <= y
    BY <1>9, <1>10 DEF Min
  <2>3. Min(I) <= n + 4 /\ n + 4 <= Min(I) /\ Min(I) \in Nat
    BY <1>9, <1>10, <2>1, <2>2
  <2> QED
    BY <1>0, <2>3
<1>12. SelectInSeq(words, LAMBDA w : w = T) = n + 4
  BY <1>9, <1>11 DEF SelectInSeq
<1>13. SubSeq(words, 2, n + 1) = b
  <2>1. /\ 2 \in 1..(Len(words) + 1) /\ n + 1 \in (2 - 1)..Len(words) /\ (n + 1) - 2 + 1 = n
    BY <1>0, <1>5
  <2>2. /\ SubSeq(words, 2, n + 1) \in Seq(S) /\ Len(SubSeq(words, 2, n + 1)) = n
        /\ \A i \in 1..n : SubSeq(words, 2, n + 1)[i] = words[2 + i - 1]
    BY <1>5, <2>1, PartOf
  <2>3. \A i \in 1..n : 2 + i - 1 = 1 + i
    BY <1>0
  <2>4. \A i \in 1..n : SubSeq(words, 2, n + 1)[i] = b[i]
    BY <1>6, <2>2, <2>3
  <2> QED
    BY <2>2, <2>4, SamePlaces DEF n
<1>14. SubSeq(words, n + 6, Len(words)) = e
  <2> DEFINE q == n + 6
             t == SubSeq(words, q, Len(words))
  <2>1. /\ q \in 1..(Len(words) + 1) /\ Len(words) \in (q - 1)..Len(words)
        /\ Len(words) - q + 1 = m
    BY <1>0, <1>5
  <2>2. \A i \in 1..m : q + i - 1 = n + 5 + i
    BY <1>0
  <2> HIDE DEF q
  <2>3. /\ t \in Seq(S) /\ Len(t) = m /\ \A i \in 1..m : t[i] = words[q + i - 1]
    BY <1>5, <2>1, PartOf
  <2> HIDE DEF t
  <2>4. \A i \in 1..m : t[i] = e[i]
    BY <1>8, <2>2, <2>3
  <2>5. t = e
    BY <2>3, <2>4, SamePlaces DEF m
  <2> QED
    BY <2>5 DEF t, q
<1>15. (n + 4) - 3 = n + 1 /\ (n + 4) + 2 = n + 6
  BY <1>0
<1>16. Pointed(words, name) = (b \o <<name>>) \o e
  BY <1>12, <1>13, <1>14, <1>15 DEF Pointed, T
<1> QED
  BY <1>16 DEF words, bde, de, d, T

\* The words of the code of one function.
CodeWords(f) ==
  STRING \cup {"typedef", "(", "*", ")", ",", "[", "unsigned", "int", f.name, TypeOf(f.name)}

LEMMA WiderSequence ==
  ASSUME NEW S, NEW T, S \subseteq T, NEW s \in Seq(S)
  PROVE  s \in Seq(T)
OBVIOUS

LEMMA JoinedTyped ==
  ASSUME NEW S, NEW s \in Seq(S), NEW t \in Seq(S)
  PROVE  s \o t \in Seq(S)
BY ConcatProperties

LEMMA OneWord ==
  ASSUME NEW S, NEW x \in S
  PROVE  <<x>> \in Seq(S) /\ <<>> \in Seq(S)
OBVIOUS

LEMMA InPointerTyped ==
  ASSUME NEW S, ")" \in S, NEW type \in Seq(S), NEW words \in Seq(S)
  PROVE  InPointer(type, words) \in Seq(S)
<1> DEFINE A == [i \in DOMAIN type |-> IF EndsPointer(type, i) THEN words \o <<")">> ELSE <<type[i]>>]
           closed == words \o <<")">>
           Q == Seq(S)
<1>1. Len(type) \in Nat /\ DOMAIN type = 1..Len(type) /\ \A i \in 1..Len(type) : type[i] \in S
  BY LenProperties, ElementOfSeq
<1>2. closed \in Q /\ \A i \in 1..Len(type) : <<type[i]>> \in Q
  BY <1>1, ConcatProperties
<1> HIDE DEF Q
<1>3. A = [i \in 1..Len(type) |-> IF EndsPointer(type, i) THEN closed ELSE <<type[i]>>]
  BY <1>1
<1> HIDE DEF closed, A
<1>4. A \in Seq(Q)
  BY <1>1, <1>2, <1>3
<1>5. FlattenSeq(A) \in Seq(S)
  BY <1>4, FlattenPlaces DEF Q
<1> QED
  BY <1>5 DEF InPointer, A

LEMMA ParameterTyped ==
  ASSUME NEW S, STRING \subseteq S, {")", "[", "unsigned", "int"} \subseteq S,
         NEW arg \in [name : Seq(STRING), type : Seq(STRING)], NEW wide
  PROVE  Parameter(arg, wide) \in Seq(S)
<1>1. arg.name \in Seq(S) /\ arg.type \in Seq(S)
  <2>1. arg.name \in Seq(STRING) /\ arg.type \in Seq(STRING)
    OBVIOUS
  <2> QED
    BY <2>1, WiderSequence
<1> DEFINE named == arg.name
           type == arg.type
           A == [i \in DOMAIN type |-> IF type[i] = "[" THEN named \o <<"[">> ELSE <<type[i]>>]
           opened == named \o <<"[">>
           Q == Seq(S)
<1>2. Len(type) \in Nat /\ DOMAIN type = 1..Len(type) /\ \A i \in 1..Len(type) : type[i] \in S
  BY <1>1, LenProperties, ElementOfSeq
<1>3. /\ <<"unsigned", "int">> \o named \in Seq(S) /\ type \o named \in Seq(S)
      /\ opened \in Q /\ \A i \in 1..Len(type) : <<type[i]>> \in Q
  <2>1. <<"unsigned", "int">> \in Seq(S) /\ <<"[">> \in Seq(S)
    OBVIOUS
  <2>2. <<"unsigned", "int">> \o named \in Seq(S)
    BY <1>1, <2>1, JoinedTyped
  <2>3. type \o named \in Seq(S)
    BY <1>1, JoinedTyped
  <2>4. opened \in Seq(S)
    BY <1>1, <2>1, JoinedTyped
  <2>5. \A i \in 1..Len(type) : <<type[i]>> \in Seq(S)
    BY <1>2
  <2> QED
    BY <2>2, <2>3, <2>4, <2>5
<1>4. InPointer(type, named) \in Seq(S)
  BY <1>1, InPointerTyped
<1>5. A = [i \in 1..Len(type) |-> IF type[i] = "[" THEN opened ELSE <<type[i]>>]
  BY <1>2
<1>6. FlattenSeq(A) \in Seq(S)
  <2> HIDE DEF Q, opened, A, type, named
  <2>1. A \in Seq(Q)
    BY <1>2, <1>3, <1>5
  <2> QED
    BY <2>1, FlattenPlaces DEF Q
<1>7. \/ Parameter(arg, wide) = <<"unsigned", "int">> \o named
      \/ Parameter(arg, wide) = InPointer(type, named)
      \/ Parameter(arg, wide) = FlattenSeq(A)
      \/ Parameter(arg, wide) = type \o named
  <2> HIDE DEF A
  <2>1. A = [i \in DOMAIN arg.type |->
               IF arg.type[i] = "[" THEN arg.name \o <<"[">> ELSE <<arg.type[i]>>]
    BY DEF A
  <2> QED
    BY <2>1, Zenon DEF Parameter
<1> QED
  BY <1>3, <1>4, <1>6, <1>7

LEMMA ArgumentListTyped ==
  ASSUME NEW f, IsPlain(f), NEW wide
  PROVE  ArgumentList(f, wide) \in Seq(CodeWords(f))
<1> DEFINE S == CodeWords(f)
           n == Len(f.arguments)
           P(i) == Parameter(f.arguments[i], wide)
           A == [i \in DOMAIN f.arguments |->
                  P(i) \o IF i = Len(f.arguments) \/ IsArray(f.arguments[i]) THEN <<>> ELSE <<",">>]
<1>1. /\ STRING \subseteq S /\ {")", "[", "unsigned", "int"} \subseteq S
      /\ "(" \in S /\ ")" \in S /\ "," \in S
  BY DEF CodeWords
<1> HIDE DEF S
<1>2. /\ n \in Nat /\ DOMAIN f.arguments = 1..n
      /\ \A i \in 1..n : f.arguments[i] \in [name : Seq(STRING), type : Seq(STRING)]
  <2> DEFINE R == [name : Seq(STRING), type : Seq(STRING)]
  <2>1. f.arguments \in Seq(R)
    BY DEF IsPlain
  <2> HIDE DEF R
  <2>2. /\ n \in Nat /\ DOMAIN f.arguments = 1..n
        /\ \A i \in 1..n : f.arguments[i] \in R
    BY <2>1, LenProperties, ElementOfSeq
  <2> QED
    BY <2>2 DEF R
<1>3. \A i \in 1..n : P(i) \in Seq(S)
  BY <1>1, <1>2, ParameterTyped
<1>4. \A i \in 1..n : A[i] \in Seq(S)
  <2> TAKE i \in 1..n
  <2> DEFINE more == IF i = Len(f.arguments) \/ IsArray(f.arguments[i]) THEN <<>> ELSE <<",">>
  <2>1. more \in Seq(S)
    BY <1>1, OneWord
  <2> HIDE DEF more
  <2>2. P(i) \o more \in Seq(S)
    BY <1>3, <2>1, JoinedTyped
  <2>3. A[i] = P(i) \o more
    BY <1>2 DEF more
  <2> QED
    BY <2>2, <2>3
<1>5. A = [i \in 1..n |-> A[i]]
  BY <1>2
<1>6. Parameters(f, wide) = FlattenSeq(A)
  BY DEF Parameters
<1> DEFINE Q == Seq(S)
<1> HIDE DEF A, n
<1>7. A \in Seq(Q)
  <2>1. \A i \in 1..n : A[i] \in Q
    BY <1>4
  <2> HIDE DEF Q
  <2> QED
    BY <1>2, <1>5, <2>1
<1>8. FlattenSeq(A) \in Seq(S)
  BY <1>7, FlattenPlaces
<1>9. <<"(">> \in Seq(S) /\ <<")">> \in Seq(S)
  BY <1>1, OneWord
<1> DEFINE parameters == Parameters(f, wide)
           opening == <<"(">> \o parameters
<1>10. opening \in Seq(S)
  BY <1>6, <1>8, <1>9, JoinedTyped
<1>11. ArgumentList(f, wide) = opening \o <<")">>
  BY DEF ArgumentList
<1> HIDE DEF opening
<1>12. opening \o <<")">> \in Seq(S)
  BY <1>9, <1>10, JoinedTyped
<1> QED
  BY <1>11, <1>12 DEF S

\* A typedef for a function stands for its declaration.
LEMMA TypedefIs ==
  ASSUME NEW f, IsPlain(f), NEW wide
  PROVE  Pointed(FunctionTypedef(f, wide), f.name) = FunctionDeclaration(f, wide)
<1> DEFINE S == CodeWords(f)
           r == f.returns
           T == TypeOf(f.name)
           list == ArgumentList(f, wide)
           star == <<"(", "*", T, ")">>
           named == <<f.name>>
<1>1. /\ {"typedef", "(", "*", ")"} \subseteq S /\ ")" \in S /\ f.name \in S
      /\ T \in S \ {"typedef", "(", "*"} /\ "(" \in S /\ "*" \in S /\ T \in S
  BY DEF CodeWords, IsPlain
<1>2. r \in Seq(S) /\ list \in Seq(S)
  <2>1. STRING \subseteq S /\ r \in Seq(STRING)
    BY DEF CodeWords, IsPlain
  <2> HIDE DEF S, r, list
  <2>2. r \in Seq(S)
    BY <2>1, WiderSequence
  <2>3. list \in Seq(S)
    BY ArgumentListTyped DEF list, S
  <2> QED
    BY <2>2, <2>3
<1>3. \A i \in DOMAIN r : r[i] # T
  BY DEF IsPlain, ToSet
<1> HIDE DEF S
<1>4. star \in Seq(S) /\ named \in Seq(S)
  <2> HIDE DEF T
  <2>1. named \in Seq(S)
    BY <1>1, OneWord
  <2>2. star \in Seq(S)
    BY <1>1
  <2> QED
    BY <2>1, <2>2
<1>5. Len(r) \in Nat /\ DOMAIN r = 1..Len(r)
  BY <1>2, LenProperties
<1>6. FunctionTypedef(f, wide) = <<"typedef">> \o Declaring(f, star, wide)
  BY DEF FunctionTypedef
<1>7. FunctionDeclaration(f, wide) = Declaring(f, named, wide)
  BY DEF FunctionDeclaration
<1>8. CASE ~HasPointer(r)
  <2>1. Declaring(f, star, wide) = (r \o star) \o list /\ Declaring(f, named, wide) = (r \o named) \o list
    BY <1>8 DEF Declaring
  <2>2. \A i \in 1..Len(r) : r[i] # T
    BY <1>3, <1>5
  <2>3. Pointed(<<"typedef">> \o (r \o (star \o list)), f.name) = (r \o named) \o list
    <3> HIDE DEF r, list
    <3> QED
      BY <1>1, <1>2, <2>2, PointedIs
  <2> HIDE DEF r, star, list, named, T
  <2>4. Regroups(r, star, list)
    BY <1>2, <1>4, Regrouped
  <2>5. (r \o star) \o list = r \o (star \o list)
    BY <2>4, Zenon DEF Regroups
  <2> QED
    BY <1>6, <1>7, <2>1, <2>3, <2>5
<1>9. CASE HasPointer(r)
  <2>1. PICK p \in DOMAIN r : EndsPointer(r, p)
    BY <1>9 DEF HasPointer
  <2>2. p \in 1..Len(r) /\ \A i \in 1..Len(r) : EndsPointer(r, i) => i = p
    BY <1>5, <2>1 DEF IsPlain
  <2> DEFINE front == SubSeq(r, 1, p - 1)
             back == SubSeq(r, p + 1, Len(r))
             close == <<")">>
             tail == close \o back
             rest == list \o tail
             starred == star \o list
             plain == named \o list
  <2>3. Declaring(f, star, wide) = InPointer(r, starred) /\ Declaring(f, named, wide) = InPointer(r, plain)
    BY <1>9 DEF Declaring
  <2>4. \A i \in 1..(p - 1) : front[i] # T
    <3>1. /\ p \in Nat /\ 1 \in 1..(Len(r) + 1) /\ p - 1 \in (1 - 1)..Len(r) /\ (p - 1) - 1 + 1 = p - 1
          /\ \A i \in 1..(p - 1) : 1 + i - 1 = i /\ i \in 1..Len(r)
      BY <1>5, <2>2
    <3> HIDE DEF r, T
    <3>2. \A i \in 1..(p - 1) : front[i] = r[i]
      BY <1>2, <3>1, PartOf
    <3> QED
      BY <1>3, <1>5, <3>1, <3>2
  <2>5. front \in Seq(S) /\ Len(front) = p - 1 /\ back \in Seq(S)
    <3>1. /\ p \in Nat /\ 1 \in 1..(Len(r) + 1) /\ p - 1 \in (1 - 1)..Len(r) /\ (p - 1) - 1 + 1 = p - 1
      BY <1>5, <2>2
    <3> DEFINE q == p + 1
    <3>2. q \in 1..(Len(r) + 1) /\ Len(r) \in (q - 1)..Len(r)
      BY <1>5, <2>2
    <3> HIDE DEF r, q
    <3>3. front \in Seq(S) /\ Len(front) = p - 1
      BY <1>2, <3>1, PartOf
    <3>4. SubSeq(r, q, Len(r)) \in Seq(S)
      BY <1>2, <3>2, PartOf
    <3> QED
      BY <3>3, <3>4 DEF q
  <2> HIDE DEF r, T, list, star, named
  <2>6. starred \in Seq(S) /\ plain \in Seq(S)
    BY <1>2, <1>4, JoinedTyped
  <2> HIDE DEF starred, plain
  <2>7. InPointer(r, starred) = front \o (starred \o tail) /\ InPointer(r, plain) = front \o (plain \o tail)
    BY <1>1, <1>2, <2>1, <2>2, <2>6, InThePointer
  <2>8. close \in Seq(S)
    BY <1>1, OneWord
  <2> HIDE DEF front, back, close
  <2>9. tail \in Seq(S)
    BY <2>5, <2>8, JoinedTyped
  <2> HIDE DEF tail
  <2>10. starred \o tail = star \o rest /\ plain \o tail = named \o rest
    <3>1. Regroups(star, list, tail) /\ Regroups(named, list, tail)
      BY <1>2, <1>4, <2>9, Regrouped
    <3>2. (star \o list) \o tail = star \o (list \o tail)
      BY <3>1, Zenon DEF Regroups
    <3>3. (named \o list) \o tail = named \o (list \o tail)
      BY <3>1, Zenon DEF Regroups
    <3> QED
      BY <3>2, <3>3 DEF starred, plain
  <2>11. rest \in Seq(S)
    BY <1>2, <2>9, JoinedTyped
  <2> HIDE DEF rest
  <2>12. (front \o named) \o rest = front \o (named \o rest)
    <3>1. Regroups(front, named, rest)
      BY <1>4, <2>5, <2>11, Regrouped
    <3> QED
      BY <3>1, Zenon DEF Regroups
  <2>13. Pointed(<<"typedef">> \o (front \o (star \o rest)), f.name) = (front \o named) \o rest
    <3>1. \A i \in 1..Len(front) : front[i] # TypeOf(f.name)
      BY <2>4, <2>5 DEF T
    <3>2. TypeOf(f.name) \in S \ {"typedef", "(", "*"}
      BY <1>1 DEF T
    <3>3. Pointed(<<"typedef">> \o (front \o (<<"(", "*", TypeOf(f.name), ")">> \o rest)), f.name)
            = (front \o <<f.name>>) \o rest
      BY <1>1, <2>5, <2>11, <3>1, <3>2, PointedIs
    <3> QED
      BY <3>3 DEF star, named, T
  <2> QED
    BY <1>6, <1>7, <2>3, <2>7, <2>10, <2>12, <2>13
<1> QED
  BY <1>8, <1>9

-----------------------------------------------------------------------------
(* What the two files of a module have is made of its functions.           *)

StructuresRight(h, module, edition) ==
  \A t \in ToSet(h.structure) :
    \E f \in FunctionsIn(module, edition) : t = Structure(f, module)
WrappersRight(s, module, edition) ==
  \A w \in ToSet(s.wrappers) : \E f \in FunctionsIn(module, edition) : w = Wrapper(f)

\* What a list has is somewhere in the lists that it was made of.
ListedIn(list, A, K, n) ==
  \A x \in ToSet(list) : \E i \in 1..n : \E j \in DOMAIN K[i] : x = A[i][j]

LEMMA ListHas ==
  ASSUME NEW n \in Nat, NEW K, \A i \in 1..n : IsSequence(K[i]), NEW A,
         A = [i \in 1..n |-> A[i]], \A i \in 1..n : A[i] = [j \in DOMAIN K[i] |-> A[i][j]]
  PROVE  ListedIn(FlattenSeq(A), A, K, n)
<1> DEFINE L == [i \in 1..n |-> Len(K[i])]
<1>1. \A i \in 1..n : L[i] \in Nat /\ DOMAIN K[i] = 1..L[i]
  BY IsSequenceHas
<1> HIDE DEF L
<1>2. Shaped(A, n, L)
  BY <1>1 DEF Shaped
<1>3. PICK m \in Nat : InStep(FlattenSeq(A), FlattenSeq(A), A, A, n, L, m)
  BY <1>1, <1>2, ListsTogether
<1> DEFINE list == FlattenSeq(A)
<1>4. /\ DOMAIN list = 1..m
      /\ \A k \in 1..m : \E i \in 1..n : \E j \in 1..L[i] : list[k] = A[i][j]
  BY <1>3 DEF InStep
<1> HIDE DEF list
<1>5. ASSUME NEW x \in ToSet(list) PROVE \E i \in 1..n : \E j \in DOMAIN K[i] : x = A[i][j]
  <2>1. PICK k \in 1..m : x = list[k]
    BY <1>4 DEF ToSet
  <2> QED
    BY <1>1, <1>4, <2>1
<1> QED
  BY <1>5 DEF ListedIn, list

\* Every header of the module could be parsed.
Parsable(module, edition) == \A i \in DOMAIN module.headers : edition[module.headers[i]] # REFUSED

LEMMA FunctionIn ==
  ASSUME NEW module, NEW edition, Parsable(module, edition),
         NEW i \in DOMAIN module.headers, NEW f \in ToSet(edition[module.headers[i]])
  PROVE  f \in FunctionsIn(module, edition)
<1>1. module.headers[i] \in ToSet(module.headers) /\ edition[module.headers[i]] # REFUSED
  BY DEF ToSet, Parsable
<1> QED
  BY <1>1 DEF FunctionsIn

LEMMA HeaderTextRight ==
  ASSUME NEW module, NEW edition, NEW dict, Matches(dict, module, edition),
         Parsable(module, edition)
  PROVE  StructuresRight(HeaderText(module, dict), module, edition)
<1> DEFINE n == Len(module.headers)
           V == [i \in DOMAIN dict |-> dict[i].value]
           A == [i \in DOMAIN dict |->
                  [j \in DOMAIN dict[i].value |-> Structure(dict[i].value[j], module)]]
<1>1. /\ n \in Nat /\ DOMAIN module.headers = 1..n /\ DOMAIN dict = 1..n
      /\ \A i \in 1..n : V[i] = edition[module.headers[i]] /\ IsSequence(V[i])
  BY IsSequenceHas DEF Matches, Readable
<1>2. HeaderText(module, dict).structure = FlattenSeq(A)
  BY DEF HeaderText, AllOf
<1>3. /\ A = [i \in 1..n |-> A[i]]
      /\ \A i \in 1..n : A[i] = [j \in DOMAIN V[i] |-> A[i][j]]
      /\ \A i \in 1..n : \A j \in DOMAIN V[i] : A[i][j] = Structure(V[i][j], module)
  BY <1>1
<1> HIDE DEF A, V, n
<1>4. ASSUME NEW t \in ToSet(FlattenSeq(A))
      PROVE  \E f \in FunctionsIn(module, edition) : t = Structure(f, module)
  <2>1. PICK i \in 1..n : \E j \in DOMAIN V[i] : t = A[i][j]
    <3>1. ListedIn(FlattenSeq(A), A, V, n)
      BY <1>1, <1>3, ListHas
    <3> QED
      BY <1>4, <3>1 DEF ListedIn
  <2>2. PICK j \in DOMAIN V[i] : t = A[i][j]
    BY <2>1
  <2>3. t = Structure(V[i][j], module)
    BY <1>3, <2>2
  <2>4. V[i][j] \in ToSet(edition[module.headers[i]])
    BY <1>1 DEF ToSet
  <2>5. V[i][j] \in FunctionsIn(module, edition)
    BY <1>1, <2>4, FunctionIn
  <2> QED
    BY <2>3, <2>5
<1> QED
  BY <1>2, <1>4 DEF StructuresRight

LEMMA SourceTextRight ==
  ASSUME NEW module, NEW edition, NEW dict, Matches(dict, module, edition),
         Parsable(module, edition)
  PROVE  WrappersRight(SourceText(module, dict), module, edition)
<1> DEFINE n == Len(module.headers)
           K == [i \in DOMAIN dict |->
                  Keep(dict[i].value, {f \in ToSet(dict[i].value) : ~HasVarargs(f)})]
           A == [i \in DOMAIN dict |-> [j \in DOMAIN K[i] |-> Wrapper(K[i][j])]]
<1>1. /\ n \in Nat /\ DOMAIN module.headers = 1..n /\ DOMAIN dict = 1..n
      /\ \A i \in 1..n :
           dict[i].value = edition[module.headers[i]] /\ IsSequence(dict[i].value)
  BY IsSequenceHas DEF Matches, Readable
<1>2. SourceText(module, dict).wrappers = FlattenSeq(A)
  <2>1. DOMAIN Only(LAMBDA f : ~HasVarargs(f), dict) = DOMAIN dict
    BY DEF Only
  <2>2. \A i \in DOMAIN dict : Only(LAMBDA f : ~HasVarargs(f), dict)[i].value = K[i]
    BY DEF Only, Matches
  <2> QED
    BY <2>1, <2>2 DEF SourceText, AllOf
<1>3. \A i \in 1..n : IsSequence(K[i]) /\ ToSet(K[i]) \subseteq ToSet(edition[module.headers[i]])
  BY <1>1, KeepHas
<1> HIDE DEF K
<1>4. /\ A = [i \in 1..n |-> A[i]]
      /\ \A i \in 1..n : A[i] = [j \in DOMAIN K[i] |-> A[i][j]]
      /\ \A i \in 1..n : \A j \in DOMAIN K[i] : A[i][j] = Wrapper(K[i][j])
  BY <1>1
<1> HIDE DEF A, n
<1>5. ASSUME NEW w \in ToSet(FlattenSeq(A))
      PROVE  \E f \in FunctionsIn(module, edition) : w = Wrapper(f)
  <2>1. PICK i \in 1..n : \E j \in DOMAIN K[i] : w = A[i][j]
    <3>1. ListedIn(FlattenSeq(A), A, K, n)
      BY <1>1, <1>3, <1>4, ListHas
    <3> QED
      BY <1>5, <3>1 DEF ListedIn
  <2>2. PICK j \in DOMAIN K[i] : w = A[i][j]
    BY <2>1
  <2>3. w = Wrapper(K[i][j])
    BY <1>4, <2>2
  <2>4. K[i][j] \in ToSet(edition[module.headers[i]])
    BY <1>3 DEF ToSet
  <2>5. K[i][j] \in FunctionsIn(module, edition)
    BY <1>1, <2>4, FunctionIn
  <2> QED
    BY <2>3, <2>5
<1> QED
  BY <1>2, <1>5 DEF WrappersRight

\* Where functions are declared plainly, what is written of them goes together.
LEMMA TextsGoTogether ==
  ASSUME NEW module, NEW edition, DeclaresPlainly(module, edition),
         NEW h, StructuresRight(h, module, edition),
         NEW s, WrappersRight(s, module, edition),
         NEW t \in ToSet(h.structure), NEW wide \in BOOLEAN
  PROVE  LET type == Pointed(t.typedef[wide], t.name) IN
           /\ \A d \in t.declared : d[wide] = type
           /\ \A w \in ToSet(s.wrappers) : w.name = t.name => w.declared[wide] = type
<1>1. PICK f \in FunctionsIn(module, edition) : t = Structure(f, module)
  BY DEF StructuresRight
<1>2. t.name = f.name /\ t.typedef[wide] = FunctionTypedef(f, wide)
  BY <1>1 DEF Structure
<1>3. /\ IsPlain(f) /\ (module.wrangle_typedefs => ~HasPointer(f.returns))
      /\ \A g \in FunctionsIn(module, edition) :
           f.name = g.name => FunctionDeclaration(f, wide) = FunctionDeclaration(g, wide)
  BY DEF DeclaresPlainly
<1>4. Pointed(t.typedef[wide], t.name) = FunctionDeclaration(f, wide)
  BY <1>2, <1>3, TypedefIs
<1>5. ASSUME NEW d \in t.declared PROVE d[wide] = FunctionDeclaration(f, wide)
  <2>1. module.wrangle_typedefs /\ d = [w \in BOOLEAN |-> HeaderDeclaration(f, w)]
    BY <1>1, <1>5 DEF Structure
  <2>2. d[wide] = HeaderDeclaration(f, wide)
    BY <2>1
  <2> QED
    BY <1>3, <2>1, <2>2 DEF HeaderDeclaration
<1>6. ASSUME NEW w \in ToSet(s.wrappers), w.name = t.name
      PROVE  w.declared[wide] = FunctionDeclaration(f, wide)
  <2>1. PICK g \in FunctionsIn(module, edition) : w = Wrapper(g)
    BY DEF WrappersRight
  <2>2. w.name = g.name /\ w.declared[wide] = FunctionDeclaration(g, wide)
    BY <2>1 DEF Wrapper
  <2> QED
    BY <1>2, <1>3, <1>6, <2>2
<1> QED
  BY <1>4, <1>5, <1>6

-----------------------------------------------------------------------------
(* The invariant                                                           *)

\* What main was given, and where it is.
Config ==
  /\ modules \in Tables /\ installed \in Editions /\ order \in DictOrders
  /\ run \in 1..MaxRuns
Where ==
  /\ at \in 0..Len(modules) /\ phase \in Phases /\ file \in {"header", "source"}
  /\ phase = "done" => at = Len(modules)

\* The files are those of the modules.
Shelved ==
  /\ DOMAIN files = Names
  /\ \A name \in Names : /\ DOMAIN files[name] = {"header", "source"}
                         /\ \A kind \in {"header", "source"} :
                              files[name][kind].is \in {"absent", "torn", "written"}

\* What main has in hand: what it found in the headers that it has read.
KeysApart == \A i, j \in DOMAIN context : context[i].key = context[j].key => i = j
FoundIn(module, n) ==
  [i \in 1..n |-> [key |-> Basename(module.headers[i]), value |-> installed[module.headers[i]]]]
InHand ==
  phase \in {"parse", "render", "open", "write"} =>
    /\ at \in 1..Len(modules) /\ ~Module.ignore
    /\ parsed \in 0..Len(Module.headers) /\ context = FoundIn(Module, parsed)
    /\ \A i \in 1..parsed : installed[Module.headers[i]] # REFUSED
    /\ phase # "parse" => parsed = Len(Module.headers)
    /\ phase \in {"open", "write"} => ~Unplaced

\* What fits, and is made of functions of the headers.
HeaderRight(h, module, edition) ==
  HeaderFits(h, module, edition) /\ StructuresRight(h, module, edition)
SourceRight(s, module, edition) ==
  SourceFits(s, module, edition) /\ WrappersRight(s, module, edition)
Right(module) ==
  /\ HeaderRight(files[module.name].header, module, installed)
  /\ SourceRight(files[module.name].source, module, installed)

\* The pairs of files before the module that main is at are new, those behind it
\* as they were; its own is as it was until a file is opened, and its source file
\* is opened when the header is written.
Untouched == phase \in {"parse", "render", "raised"} \/ (phase = "open" /\ file = "header")
Pairs ==
  \A i \in Generated : LET m == modules[i] IN
    /\ i < at \/ (i = at /\ phase \in {"next", "done"}) => Right(m)
    /\ i > at \/ (i = at /\ Untouched) => files[m.name] = before[m.name]
    /\ i = at /\ phase \in {"open", "write"} /\ file = "source" =>
         HeaderRight(files[m.name].header, m, installed)

GeneratorInv == Config /\ Where /\ Shelved /\ KeysApart /\ InHand /\ Pairs

LEMMA TableFacts ==
  ASSUME Config
  PROVE  /\ IsSequence(modules) /\ Len(modules) \in Nat /\ DOMAIN modules = 1..Len(modules)
         /\ \A i, j \in DOMAIN modules : modules[i].name = modules[j].name => i = j
         /\ \A i \in Generated :
              /\ NamesItsHeaders(modules[i]) /\ NamesItsLibraries(modules[i])
              /\ IsDictOrder(order, DOMAIN modules[i].libraries)
              /\ \A path \in ToSet(modules[i].headers) :
                   installed[path] = REFUSED \/ IsSequence(installed[path])
<1>1. /\ IsSequence(modules)
      /\ \A i, j \in DOMAIN modules : modules[i].name = modules[j].name => i = j
      /\ \A i \in DOMAIN modules : ~modules[i].ignore =>
            /\ NamesItsHeaders(modules[i]) /\ NamesItsLibraries(modules[i])
            /\ \A dictOrder \in DictOrders : IsDictOrder(dictOrder, DOMAIN modules[i].libraries)
            /\ \A edition \in Editions, path \in ToSet(modules[i].headers) :
                 edition[path] = REFUSED \/ IsSequence(edition[path])
  BY GeneratorAssumption DEF Config
<1>2. Len(modules) \in Nat /\ DOMAIN modules = 1..Len(modules)
  BY <1>1, IsSequenceHas
<1> QED
  BY <1>1, <1>2 DEF Generated, Config

\* The module that main is at, where it has something in hand.
LEMMA ModuleFacts ==
  ASSUME Config, at \in 1..Len(modules), ~Module.ignore
  PROVE  /\ at \in Generated /\ IsSequence(Module.headers) /\ Len(Module.headers) \in Nat
         /\ DOMAIN Module.headers = 1..Len(Module.headers)
         /\ \A i, j \in 1..Len(Module.headers) :
              Basename(Module.headers[i]) = Basename(Module.headers[j]) => i = j
         /\ \A i \in 1..Len(Module.headers) :
              installed[Module.headers[i]] = REFUSED \/ IsSequence(installed[Module.headers[i]])
<1>1. at \in Generated /\ Module = modules[at]
  BY TableFacts DEF Generated, Module
<1>2. NamesItsHeaders(Module)
  BY <1>1, TableFacts
<1>3. /\ IsSequence(Module.headers) /\ Len(Module.headers) \in Nat
      /\ DOMAIN Module.headers = 1..Len(Module.headers)
      /\ \A i \in 1..Len(Module.headers) : Module.headers[i] \in ToSet(Module.headers)
  BY <1>2, IsSequenceHas DEF NamesItsHeaders
<1>4. \A i \in 1..Len(Module.headers) :
        installed[Module.headers[i]] = REFUSED \/ IsSequence(installed[Module.headers[i]])
  BY <1>1, <1>3, TableFacts
<1> QED
  BY <1>1, <1>2, <1>3, <1>4 DEF NamesItsHeaders

\* A pair that a step leaves alone is as right as it was.
LEMMA SameRight ==
  ASSUME UNCHANGED <<modules, installed>>, NEW CONSTANT i,
         files'[modules[i].name] = files[modules[i].name]
  PROVE  Right(modules[i])' = Right(modules[i])
  BY DEF Right

LEMMA InitInv == Init => GeneratorInv
<1> SUFFICES ASSUME Init PROVE GeneratorInv
  OBVIOUS
<1>1. Config
  BY GeneratorAssumption DEF Init, Config
<1>2. Where
  BY <1>1, TableFacts DEF Init, Where, Phases
<1>3. Shelved
  BY DEF Init, Shelved, Names, Absent
<1>4. KeysApart /\ InHand
  BY DEF Init, KeysApart, InHand
<1>5. Pairs
  <2>1. \A i \in Generated : i > at /\ ~(i < at) /\ i # at
    BY <1>1, TableFacts DEF Init, Generated
  <2>2. files = before
    BY DEF Init
  <2> QED
    BY <2>1, <2>2 DEF Pairs
<1> QED
  BY <1>1, <1>2, <1>3, <1>4, <1>5 DEF GeneratorInv

\* A step that leaves the files alone leaves their pairs as they are.
LEMMA FilesStay ==
  ASSUME GeneratorInv, UNCHANGED <<configVars, files>>
  PROVE  /\ Config' /\ Shelved' /\ Generated' = Generated
         /\ \A i \in Generated :
              /\ modules'[i] = modules[i] /\ Right(modules[i])' = Right(modules[i])
              /\ files'[modules[i].name] = files[modules[i].name]
              /\ before'[modules[i].name] = before[modules[i].name]
<1>1. /\ modules' = modules /\ installed' = installed /\ order' = order /\ before' = before
      /\ run' = run /\ files' = files
  BY DEF configVars
<1>2. Config' /\ Shelved' /\ Generated' = Generated
  BY <1>1 DEF GeneratorInv, Config, Shelved, Generated, Names
<1>3. \A i \in Generated : Right(modules[i])' = Right(modules[i])
  BY <1>1, SameRight
<1> QED
  BY <1>1, <1>2, <1>3

LEMMA SameUnplaced ==
  ASSUME UNCHANGED <<modules, order, at, context>>
  PROVE  Unplaced' = Unplaced
  BY DEF Unplaced, LibraryForHeader, LibraryNames, Module, SelectInSeq

\* NextModule
LEMMA NextModuleInv ==
  ASSUME GeneratorInv, NextModule
  PROVE  GeneratorInv'
<1>0. /\ phase = "next" /\ at < Len(modules) /\ at' = at + 1
      /\ UNCHANGED <<configVars, file, files>> /\ modules' = modules
  BY DEF NextModule, configVars
<1>1. /\ Config' /\ Shelved' /\ Generated' = Generated
      /\ \A i \in Generated :
           /\ modules'[i] = modules[i] /\ Right(modules[i])' = Right(modules[i])
           /\ files'[modules[i].name] = files[modules[i].name]
           /\ before'[modules[i].name] = before[modules[i].name]
  BY <1>0, FilesStay
<1>2. at \in Nat /\ Len(modules) \in Nat /\ Generated \subseteq 1..Len(modules) /\ at' \in 1..Len(modules)
  BY <1>0, TableFacts DEF GeneratorInv, Where, Generated
<1>3. CASE modules[at + 1].ignore /\ UNCHANGED <<parsed, context, phase>>
  <2>1. at' \notin Generated
    BY <1>0, <1>3 DEF Generated
  <2>2. Where' /\ KeysApart' /\ InHand'
    BY <1>0, <1>2, <1>3 DEF GeneratorInv, Where, Phases, KeysApart, InHand
  <2>3. Pairs'
    <3> SUFFICES ASSUME NEW i \in Generated
                 PROVE  /\ i < at' => Right(modules[i])
                        /\ i > at' => files[modules[i].name] = before[modules[i].name]
      BY <1>0, <1>1, <2>1 DEF Pairs
    <3>1. i \in Nat /\ (i < at' => i < at \/ i = at) /\ (i > at' => i > at)
      BY <1>0, <1>2
    <3> QED
      BY <1>0, <3>1 DEF GeneratorInv, Pairs
  <2> QED
    BY <1>1, <2>2, <2>3 DEF GeneratorInv
<1>4. CASE ~modules[at + 1].ignore /\ parsed' = 0 /\ context' = <<>> /\ phase' = "parse"
  <2>1. Where' /\ KeysApart'
    BY <1>0, <1>2, <1>4 DEF GeneratorInv, Where, Phases, KeysApart, Ended
  <2>2. InHand'
    <3>1. ~modules'[at'].ignore
      BY <1>0, <1>4
    <3>2. at \in Nat /\ Len(Module.headers)' \in Nat
      <4>1. IsSequence(modules'[at'].headers)
        <5>1. at' \in Generated
          BY <1>0, <1>2, <1>4, TableFacts DEF GeneratorInv, Generated
        <5> QED
          BY <1>0, <5>1, TableFacts DEF GeneratorInv, NamesItsHeaders
      <4> QED
        BY <1>2, <4>1, IsSequenceHas DEF Module
    <3>3. context' = FoundIn(Module, parsed)'
      BY <1>4 DEF FoundIn
    <3> QED
      BY <1>0, <1>2, <1>4, <3>1, <3>2, <3>3 DEF InHand, Module
  <2>3. Pairs'
    <3> SUFFICES ASSUME NEW i \in Generated
                 PROVE  /\ i < at' => Right(modules[i])
                        /\ i > at' \/ i = at' => files[modules[i].name] = before[modules[i].name]
      BY <1>0, <1>1, <1>4 DEF Pairs
    <3>1. i \in Nat /\ (i < at' => i < at \/ i = at) /\ (i > at' \/ i = at' => i > at)
      BY <1>0, <1>2
    <3> QED
      BY <1>0, <3>1 DEF GeneratorInv, Pairs
  <2> QED
    BY <1>1, <2>1, <2>2, <2>3 DEF GeneratorInv
<1> QED
  BY <1>3, <1>4 DEF NextModule

\* A step that opens and writes no file.
LEMMA PairsStay ==
  ASSUME GeneratorInv, UNCHANGED <<configVars, files, at>>,
         phase' \in {"next", "done"} => phase \in {"next", "done"},
         Untouched' => Untouched,
         phase' \in {"open", "write"} /\ file' = "source" =>
           phase \in {"open", "write"} /\ file = "source"
  PROVE  Config' /\ Shelved' /\ Pairs'
<1>1. /\ Config' /\ Shelved' /\ Generated' = Generated
      /\ \A i \in Generated :
           /\ modules'[i] = modules[i] /\ Right(modules[i])' = Right(modules[i])
           /\ files'[modules[i].name] = files[modules[i].name]
           /\ before'[modules[i].name] = before[modules[i].name]
  BY FilesStay
<1>2. modules' = modules /\ installed' = installed /\ at' = at
  BY DEF configVars
<1>3. ASSUME NEW i \in Generated
      PROVE  /\ i < at' \/ (i = at' /\ phase' \in {"next", "done"}) => Right(modules[i])
             /\ i > at' \/ (i = at' /\ Untouched') => files[modules[i].name] = before[modules[i].name]
             /\ i = at' /\ phase' \in {"open", "write"} /\ file' = "source" =>
                  HeaderRight(files[modules[i].name].header, modules[i], installed)
  BY <1>2 DEF GeneratorInv, Pairs
<1>4. Pairs'
  BY <1>1, <1>2, <1>3 DEF Pairs
<1> QED
  BY <1>1, <1>4

\* ParseHeader
LEMMA FoundNext ==
  ASSUME NEW module, NEW n \in Nat
  PROVE  Append(FoundIn(module, n), [key |-> Basename(module.headers[n + 1]),
                                     value |-> installed[module.headers[n + 1]]])
           = FoundIn(module, n + 1)
<1> DEFINE F(i) == [key |-> Basename(module.headers[i]), value |-> installed[module.headers[i]]]
           S == {F(i) : i \in 1..(n + 1)}
           f == [i \in 1..n |-> F(i)]
           g == [i \in 1..(n + 1) |-> F(i)]
<1>1. f \in Seq(S) /\ Len(f) = n /\ F(n + 1) \in S
  OBVIOUS
<1>2. /\ Len(Append(f, F(n + 1))) = n + 1
      /\ \A i \in 1..n : Append(f, F(n + 1))[i] = F(i)
      /\ Append(f, F(n + 1))[n + 1] = F(n + 1)
      /\ Append(f, F(n + 1)) = [i \in 1..(n + 1) |-> Append(f, F(n + 1))[i]]
  OBVIOUS
<1>3. \A i \in 1..(n + 1) : i \in 1..n \/ i = n + 1
  OBVIOUS
<1> DEFINE h == Append(f, F(n + 1))
<1> HIDE DEF h
<1>4. h = g
  BY <1>2, <1>3 DEF h
<1> QED
  BY <1>4 DEF h, FoundIn

LEMMA ParseHeaderInv ==
  ASSUME GeneratorInv, ParseHeader
  PROVE  GeneratorInv'
<1> DEFINE n == parsed
           found == [key |-> Basename(NextPath), value |-> installed[NextPath]]
<1>0. /\ phase = "parse" /\ n < Len(Module.headers) /\ installed[NextPath] # REFUSED
      /\ parsed' = n + 1 /\ context' = Put(context, Basename(NextPath), installed[NextPath])
      /\ UNCHANGED <<configVars, at, file, phase, files>> /\ modules' = modules
      /\ installed' = installed
  BY DEF ParseHeader, Unreadable, configVars
<1>1. /\ at \in 1..Len(modules) /\ ~Module.ignore /\ n \in 0..Len(Module.headers)
      /\ context = FoundIn(Module, n) /\ \A i \in 1..n : installed[Module.headers[i]] # REFUSED
  BY <1>0 DEF GeneratorInv, InHand
<1>2. /\ at \in Generated /\ Len(Module.headers) \in Nat
      /\ \A i, j \in 1..Len(Module.headers) :
           Basename(Module.headers[i]) = Basename(Module.headers[j]) => i = j
  BY <1>1, ModuleFacts DEF GeneratorInv
<1>3. Config' /\ Shelved' /\ Pairs'
  BY <1>0, PairsStay DEF Untouched
<1>4. Where'
  BY <1>0 DEF GeneratorInv, Where, configVars
<1>5. context' = FoundIn(Module, n + 1)
  <2>1. \A i \in DOMAIN context : context[i].key # Basename(NextPath)
    <3>1. DOMAIN context = 1..n /\ \A i \in 1..n : context[i].key = Basename(Module.headers[i])
      BY <1>1 DEF FoundIn
    <3>2. \A i \in 1..n : i \in 1..Len(Module.headers) /\ i # n + 1
      BY <1>1, <1>2
    <3>3. n + 1 \in 1..Len(Module.headers)
      BY <1>0, <1>1, <1>2
    <3> QED
      BY <1>2, <3>1, <3>2, <3>3 DEF NextPath
  <2>2. context' = Append(context, found)
    BY <1>0, <2>1 DEF Put
  <2>3. found = [key |-> Basename(Module.headers[n + 1]),
                 value |-> installed[Module.headers[n + 1]]]
    BY DEF NextPath
  <2>4. n \in Nat
    BY <1>1
  <2> QED
    BY <1>1, <2>2, <2>3, <2>4, FoundNext
<1>6. KeysApart'
  <2>1. /\ DOMAIN context' = 1..(n + 1)
        /\ \A i \in 1..(n + 1) : context'[i].key = Basename(Module.headers[i])
    BY <1>5 DEF FoundIn
  <2>2. \A i \in 1..(n + 1) : i \in 1..Len(Module.headers)
    BY <1>0, <1>1, <1>2
  <2>3. ASSUME NEW i \in DOMAIN context', NEW j \in DOMAIN context',
               context'[i].key = context'[j].key
        PROVE  i = j
    <3>1. /\ i \in 1..Len(Module.headers) /\ j \in 1..Len(Module.headers)
          /\ Basename(Module.headers[i]) = Basename(Module.headers[j])
      BY <2>1, <2>2, <2>3
    <3> QED
      BY <1>2, <3>1
  <2> QED
    BY <2>3 DEF KeysApart
<1>7. InHand'
  <2>1. at' = at /\ Module' = Module /\ FoundIn(Module, parsed)' = FoundIn(Module, n + 1)
    BY <1>0 DEF Module, FoundIn
  <2>2. \A i \in 1..(n + 1) : installed[Module.headers[i]] # REFUSED
    BY <1>0, <1>1 DEF NextPath
  <2>3. n + 1 \in 0..Len(Module.headers)
    BY <1>0, <1>1, <1>2
  <2> QED
    BY <1>0, <1>1, <1>5, <2>1, <2>2, <2>3 DEF InHand
<1> QED
  BY <1>3, <1>4, <1>6, <1>7 DEF GeneratorInv

\* Parsed, Render, Finish, Raise, Stop
LEMMA QuietInv ==
  ASSUME GeneratorInv, Parsed \/ Render \/ Finish \/ Raise \/ Stop
  PROVE  GeneratorInv'
<1>1. /\ UNCHANGED <<configVars, at, parsed, context, files>>
      /\ modules' = modules /\ installed' = installed /\ order' = order
  BY DEF Parsed, Render, Finish, Raise, Stop, configVars
<1>2. /\ at' = at /\ parsed' = parsed /\ context' = context
      /\ Module' = Module /\ FoundIn(Module, parsed)' = FoundIn(Module, parsed)
      /\ Unplaced' = Unplaced /\ KeysApart'
  BY <1>1, SameUnplaced DEF Module, FoundIn, GeneratorInv, KeysApart
<1>3. CASE Parsed
  <2>1. phase = "parse" /\ parsed = Len(Module.headers) /\ phase' = "render" /\ file' = file
    BY <1>3 DEF Parsed
  <2>2. Config' /\ Shelved' /\ Pairs'
    BY <1>1, <2>1, PairsStay DEF Untouched
  <2>3. Where' /\ InHand'
    BY <1>1, <1>2, <2>1 DEF GeneratorInv, Where, InHand, Phases
  <2> QED
    BY <1>2, <2>2, <2>3 DEF GeneratorInv
<1>4. CASE Render
  <2>1. phase = "render" /\ ~Unplaced /\ phase' = "open" /\ file' = "header"
    BY <1>4 DEF Render, NoLibrary
  <2>2. Config' /\ Shelved' /\ Pairs'
    BY <1>1, <2>1, PairsStay DEF Untouched
  <2>3. Where' /\ InHand'
    BY <1>1, <1>2, <2>1 DEF GeneratorInv, Where, InHand, Phases
  <2> QED
    BY <1>2, <2>2, <2>3 DEF GeneratorInv
<1>5. CASE Finish
  <2>1. phase = "next" /\ at = Len(modules) /\ phase' = "done" /\ file' = file
    BY <1>5 DEF Finish
  <2>2. Config' /\ Shelved' /\ Pairs'
    BY <1>1, <2>1, PairsStay DEF Untouched
  <2>3. Where' /\ InHand'
    BY <1>1, <1>2, <2>1 DEF GeneratorInv, Where, InHand, Phases, Ended
  <2> QED
    BY <1>2, <2>2, <2>3 DEF GeneratorInv
<1>6. CASE Raise
  <2>1. phase \in {"parse", "render"} /\ phase' = "raised" /\ file' = file
    BY <1>6 DEF Raise, Unreadable, NoLibrary
  <2>2. Config' /\ Shelved' /\ Pairs'
    BY <1>1, <2>1, PairsStay DEF Untouched
  <2>3. Where' /\ InHand'
    BY <1>1, <1>2, <2>1 DEF GeneratorInv, Where, InHand, Phases, Ended
  <2> QED
    BY <1>2, <2>2, <2>3 DEF GeneratorInv
<1>7. CASE Stop
  <2>1. phase' = "killed" /\ file' = file
    BY <1>7 DEF Stop
  <2>2. Config' /\ Shelved' /\ Pairs'
    BY <1>1, <2>1, PairsStay DEF Untouched
  <2>3. Where' /\ InHand'
    BY <1>1, <1>2, <2>1 DEF GeneratorInv, Where, InHand, Phases, Ended
  <2> QED
    BY <1>2, <2>2, <2>3 DEF GeneratorInv
<1> QED
  BY <1>3, <1>4, <1>5, <1>6, <1>7
\* What a step does that changes one file of the module that main is at.
ChangesFile(content) ==
  files' = [files EXCEPT ![Module.name][file] = content] /\ UNCHANGED configVars /\ at' = at
OnlyOneFile(content) ==
  /\ Config' /\ Shelved' /\ Generated' = Generated /\ modules' = modules
  /\ at \in Generated /\ Module = modules[at] /\ files'[Module.name][file] = content
  /\ \A kind \in {"header", "source"} \ {file} :
       files'[Module.name][kind] = files[Module.name][kind]
  /\ \A i \in Generated \ {at} :
       /\ Right(modules[i])' = Right(modules[i])
       /\ files'[modules[i].name] = files[modules[i].name]
       /\ before'[modules[i].name] = before[modules[i].name]

LEMMA OneFile ==
  ASSUME GeneratorInv, phase \in {"open", "write"}, NEW content,
         content.is \in {"torn", "written"}, ChangesFile(content)
  PROVE  OnlyOneFile(content)
<1>1. /\ modules' = modules /\ installed' = installed /\ order' = order /\ before' = before
      /\ run' = run /\ files' = [files EXCEPT ![Module.name][file] = content]
  BY DEF configVars, ChangesFile
<1>2. Config' /\ Generated' = Generated
  BY <1>1 DEF GeneratorInv, Config, Generated
<1>3. at \in Generated /\ Module = modules[at]
  BY ModuleFacts DEF GeneratorInv, InHand, Module
<1>4. Module.name \in Names /\ file \in {"header", "source"}
  BY <1>3 DEF Names, Generated, GeneratorInv, Where
<1>5. /\ DOMAIN files' = Names
      /\ \A name \in Names \ {Module.name} : files'[name] = files[name]
      /\ files'[Module.name] = [files[Module.name] EXCEPT ![file] = content]
  BY <1>1, <1>4 DEF GeneratorInv, Shelved
<1>6. /\ DOMAIN files'[Module.name] = {"header", "source"}
      /\ files'[Module.name][file] = content
      /\ \A kind \in {"header", "source"} \ {file} :
           files'[Module.name][kind] = files[Module.name][kind]
  BY <1>4, <1>5 DEF GeneratorInv, Shelved
<1>7. Shelved'
  <2>1. Names' = Names
    BY <1>1 DEF Names
  <2>2. ASSUME NEW name \in Names
        PROVE  /\ DOMAIN files'[name] = {"header", "source"}
               /\ \A kind \in {"header", "source"} :
                    files'[name][kind].is \in {"absent", "torn", "written"}
    BY <1>5, <1>6 DEF GeneratorInv, Shelved
  <2> QED
    BY <1>5, <2>1, <2>2 DEF Shelved
<1>8. ASSUME NEW i \in Generated \ {at}
      PROVE  /\ Right(modules[i])' = Right(modules[i])
             /\ files'[modules[i].name] = files[modules[i].name]
             /\ before'[modules[i].name] = before[modules[i].name]
  <2>1. modules[i].name # Module.name /\ modules[i].name \in Names
    BY <1>3, TableFacts DEF GeneratorInv, Generated, Names
  <2>2. files'[modules[i].name] = files[modules[i].name]
    BY <1>5, <2>1
  <2> QED
    BY <1>1, <2>2, SameRight
<1> QED
  BY <1>1, <1>2, <1>3, <1>6, <1>7, <1>8 DEF OnlyOneFile

LEMMA OpenFileInv ==
  ASSUME GeneratorInv, OpenFile
  PROVE  GeneratorInv'
<1>0. /\ phase = "open" /\ phase' = "write" /\ files' = [files EXCEPT ![Module.name][file] = Torn]
      /\ UNCHANGED <<configVars, at, parsed, context, file>> /\ UNCHANGED configVars /\ at' = at
      /\ modules' = modules /\ installed' = installed /\ order' = order
  BY DEF OpenFile, Emptied, configVars
<1>1. Torn.is \in {"torn", "written"}
  BY DEF Torn
<1>2. /\ Config' /\ Shelved' /\ Generated' = Generated /\ modules' = modules
      /\ at \in Generated /\ Module = modules[at]
      /\ \A kind \in {"header", "source"} \ {file} :
           files'[Module.name][kind] = files[Module.name][kind]
      /\ \A i \in Generated \ {at} :
           /\ Right(modules[i])' = Right(modules[i])
           /\ files'[modules[i].name] = files[modules[i].name]
           /\ before'[modules[i].name] = before[modules[i].name]
  <2>1. ChangesFile(Torn)
    BY <1>0 DEF ChangesFile
  <2>2. OnlyOneFile(Torn)
    BY <1>0, <1>1, <2>1, OneFile
  <2> QED
    BY <2>2 DEF OnlyOneFile
<1>3. Where' /\ KeysApart'
  BY <1>0 DEF GeneratorInv, Where, Phases, KeysApart
<1>4. InHand'
  <2>1. Module' = Module /\ FoundIn(Module, parsed)' = FoundIn(Module, parsed) /\ Unplaced' = Unplaced
    BY <1>0, SameUnplaced DEF Module, FoundIn
  <2> QED
    BY <1>0, <2>1 DEF GeneratorInv, InHand
<1>5. Pairs'
  <2>1. ASSUME NEW i \in Generated
        PROVE  /\ i < at => Right(modules[i])'
               /\ i > at => files'[modules[i].name] = before'[modules[i].name]
               /\ i = at /\ file = "source" =>
                    HeaderRight(files'[modules[i].name].header, modules[i], installed)
    <3>1. CASE i = at
      <4>1. at \in Nat
        BY DEF GeneratorInv, Where
      <4>2. ASSUME file = "source"
            PROVE  HeaderRight(files'[modules[i].name].header, modules[i], installed)
        BY <1>0, <1>2, <3>1, <4>2 DEF GeneratorInv, Pairs
      <4> QED
        BY <3>1, <4>1, <4>2
    <3>2. CASE i # at
      BY <1>2, <3>2 DEF GeneratorInv, Pairs
    <3> QED
      BY <3>1, <3>2
  <2> QED
    BY <1>0, <1>2, <2>1 DEF Pairs, Untouched
<1> QED
  BY <1>2, <1>3, <1>4, <1>5 DEF GeneratorInv

LEMMA TextsFit ==
  ASSUME GeneratorInv, phase \in {"open", "write"}
  PROVE  /\ HeaderRight(HeaderText(Module, context), Module, installed)
         /\ SourceRight(SourceText(Module, context), Module, installed)
<1>1. /\ Config /\ at \in 1..Len(modules) /\ ~Module.ignore /\ parsed = Len(Module.headers)
      /\ context = FoundIn(Module, parsed) /\ ~Unplaced
      /\ \A i \in 1..parsed : installed[Module.headers[i]] # REFUSED
  BY DEF GeneratorInv, InHand
<1>2. /\ at \in Generated /\ Module = modules[at]
      /\ IsSequence(Module.headers) /\ DOMAIN Module.headers = 1..Len(Module.headers)
      /\ \A i \in 1..Len(Module.headers) :
           installed[Module.headers[i]] = REFUSED \/ IsSequence(installed[Module.headers[i]])
  BY <1>1, ModuleFacts DEF Module
<1>3. Matches(context, Module, installed)
  BY <1>1, <1>2 DEF Matches, Readable, FoundIn
<1>4. Placed(Module, context)
  BY <1>1 DEF Unplaced, Placed
<1>5. NamesItsLibraries(Module) /\ IsDictOrder(order, DOMAIN Module.libraries)
  BY <1>1, <1>2, TableFacts
<1>6. Parsable(Module, installed)
  BY <1>1, <1>2 DEF Parsable
<1> QED
  BY <1>3, <1>4, <1>5, <1>6, HeaderTextFits, SourceTextFits, HeaderTextRight, SourceTextRight
     DEF HeaderRight, SourceRight

LEMMA WriteFileInv ==
  ASSUME GeneratorInv, WriteFile
  PROVE  GeneratorInv'
<1> DEFINE text == Text(Module, file)
<1>0. /\ phase = "write" /\ files' = [files EXCEPT ![Module.name][file] = text]
      /\ UNCHANGED <<configVars, at, parsed, context>> /\ UNCHANGED configVars /\ at' = at
      /\ modules' = modules /\ installed' = installed /\ order' = order
      /\ \/ file = "header" /\ file' = "source" /\ phase' = "open"
         \/ file = "source" /\ file' = "source" /\ phase' = "next"
  BY DEF WriteFile, configVars, GeneratorInv, Where
<1>1. /\ file = "header" => text = HeaderText(Module, context)
      /\ file = "source" => text = SourceText(Module, context)
      /\ file \in {"header", "source"}
  BY DEF Text, GeneratorInv, Where
<1>2. text.is \in {"torn", "written"}
  <2>1. /\ HeaderText(Module, context).is = "written"
        /\ SourceText(Module, context).is = "written"
    BY DEF HeaderText, SourceText
  <2> HIDE DEF text
  <2> QED
    BY <1>1, <2>1
<1>3. /\ Config' /\ Shelved' /\ Generated' = Generated /\ modules' = modules
      /\ at \in Generated /\ Module = modules[at] /\ files'[Module.name][file] = text
      /\ \A kind \in {"header", "source"} \ {file} :
           files'[Module.name][kind] = files[Module.name][kind]
      /\ \A i \in Generated \ {at} :
           /\ Right(modules[i])' = Right(modules[i])
           /\ files'[modules[i].name] = files[modules[i].name]
           /\ before'[modules[i].name] = before[modules[i].name]
  <2> HIDE DEF text
  <2>1. ChangesFile(text)
    BY <1>0 DEF ChangesFile
  <2>2. OnlyOneFile(text)
    BY <1>0, <1>2, <2>1, OneFile
  <2> QED
    BY <2>2 DEF OnlyOneFile
<1> HIDE DEF text
<1>4. /\ HeaderRight(HeaderText(Module, context), Module, installed)
      /\ SourceRight(SourceText(Module, context), Module, installed)
  BY <1>0, TextsFit
<1>5. Where' /\ KeysApart'
  BY <1>0 DEF GeneratorInv, Where, Phases, KeysApart
<1>6. InHand'
  <2>1. Module' = Module /\ FoundIn(Module, parsed)' = FoundIn(Module, parsed) /\ Unplaced' = Unplaced
    BY <1>0, SameUnplaced DEF Module, FoundIn
  <2> QED
    BY <1>0, <2>1 DEF GeneratorInv, InHand
<1>7. ASSUME NEW i \in Generated \ {at}
      PROVE  /\ i < at => Right(modules[i])'
             /\ i > at => files'[modules[i].name] = before'[modules[i].name]
  BY <1>3 DEF GeneratorInv, Pairs
<1>8. at \in Nat
  BY DEF GeneratorInv, Where
<1>9. CASE file = "header" /\ file' = "source" /\ phase' = "open"
  <2>1. HeaderRight(files'[Module.name].header, Module, installed)
    BY <1>1, <1>3, <1>4, <1>9
  <2>2. ~Untouched'
    BY <1>9 DEF Untouched
  <2>3. ASSUME NEW i \in Generated
        PROVE  /\ i < at => Right(modules[i])'
               /\ i > at => files'[modules[i].name] = before'[modules[i].name]
               /\ i = at => HeaderRight(files'[modules[i].name].header, modules[i], installed)
    BY <1>3, <1>7, <1>8, <2>1
  <2>4. Pairs'
    BY <1>0, <1>3, <1>9, <2>2, <2>3 DEF Pairs
  <2> QED
    BY <1>3, <1>5, <1>6, <2>4 DEF GeneratorInv
<1>10. CASE file = "source" /\ file' = "source" /\ phase' = "next"
  <2>1. HeaderRight(files[Module.name].header, Module, installed)
    BY <1>0, <1>3, <1>10 DEF GeneratorInv, Pairs
  <2>2. HeaderRight(files'[Module.name].header, Module, installed)
    BY <1>3, <1>10, <2>1
  <2>3. SourceRight(files'[Module.name].source, Module, installed)
    BY <1>1, <1>3, <1>4, <1>10
  <2>4. Right(modules[at])'
    BY <1>0, <1>3, <2>2, <2>3 DEF Right
  <2>5. ~Untouched'
    BY <1>10 DEF Untouched
  <2>6. ASSUME NEW i \in Generated
        PROVE  /\ i < at \/ i = at => Right(modules[i])'
               /\ i > at => files'[modules[i].name] = before'[modules[i].name]
    <3>1. CASE i = at
      BY <1>0, <1>8, <2>4, <3>1
    <3>2. CASE i # at
      BY <1>7, <3>2
    <3> QED
      BY <3>1, <3>2
  <2>7. Pairs'
    BY <1>0, <1>3, <1>10, <2>5, <2>6 DEF Pairs
  <2> QED
    BY <1>3, <1>5, <1>6, <2>7 DEF GeneratorInv
<1> QED
  BY <1>0, <1>9, <1>10

LEMMA RunAgainInv ==
  ASSUME GeneratorInv, RunAgain
  PROVE  GeneratorInv'
<1>0. /\ run < MaxRuns /\ run' = run + 1 /\ installed' \in Editions /\ before' = files
      /\ at' = 0 /\ context' = <<>> /\ file' = "header" /\ phase' = "next"
      /\ modules' = modules /\ order' = order /\ files' = files
  BY DEF RunAgain
<1>1. Config'
  BY <1>0, GeneratorAssumption DEF GeneratorInv, Config
<1>2. Shelved'
  BY <1>0 DEF GeneratorInv, Shelved, Names
<1>3. Len(modules) \in Nat /\ Generated \subseteq 1..Len(modules)
  BY TableFacts DEF GeneratorInv, Generated
<1>4. Where' /\ KeysApart' /\ InHand'
  BY <1>0, <1>3 DEF Where, Phases, KeysApart, InHand
<1>5. Generated' = Generated
  BY <1>0 DEF Generated
<1>6. \A i \in Generated : ~(i < at') /\ i # at'
  BY <1>0, <1>3
<1>7. Pairs'
  BY <1>0, <1>5, <1>6 DEF Pairs
<1> QED
  BY <1>1, <1>2, <1>4, <1>7 DEF GeneratorInv

LEMMA StutterInv ==
  ASSUME GeneratorInv, UNCHANGED vars
  PROVE  GeneratorInv'
<1>1. /\ UNCHANGED <<configVars, files, at>> /\ modules' = modules /\ installed' = installed
      /\ order' = order /\ at' = at /\ parsed' = parsed /\ context' = context
      /\ phase' = phase /\ file' = file /\ UNCHANGED configVars /\ files' = files
  BY DEF vars, configVars
<1>2. Config' /\ Shelved' /\ Pairs'
  BY <1>1, PairsStay DEF Untouched
<1>3. Module' = Module /\ FoundIn(Module, parsed)' = FoundIn(Module, parsed) /\ Unplaced' = Unplaced
  BY <1>1, SameUnplaced DEF Module, FoundIn
<1>4. Where' /\ KeysApart' /\ InHand'
  BY <1>1, <1>3 DEF GeneratorInv, Where, KeysApart, InHand
<1> QED
  BY <1>2, <1>4 DEF GeneratorInv

LEMMA GeneratorInvAlways == Spec => []GeneratorInv
<1>1. ASSUME GeneratorInv, [Next]_vars PROVE GeneratorInv'
  <2>1. CASE Program
    BY <1>1, <2>1, NextModuleInv, ParseHeaderInv, QuietInv, OpenFileInv, WriteFileInv DEF Program
  <2>2. CASE Stop \/ RunAgain
    BY <1>1, <2>2, QuietInv, RunAgainInv
  <2>3. CASE UNCHANGED vars
    BY <1>1, <2>3, StutterInv
  <2> QED
    BY <1>1, <2>1, <2>2, <2>3 DEF Next
<1> QED
  BY <1>1, InitInv, PTL DEF Spec

-----------------------------------------------------------------------------
(* The theorems                                                            *)

LEMMA RightIsCurrent ==
  ASSUME NEW module, Right(module)
  PROVE  Current(module)
BY DEF Right, Current, Fits, HeaderRight, SourceRight

\* main is somewhere in MODULES, and everything that was parsed of the headers of
\* a module is in hand until its files are written: no header takes the place of
\* another in the dict (parse_header, main).
THEOREM GeneratorTyped == Spec => []GeneratorTypeOK
<1>1. ASSUME GeneratorInv PROVE GeneratorTypeOK
  <2>1. /\ at \in 0..Len(modules) /\ run \in 1..MaxRuns
        /\ phase \in Phases /\ file \in {"header", "source"}
    BY <1>1 DEF GeneratorInv, Where, Config
  <2>2. \A i, j \in DOMAIN context : context[i].key = context[j].key => i = j
    BY <1>1 DEF GeneratorInv, KeysApart
  <2>3. ASSUME phase \notin Ended \cup {"next"}
        PROVE  parsed = Len(context) /\ parsed <= Len(Module.headers)
    <3>1. phase \in {"parse", "render", "open", "write"}
      BY <2>1, <2>3 DEF Phases
    <3>2. /\ at \in 1..Len(modules) /\ ~Module.ignore
          /\ parsed \in 0..Len(Module.headers) /\ context = FoundIn(Module, parsed)
      BY <1>1, <3>1 DEF GeneratorInv, InHand
    <3>3. Len(Module.headers) \in Nat
      BY <1>1, <3>2, ModuleFacts DEF GeneratorInv
    <3>4. Len(context) = parsed
      BY <3>2, <3>3 DEF FoundIn
    <3> QED
      BY <3>2, <3>3, <3>4
  <2> QED
    BY <1>1, <2>1, <2>2, <2>3 DEF GeneratorTypeOK, GeneratorInv, Shelved
<1> QED
  BY <1>1, GeneratorInvAlways, PTL

\* A run that ends by itself leaves the files of every module as the installed
\* headers have it: each function once in each list, each library once, each
\* function looked up in the library that its header describes, whatever was in
\* the files and in whatever order the dicts are iterated (main).
THEOREM DoneMeansCurrentAlways == Spec => []DoneMeansCurrent
<1>1. ASSUME GeneratorInv PROVE DoneMeansCurrent
  <2> SUFFICES ASSUME phase = "done", NEW i \in Generated PROVE Current(modules[i])
    BY DEF DoneMeansCurrent
  <2>1. at = Len(modules) /\ Len(modules) \in Nat /\ i \in 1..Len(modules)
    BY <1>1, TableFacts DEF GeneratorInv, Where, Generated
  <2>2. i < at \/ i = at
    BY <2>1
  <2> QED
    BY <1>1, <2>2, RightIsCurrent DEF GeneratorInv, Pairs
<1> QED
  BY <1>1, GeneratorInvAlways, PTL

\* A run that raises leaves no pair of files apart: those of the modules before
\* the one that it was at are new, the others are as they were, since all of the
\* code is made before a file is opened (write_wrangler_to_files).
THEOREM RefusalKeepsPairsAlways == Spec => []RefusalKeepsPairs
<1>1. ASSUME GeneratorInv PROVE RefusalKeepsPairs
  <2> SUFFICES ASSUME phase = "raised", NEW i \in Generated
               PROVE  \/ files[modules[i].name] = before[modules[i].name]
                      \/ i < at /\ Current(modules[i])
    BY DEF RefusalKeepsPairs
  <2>1. at \in Nat /\ i \in Nat
    BY <1>1, TableFacts DEF GeneratorInv, Where, Generated
  <2>2. i < at \/ i > at \/ i = at
    BY <2>1
  <2> QED
    BY <1>1, <2>2, RightIsCurrent DEF GeneratorInv, Pairs, Untouched
<1> QED
  BY <1>1, GeneratorInvAlways, PTL

\* A run that is stopped anywhere leaves at most the files of the module that it
\* was at apart (write_wrangler_to_file, called for the header and the source).
THEOREM StopTearsOneAlways == Spec => []StopTearsOne
<1>1. ASSUME GeneratorInv PROVE StopTearsOne
  <2> SUFFICES ASSUME phase = "killed", NEW i \in Generated
               PROVE  \/ files[modules[i].name] = before[modules[i].name]
                      \/ i = at
                      \/ i < at /\ Current(modules[i])
    BY DEF StopTearsOne
  <2>1. at \in Nat /\ i \in Nat
    BY <1>1, TableFacts DEF GeneratorInv, Where, Generated
  <2>2. i < at \/ i > at \/ i = at
    BY <2>1
  <2> QED
    BY <1>1, <2>2, RightIsCurrent DEF GeneratorInv, Pairs
<1> QED
  BY <1>1, GeneratorInvAlways, PTL

\* Where headers declare functions plainly, the files of a finished run go
\* together: what a wrapper is declared as, and what the header declares of it, is
\* what the typedef of its functor stands for, with wide prototypes and without,
\* a function that returns a pointer to one included (generate_function_declaration,
\* generate_function_typedef, generate_function_declarations).
THEOREM WrappersFitFunctorsAlways ==
  ASSUME HeadersDeclarePlainly
  PROVE  Spec => []WrappersFitFunctors
<1>1. ASSUME GeneratorInv PROVE WrappersFitFunctors
  <2> SUFFICES ASSUME phase = "done", NEW i \in Generated,
                      NEW t \in ToSet(files[modules[i].name].header.structure), NEW wide \in BOOLEAN
               PROVE  LET type == Pointed(t.typedef[wide], t.name) IN
                        /\ \A d \in t.declared : d[wide] = type
                        /\ \A w \in ToSet(files[modules[i].name].source.wrappers) :
                             w.name = t.name => w.declared[wide] = type
    BY DEF WrappersFitFunctors
  <2>1. at = Len(modules) /\ Len(modules) \in Nat /\ i \in 1..Len(modules)
    BY <1>1, TableFacts DEF GeneratorInv, Where, Generated
  <2>2. i < at \/ i = at
    BY <2>1
  <2>3. Right(modules[i])
    BY <1>1, <2>2 DEF GeneratorInv, Pairs
  <2>4. DeclaresPlainly(modules[i], installed)
    BY <1>1 DEF GeneratorInv, Config, HeadersDeclarePlainly, Generated
  <2> QED
    BY <2>3, <2>4, TextsGoTogether DEF Right, HeaderRight, SourceRight
<1> QED
  BY <1>1, GeneratorInvAlways, PTL
=============================================================================
