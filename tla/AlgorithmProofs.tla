--------------------------- MODULE AlgorithmProofs ---------------------------
(***************************************************************************)
(* What the algorithms promise for all inputs: the names of the            *)
(* definitions of a JSON schema, the fields whose annotations are          *)
(* evaluated late, the decorators that a class has or inherits, and the    *)
(* definitions that a JSON schema refers to.                               *)
(***************************************************************************)
EXTENDS DefinitionNames, JsonSchemaReferences, FieldInfos, DecoratorTables, InductionLemmas,
    FiniteSetTheorems, TLAPS

-----------------------------------------------------------------------------
(* Names: the choices.                                                     *)

\* The classes that are numbered up to the position p.
Numbered(class, met, p) ==
    {c \in {met[i] : i \in 1 .. p} : c.module = class.module /\ c.name = class.name}

LEMMA NumberedFinite ==
    ASSUME NEW class, NEW met, NEW p \in Nat
    PROVE  IsFiniteSet(Numbered(class, met, p))
<1>1. IsFiniteSet(1 .. p)
  BY FS_Interval
<1>2. IsFiniteSet({met[i] : i \in 1 .. p})
  <2> DEFINE f == [i \in 1 .. p |-> met[i]]
  <2>1. f \in Surjection(1 .. p, {met[i] : i \in 1 .. p})
    BY DEF Surjection
  <2> QED
    BY <1>1, <2>1, FS_Surjection
<1>3. Numbered(class, met, p) \subseteq {met[i] : i \in 1 .. p}
  BY DEF Numbered
<1> QED
  BY <1>2, <1>3, FS_Subset

\* Of two classes with one module and name the one that was met later has the
\* greater number.
LEMMA LaterNumber ==
    ASSUME NEW met, \A i, j \in DOMAIN met : met[i] = met[j] => i = j,
           NEW n \in Nat, DOMAIN met = 1 .. n,
           NEW p \in DOMAIN met, NEW q \in DOMAIN met, p < q,
           met[p].module = met[q].module, met[p].name = met[q].name
    PROVE  Cardinality(Numbered(met[p], met, p)) # Cardinality(Numbered(met[q], met, q))
<1> DEFINE A == Numbered(met[p], met, p)
           B == Numbered(met[q], met, q)
<1>1. p \in Nat /\ q \in Nat /\ 1 .. p \subseteq 1 .. q
  OBVIOUS
<1>2. IsFiniteSet(A) /\ IsFiniteSet(B)
  BY <1>1, NumberedFinite
<1>3. A \subseteq B
  BY <1>1 DEF Numbered
<1>4. met[q] \in B
  BY <1>1 DEF Numbered
<1>5. met[q] \notin A
  <2> SUFFICES ASSUME NEW i \in 1 .. p, met[i] = met[q] PROVE FALSE
    BY DEF Numbered
  <2>1. i \in DOMAIN met /\ i # q
    BY <1>1
  <2> QED
    BY <2>1
<1> HIDE DEF A, B
<1>6. Cardinality(A) = Cardinality(B) => A = B
  BY <1>2, <1>3, FS_Subset
<1> QED
  BY <1>4, <1>5, <1>6 DEF A, B

LEMMA WellDefinedParts ==
    ASSUME NEW definitions, NEW met, WellDefined(definitions, met)
    PROVE  /\ Len(met) \in Nat /\ DOMAIN met = 1 .. Len(met)
           /\ \A i, j \in DOMAIN met : met[i] = met[j] => i = j
           /\ IsFiniteSet(DOMAIN definitions)
           /\ \A d \in DOMAIN definitions :
                 /\ d = [class |-> d.class, mode |-> d.mode]
                 /\ d.mode # ""
                 /\ definitions[d] = [content |-> definitions[d].content, refs |-> definitions[d].refs]
                 /\ definitions[d].refs \in Seq(DOMAIN definitions)
<1> DEFINE S == {met[i] : i \in DOMAIN met}
<1>1. met \in Seq(S)
  BY Zenon DEF WellDefined
<1>2. Len(met) \in Nat /\ DOMAIN met = 1 .. Len(met)
  <2> HIDE DEF S
  <2> QED
    BY <1>1
<1> QED
  BY <1>2, Zenon DEF WellDefined

\* The position at which a class was met.
LEMMA MetAt ==
    ASSUME NEW definitions, NEW met, WellDefined(definitions, met), NEW d \in DOMAIN definitions
    PROVE  \E p \in DOMAIN met :
              /\ met[p] = d.class /\ p = CHOOSE j \in DOMAIN met : met[j] = d.class
              /\ Number(d.class, met) = Cardinality(Numbered(d.class, met, p))
<1>1. \E p \in DOMAIN met : met[p] = d.class
  <2>1. d.class \in {met[i] : i \in DOMAIN met}
    BY Zenon DEF WellDefined
  <2> QED
    BY <2>1
<1>2. PICK p \in DOMAIN met : p = CHOOSE j \in DOMAIN met : met[j] = d.class
  BY <1>1
<1> QED
  BY <1>1, <1>2 DEF Number, Numbered

LEMMA NumbersDiffer ==
    ASSUME NEW definitions, NEW met, WellDefined(definitions, met),
           NEW d \in DOMAIN definitions, NEW e \in DOMAIN definitions,
           d.class.module = e.class.module, d.class.name = e.class.name,
           Number(d.class, met) = Number(e.class, met)
    PROVE  d.class = e.class
<1>1. PICK p \in DOMAIN met : met[p] = d.class /\ Number(d.class, met) = Cardinality(Numbered(d.class, met, p))
  BY MetAt
<1>2. PICK q \in DOMAIN met : met[q] = e.class /\ Number(e.class, met) = Cardinality(Numbered(e.class, met, q))
  BY MetAt
<1>3. /\ Len(met) \in Nat /\ DOMAIN met = 1 .. Len(met)
      /\ \A i, j \in DOMAIN met : met[i] = met[j] => i = j
  BY WellDefinedParts
<1>4. ~(p < q)
  BY <1>1, <1>2, <1>3, LaterNumber
<1>5. ~(q < p)
  BY <1>1, <1>2, <1>3, LaterNumber
<1>6. p = q
  BY <1>3, <1>4, <1>5
<1> QED
  BY <1>1, <1>2, <1>6

LEMMA NumberPositive ==
    ASSUME NEW definitions, NEW met, WellDefined(definitions, met), NEW d \in DOMAIN definitions
    PROVE  Number(d.class, met) # 0
<1>1. PICK p \in DOMAIN met : met[p] = d.class /\ Number(d.class, met) = Cardinality(Numbered(d.class, met, p))
  BY MetAt
<1>2. p \in Nat /\ p \in 1 .. p
  <2>1. Len(met) \in Nat /\ DOMAIN met = 1 .. Len(met)
    BY WellDefinedParts, Zenon
  <2> QED
    BY <2>1
<1>3. d.class \in Numbered(d.class, met, p)
  BY <1>1, <1>2 DEF Numbered
<1>4. IsFiniteSet(Numbered(d.class, met, p))
  BY <1>2, NumberedFinite
<1>5. Numbered(d.class, met, p) # {}
  BY <1>3
<1> QED
  BY <1>1, <1>4, <1>5, FS_EmptySet

LEMMA SixChoices ==
    ASSUME NEW definitions, NEW met, NEW d \in DOMAIN definitions
    PROVE  /\ DOMAIN ChoicesFor(definitions, met)[d] = 1 .. 6
           /\ Offered(Long(ChoicesFor(definitions, met), d), d, ChoicesFor(definitions, met))
<1>1. DOMAIN ChoicesFor(definitions, met)[d] = 1 .. 6
  BY DEF ChoicesFor, DefsRefChoices
<1> QED
  BY <1>1 DEF Offered, Long

\* The long name of a definition is offered for no other one.
LEMMA LongNameIsItsOwn ==
    ASSUME NEW definitions, NEW met, WellDefined(definitions, met),
           NEW d \in DOMAIN definitions, NEW e \in DOMAIN definitions,
           Offered(Long(ChoicesFor(definitions, met), e), d, ChoicesFor(definitions, met))
    PROVE  d = e
<1> DEFINE choices == ChoicesFor(definitions, met)
<1>1. PICK i \in 1 .. 6 : choices[d][i] = choices[e][6]
  BY SixChoices DEF Offered, Long
<1>2. choices[e][6] = <<e.class.module, e.class.name, e.mode, Number(e.class, met)>>
  BY DEF ChoicesFor, DefsRefChoices, Name
<1>3. e.mode # "" /\ d = [class |-> d.class, mode |-> d.mode] /\ e = [class |-> e.class, mode |-> e.mode]
  BY WellDefinedParts
<1>4. CASE i \in 1 .. 4
  <2>1. choices[d][i][4] = 0
    <3>1. /\ choices[d][1][4] = 0 /\ choices[d][2][4] = 0
          /\ choices[d][3][4] = 0 /\ choices[d][4][4] = 0
      BY DEF ChoicesFor, DefsRefChoices, Name
    <3>2. i = 1 \/ i = 2 \/ i = 3 \/ i = 4
      BY <1>4
    <3> HIDE DEF choices
    <3> QED
      BY <3>1, <3>2
  <2>2. choices[e][6][4] = Number(e.class, met)
    BY <1>2
  <2> QED
    BY <1>1, <2>1, <2>2, NumberPositive
<1>5. CASE i = 5
  <2>1. choices[d][i][3] = ""
    BY <1>5 DEF ChoicesFor, DefsRefChoices, Name
  <2>2. choices[e][6][3] = e.mode
    BY <1>2
  <2> QED
    BY <1>1, <1>3, <2>1, <2>2
<1>6. CASE i = 6
  <2>1. choices[d][i] = <<d.class.module, d.class.name, d.mode, Number(d.class, met)>>
    BY <1>6 DEF ChoicesFor, DefsRefChoices, Name
  <2>2. /\ d.class.module = e.class.module /\ d.class.name = e.class.name
        /\ d.mode = e.mode /\ Number(d.class, met) = Number(e.class, met)
    <3> HIDE DEF choices
    <3> QED
      BY <1>1, <1>2, <2>1
  <2>3. d.class = e.class
    BY <2>2, NumbersDiffer
  <2> QED
    BY <1>3, <2>2, <2>3
<1>7. i \in 1 .. 4 \/ i = 5 \/ i = 6
  OBVIOUS
<1> QED
  BY <1>4, <1>5, <1>6, <1>7

-----------------------------------------------------------------------------
(* Names: simplified references.                                           *)

\* The name is offered for k, and all definitions that it is offered for look
\* the same.
Standing(name, k, choices, copied) ==
    /\ Offered(name, k, choices)
    /\ \A d, e \in DOMAIN choices :
          Offered(name, d, choices) /\ Offered(name, e, choices) => copied[d] = copied[e]

\* A reference that was simplified is a name that can stand for what the
\* definition refers to.
Simplified(definitions, choices, copied) ==
    /\ DOMAIN copied = DOMAIN definitions
    /\ \A d \in DOMAIN definitions :
          /\ copied[d] = [content |-> definitions[d].content, refs |-> copied[d].refs]
          /\ DOMAIN copied[d].refs = DOMAIN definitions[d].refs
          /\ \A i \in DOMAIN definitions[d].refs :
                Standing(copied[d].refs[i], definitions[d].refs[i], choices, copied)

\* Every definition is given a name that can stand for it.
Named(choices, copied, remapping) ==
    /\ DOMAIN remapping = DOMAIN choices
    /\ \A k \in DOMAIN choices : Standing(remapping[k], k, choices, copied)

\* The definition that a long name belongs to.
LEMMA LongNameLeadsBack ==
    ASSUME NEW definitions, NEW met, WellDefined(definitions, met), NEW k \in DOMAIN definitions, NEW name,
           Offered(name, k, ChoicesFor(definitions, met)), name \in DOMAIN LongNames(ChoicesFor(definitions, met))
    PROVE  LongNames(ChoicesFor(definitions, met))[name] = k
<1> DEFINE choices == ChoicesFor(definitions, met)
<1>1. DOMAIN choices = DOMAIN definitions
  BY DEF ChoicesFor
<1>2. \A d \in DOMAIN choices : Long(choices, d) = name => d = k
  BY <1>1, LongNameIsItsOwn
<1>3. \E d \in DOMAIN choices : Long(choices, d) = name
  BY DEF LongNames
<1>4. LongNames(choices)[name] = CHOOSE d \in DOMAIN choices : Long(choices, d) = name
  BY DEF LongNames
<1> QED
  BY <1>2, <1>3, <1>4

\* DefsRemapping() finds a name for everything, and one that can stand for it.
LEMMA ChosenNamesStand ==
    ASSUME NEW definitions, NEW met, WellDefined(definitions, met),
           NEW copied, DOMAIN copied = DOMAIN definitions
    PROVE  Named(ChoicesFor(definitions, met), copied, DefsRemapping(ChoicesFor(definitions, met), copied))
<1> DEFINE choices == ChoicesFor(definitions, met)
           remapping == DefsRemapping(choices, copied)
<1>1. DOMAIN choices = DOMAIN definitions /\ DOMAIN remapping = DOMAIN definitions
  BY DEF ChoicesFor, DefsRemapping
<1>2. SUFFICES ASSUME NEW k \in DOMAIN definitions PROVE Standing(remapping[k], k, choices, copied)
  BY <1>1 DEF Named
<1> DEFINE Free == {i \in DOMAIN choices[k] : Cardinality(SchemasFor(choices[k][i], choices, copied)) = 1}
<1>3. remapping[k] = choices[k][CHOOSE i \in Free : \A j \in Free : i <= j]
  BY <1>1, <1>2 DEF DefsRemapping
<1>4. 6 \in Free
  <2>1. 6 \in DOMAIN choices[k]
    BY SixChoices
  <2>2. SchemasFor(choices[k][6], choices, copied) = {copied[k]}
    <3>1. Offered(choices[k][6], k, choices)
      BY SixChoices DEF Long
    <3>2. \A d \in DOMAIN definitions : Offered(choices[k][6], d, choices) => d = k
      BY LongNameIsItsOwn DEF Long
    <3> HIDE DEF choices
    <3> QED
      BY <3>1, <3>2 DEF SchemasFor
  <2>3. Cardinality({copied[k]}) = 1
    BY FS_Singleton
  <2> QED
    BY <2>1, <2>2, <2>3
<1>5. Free \subseteq Nat
  BY SixChoices
<1>6. PICK i \in Free : i = CHOOSE j \in Free : \A m \in Free : j <= m
  <2> HIDE DEF Free
  <2>1. \E j \in Free : \A m \in Free : j <= m
    BY <1>4, <1>5, LeastNumber
  <2> QED
    BY <2>1
<1>7. IsFiniteSet(SchemasFor(choices[k][i], choices, copied))
  <2> DEFINE D == {d \in DOMAIN definitions : Offered(choices[k][i], d, choices)}
             f == [d \in D |-> copied[d]]
             T == {copied[d] : d \in D}
  <2>1. IsFiniteSet(DOMAIN definitions)
    BY Zenon DEF WellDefined
  <2>2. IsFiniteSet(D)
    BY <2>1, FS_Subset
  <2>3. f \in Surjection(D, T)
    BY DEF Surjection
  <2>4. T = SchemasFor(choices[k][i], choices, copied)
    BY DEF SchemasFor
  <2> HIDE DEF D, f, T
  <2> QED
    BY <2>2, <2>3, <2>4, FS_Surjection
<1>8. PICK schema : SchemasFor(choices[k][i], choices, copied) = {schema}
  BY <1>6, <1>7, FS_Singleton
<1>9. \A d \in DOMAIN definitions : Offered(choices[k][i], d, choices) => copied[d] = schema
  <2> HIDE DEF choices
  <2> QED
    BY <1>8 DEF SchemasFor
<1>10. Offered(choices[k][i], k, choices)
  BY <1>6 DEF Offered
<1> HIDE DEF choices, Free, remapping
<1> QED
  BY <1>1, <1>3, <1>6, <1>9, <1>10 DEF Standing

\* What replacing the references of a definition does.
LEMMA ReplacedReferences ==
    ASSUME NEW schema, schema = [content |-> schema.content, refs |-> schema.refs],
           NEW remapping, NEW long
    PROVE  Remapped(schema, remapping, long) =
              [content |-> schema.content,
               refs |-> [i \in DOMAIN schema.refs |->
                           IF schema.refs[i] \in DOMAIN long THEN remapping[long[schema.refs[i]]] ELSE schema.refs[i]]]
<1> DEFINE r == [i \in DOMAIN schema.refs |->
                    IF schema.refs[i] \in DOMAIN long THEN remapping[long[schema.refs[i]]] ELSE schema.refs[i]]
<1>1. Remapped(schema, remapping, long) = [schema EXCEPT !.refs = r]
  BY DEF Remapped
<1> HIDE DEF r
<1>2. [schema EXCEPT !.refs = r] = [content |-> schema.content, refs |-> r]
  OBVIOUS
<1> QED
  BY <1>1, <1>2 DEF r

\* Looking the same is kept when references are replaced, and so a name that can
\* stand for a definition still can.
LEMMA StandingIsKept ==
    ASSUME NEW choices, NEW copied, NEW after, NEW remapping, NEW long,
           \A d \in DOMAIN choices : after[d] = Remapped(copied[d], remapping, long),
           NEW k \in DOMAIN choices, NEW name, Standing(name, k, choices, copied)
    PROVE  Standing(name, k, choices, after)
BY DEF Standing

LEMMA ReplacingSimplifies ==
    ASSUME NEW definitions, NEW met, WellDefined(definitions, met), NEW copied, NEW remapping,
           Simplified(definitions, ChoicesFor(definitions, met), copied),
           Named(ChoicesFor(definitions, met), copied, remapping)
    PROVE  Simplified(definitions, ChoicesFor(definitions, met),
                      [d \in DOMAIN copied |-> Remapped(copied[d], remapping, LongNames(ChoicesFor(definitions, met)))])
<1> DEFINE choices == ChoicesFor(definitions, met)
           long == LongNames(choices)
           after == [d \in DOMAIN copied |-> Remapped(copied[d], remapping, long)]
<1>1. DOMAIN choices = DOMAIN definitions /\ DOMAIN copied = DOMAIN definitions
  BY DEF ChoicesFor, Simplified
<1>2. ASSUME NEW d \in DOMAIN definitions
      PROVE  /\ after[d] = [content |-> definitions[d].content, refs |-> after[d].refs]
             /\ DOMAIN after[d].refs = DOMAIN definitions[d].refs
             /\ \A i \in DOMAIN definitions[d].refs :
                   Standing(after[d].refs[i], definitions[d].refs[i], choices, after)
  <2>1. /\ copied[d] = [content |-> definitions[d].content, refs |-> copied[d].refs]
        /\ DOMAIN copied[d].refs = DOMAIN definitions[d].refs
        /\ \A i \in DOMAIN definitions[d].refs :
              Standing(copied[d].refs[i], definitions[d].refs[i], choices, copied)
    BY DEF Simplified
  <2> DEFINE refs == [i \in DOMAIN copied[d].refs |->
                        IF copied[d].refs[i] \in DOMAIN long THEN remapping[long[copied[d].refs[i]]]
                        ELSE copied[d].refs[i]]
  <2>2. copied[d] = [content |-> copied[d].content, refs |-> copied[d].refs]
        /\ copied[d].content = definitions[d].content
    BY <2>1
  <2>3. after[d] = [content |-> definitions[d].content, refs |-> refs]
    <3>1. after[d] = Remapped(copied[d], remapping, long)
      BY <1>1
    <3> HIDE DEF long, after
    <3> QED
      BY <2>2, <3>1, ReplacedReferences
  <2>4. \A x \in DOMAIN choices : after[x] = Remapped(copied[x], remapping, long)
    BY <1>1
  <2>5. ASSUME NEW i \in DOMAIN definitions[d].refs
        PROVE  Standing(refs[i], definitions[d].refs[i], choices, after)
    <3> DEFINE k == definitions[d].refs[i]
               name == copied[d].refs[i]
    <3>1. k \in DOMAIN definitions
      <4>1. definitions[d].refs \in Seq(DOMAIN definitions)
        BY Zenon DEF WellDefined
      <4> QED
        BY <4>1
    <3>2. Standing(name, k, choices, copied)
      BY <2>1
    <3>3. CASE name \in DOMAIN long
      <4>1. long[name] = k
        BY <3>1, <3>2, <3>3, LongNameLeadsBack DEF Standing
      <4>2. refs[i] = remapping[k]
        <5> HIDE DEF long
        <5> QED
          BY <2>1, <3>3, <4>1
      <4>3. Standing(remapping[k], k, choices, copied)
        BY <1>1, <3>1 DEF Named
      <4> HIDE DEF choices, long, after, refs
      <4>4. Standing(remapping[k], k, choices, after)
        BY <1>1, <2>4, <3>1, <4>3, StandingIsKept
      <4> QED
        BY <4>2, <4>4
    <3>4. CASE name \notin DOMAIN long
      <4>1. refs[i] = name
        <5> HIDE DEF long
        <5> QED
          BY <2>1, <3>4
      <4> HIDE DEF choices, long, after, refs
      <4>2. Standing(name, k, choices, after)
        BY <1>1, <2>4, <3>1, <3>2, StandingIsKept
      <4> QED
        BY <4>1, <4>2
    <3> QED
      BY <3>3, <3>4
  <2>6. DOMAIN refs = DOMAIN definitions[d].refs
    BY <2>1
  <2>7. after[d].refs = refs
    <3> HIDE DEF after, refs
    <3> QED
      BY <2>3
  <2> HIDE DEF after, refs
  <2> QED
    BY <2>3, <2>5, <2>6, <2>7
<1>3. DOMAIN after = DOMAIN definitions
  BY <1>1
<1> HIDE DEF after
<1> QED
  BY <1>2, <1>3 DEF Simplified, after

\* In the beginning every reference has its long name.
LEMMA RenamedIsSimplified ==
    ASSUME NEW definitions, NEW met, WellDefined(definitions, met)
    PROVE  Simplified(definitions, ChoicesFor(definitions, met), Renamed(definitions, ChoicesFor(definitions, met)))
<1> DEFINE choices == ChoicesFor(definitions, met)
           renamed == Renamed(definitions, choices)
<1>1. DOMAIN choices = DOMAIN definitions /\ DOMAIN renamed = DOMAIN definitions
  BY DEF ChoicesFor, Renamed
<1>2. ASSUME NEW d \in DOMAIN definitions
      PROVE  /\ renamed[d] = [content |-> definitions[d].content, refs |-> renamed[d].refs]
             /\ DOMAIN renamed[d].refs = DOMAIN definitions[d].refs
             /\ \A i \in DOMAIN definitions[d].refs : renamed[d].refs[i] = Long(choices, definitions[d].refs[i])
  BY DEF Renamed
<1>3. ASSUME NEW k \in DOMAIN definitions PROVE Standing(Long(choices, k), k, choices, renamed)
  <2>1. Offered(Long(choices, k), k, choices)
    BY SixChoices
  <2>2. \A d \in DOMAIN choices : Offered(Long(choices, k), d, choices) => d = k
    BY <1>1, LongNameIsItsOwn
  <2> HIDE DEF choices, renamed
  <2> QED
    BY <2>1, <2>2 DEF Standing
<1>4. \A d \in DOMAIN definitions : \A i \in DOMAIN definitions[d].refs : definitions[d].refs[i] \in DOMAIN definitions
  <2> TAKE d \in DOMAIN definitions
  <2>1. definitions[d].refs \in Seq(DOMAIN definitions)
    BY Zenon DEF WellDefined
  <2> QED
    BY <2>1
<1> HIDE DEF choices, renamed
<1> QED
  BY <1>1, <1>2, <1>3, <1>4 DEF Simplified, choices, renamed

-----------------------------------------------------------------------------
(* Names: what is printed.                                                 *)

\* There is a relation between definitions and printed ones in which those with
\* one name are, whose members differ in their references only, and that holds
\* of what is found behind these.
ReadAlike(definitions, remapping, printed) ==
    \E same \in SUBSET ((DOMAIN definitions) \X (DOMAIN definitions)) :
       /\ \A d, e \in DOMAIN definitions : remapping[d] = remapping[e] => <<d, e>> \in same
       /\ \A d, e \in DOMAIN definitions : <<d, e>> \in same =>
             /\ definitions[d].content = printed[e].content
             /\ Len(definitions[d].refs) = Len(printed[e].refs)
             /\ \A i \in DOMAIN definitions[d].refs : \A f \in DOMAIN definitions :
                   remapping[f] = printed[e].refs[i] => <<definitions[d].refs[i], f>> \in same

\* At the end each reference has the name of what it refers to.
LEMMA PrintedReferences ==
    ASSUME NEW definitions, NEW met, WellDefined(definitions, met), NEW remapping,
           NEW d \in DOMAIN definitions
    PROVE  Remapped(Renamed(definitions, ChoicesFor(definitions, met))[d], remapping,
                    LongNames(ChoicesFor(definitions, met))) =
              [content |-> definitions[d].content,
               refs |-> [i \in DOMAIN definitions[d].refs |-> remapping[definitions[d].refs[i]]]]
<1> DEFINE choices == ChoicesFor(definitions, met)
           long == LongNames(choices)
           schema == Renamed(definitions, choices)[d]
           refs == definitions[d].refs
<1>1. schema = [content |-> definitions[d].content, refs |-> [i \in DOMAIN refs |-> Long(choices, refs[i])]]
  BY DEF Renamed
<1>2. schema = [content |-> schema.content, refs |-> schema.refs] /\ schema.content = definitions[d].content
      /\ DOMAIN schema.refs = DOMAIN refs /\ \A i \in DOMAIN refs : schema.refs[i] = Long(choices, refs[i])
  <2> HIDE DEF choices, schema
  <2> QED
    BY <1>1
<1>3. ASSUME NEW i \in DOMAIN refs
      PROVE  schema.refs[i] \in DOMAIN long /\ long[schema.refs[i]] = refs[i]
  <2>1. refs[i] \in DOMAIN definitions
    <3>1. refs \in Seq(DOMAIN definitions)
      BY Zenon DEF WellDefined
    <3> QED
      BY <3>1
  <2>2. DOMAIN choices = DOMAIN definitions
    BY DEF ChoicesFor
  <2>3. schema.refs[i] = Long(choices, refs[i])
    BY <1>2
  <2>4. Long(choices, refs[i]) \in DOMAIN long
    BY <2>1, <2>2 DEF LongNames
  <2>5. Offered(Long(choices, refs[i]), refs[i], choices)
    BY <2>1, SixChoices
  <2>6. long[Long(choices, refs[i])] = refs[i]
    BY <2>1, <2>4, <2>5, LongNameLeadsBack
  <2> HIDE DEF choices, long, schema, refs
  <2> QED
    BY <2>3, <2>4, <2>6
<1>4. Remapped(schema, remapping, long) =
         [content |-> schema.content,
          refs |-> [i \in DOMAIN schema.refs |->
                      IF schema.refs[i] \in DOMAIN long THEN remapping[long[schema.refs[i]]] ELSE schema.refs[i]]]
  <2> HIDE DEF schema, long
  <2> QED
    BY <1>2, ReplacedReferences
<1> HIDE DEF schema, long, choices
<1>5. [i \in DOMAIN schema.refs |->
         IF schema.refs[i] \in DOMAIN long THEN remapping[long[schema.refs[i]]] ELSE schema.refs[i]]
      = [i \in DOMAIN refs |-> remapping[refs[i]]]
  BY <1>2, <1>3
<1> QED
  BY <1>2, <1>4, <1>5 DEF schema, long, choices

\* Definitions that look the same when the names are chosen are such a relation:
\* where they refer to different ones, these have been given one name before,
\* and look the same since.
LEMMA PrintedReadAlike ==
    ASSUME NEW definitions, NEW met, WellDefined(definitions, met), NEW copied, NEW remapping,
           Simplified(definitions, ChoicesFor(definitions, met), copied),
           Named(ChoicesFor(definitions, met), copied, remapping),
           NEW printed,
           printed = [d \in DOMAIN definitions |->
                        Remapped(Renamed(definitions, ChoicesFor(definitions, met))[d], remapping,
                                 LongNames(ChoicesFor(definitions, met)))]
    PROVE  ReadAlike(definitions, remapping, printed)
<1> DEFINE choices == ChoicesFor(definitions, met)
           same == {p \in (DOMAIN definitions) \X (DOMAIN definitions) : copied[p[1]] = copied[p[2]]}
<1>1. DOMAIN choices = DOMAIN definitions
  BY DEF ChoicesFor
<1>2. ASSUME NEW d \in DOMAIN definitions
      PROVE  /\ printed[d].content = definitions[d].content
             /\ DOMAIN printed[d].refs = DOMAIN definitions[d].refs
             /\ \A i \in DOMAIN definitions[d].refs : printed[d].refs[i] = remapping[definitions[d].refs[i]]
             /\ copied[d].content = definitions[d].content
             /\ DOMAIN copied[d].refs = DOMAIN definitions[d].refs
             /\ \E n \in Nat : DOMAIN definitions[d].refs = 1 .. n
             /\ \A i \in DOMAIN definitions[d].refs :
                   /\ definitions[d].refs[i] \in DOMAIN definitions
                   /\ Standing(copied[d].refs[i], definitions[d].refs[i], choices, copied)
  <2>1. printed[d] = [content |-> definitions[d].content,
                      refs |-> [i \in DOMAIN definitions[d].refs |-> remapping[definitions[d].refs[i]]]]
    BY PrintedReferences
  <2>2. /\ copied[d] = [content |-> definitions[d].content, refs |-> copied[d].refs]
        /\ DOMAIN copied[d].refs = DOMAIN definitions[d].refs
        /\ \A i \in DOMAIN definitions[d].refs :
              Standing(copied[d].refs[i], definitions[d].refs[i], choices, copied)
    BY DEF Simplified
  <2>3. definitions[d].refs \in Seq(DOMAIN definitions)
    BY Zenon DEF WellDefined
  <2>4. /\ \E n \in Nat : DOMAIN definitions[d].refs = 1 .. n
        /\ \A i \in DOMAIN definitions[d].refs : definitions[d].refs[i] \in DOMAIN definitions
    BY <2>3
  <2>5. copied[d].content = definitions[d].content
    BY <2>2
  <2> HIDE DEF choices
  <2> QED
    BY <2>1, <2>2, <2>4, <2>5
<1>3. ASSUME NEW k \in DOMAIN definitions, NEW l \in DOMAIN definitions, NEW name,
             Standing(name, k, choices, copied), Standing(name, l, choices, copied)
      PROVE  copied[k] = copied[l]
  <2> HIDE DEF choices
  <2> QED
    BY <1>1, <1>3 DEF Standing
<1>4. ASSUME NEW d \in DOMAIN definitions, NEW e \in DOMAIN definitions, remapping[d] = remapping[e]
      PROVE  copied[d] = copied[e]
  <2>1. Standing(remapping[d], d, choices, copied) /\ Standing(remapping[e], e, choices, copied)
    <3> HIDE DEF choices
    <3> QED
      BY <1>1 DEF Named, choices
  <2> HIDE DEF choices
  <2> QED
    BY <1>3, <1>4, <2>1
<1>5. ASSUME NEW d \in DOMAIN definitions, NEW e \in DOMAIN definitions, copied[d] = copied[e]
      PROVE  /\ definitions[d].content = printed[e].content
             /\ Len(definitions[d].refs) = Len(printed[e].refs)
             /\ \A i \in DOMAIN definitions[d].refs : \A f \in DOMAIN definitions :
                   remapping[f] = printed[e].refs[i] => copied[definitions[d].refs[i]] = copied[f]
  <2>1. DOMAIN definitions[d].refs = DOMAIN printed[e].refs
    BY <1>2, <1>5
  <2>2. Len(definitions[d].refs) = Len(printed[e].refs)
    BY <1>2, <2>1
  <2>3. ASSUME NEW i \in DOMAIN definitions[d].refs, NEW f \in DOMAIN definitions,
               remapping[f] = printed[e].refs[i]
        PROVE  copied[definitions[d].refs[i]] = copied[f]
    <3> DEFINE k == definitions[d].refs[i]
               l == definitions[e].refs[i]
    <3>1. i \in DOMAIN definitions[e].refs /\ k \in DOMAIN definitions /\ l \in DOMAIN definitions
      BY <1>2, <1>5
    <3>2. /\ Standing(copied[d].refs[i], k, choices, copied)
          /\ Standing(copied[d].refs[i], l, choices, copied)
      <4>1. Standing(copied[e].refs[i], l, choices, copied)
        BY <1>2, <3>1
      <4> QED
        BY <1>2, <1>5, <4>1
    <3>3. copied[k] = copied[l]
      BY <1>3, <3>1, <3>2
    <3>4. remapping[f] = remapping[l]
      BY <1>2, <2>3, <3>1
    <3>5. copied[f] = copied[l]
      BY <1>4, <3>1, <3>4
    <3> QED
      BY <3>3, <3>5
  <2> QED
    BY <1>2, <1>5, <2>2, <2>3
<1>6. same \in SUBSET ((DOMAIN definitions) \X (DOMAIN definitions))
  OBVIOUS
<1>7. \A d, e \in DOMAIN definitions : <<d, e>> \in same <=> copied[d] = copied[e]
  OBVIOUS
<1>8. \A d \in DOMAIN definitions : \A i \in DOMAIN definitions[d].refs :
         definitions[d].refs[i] \in DOMAIN definitions
  BY <1>2
<1> HIDE DEF same
<1> QED
  BY <1>4, <1>5, <1>6, <1>7, <1>8 DEF ReadAlike

\* What such a relation holds of reads the same down to any depth.
LEMMA AlikeReadAlike ==
    ASSUME ReadAlike(input.definitions, answer.remapping, answer.definitions),
           DOMAIN answer.remapping = DOMAIN input.definitions, Depth \in Nat
    PROVE  \A d, e \in DOMAIN input.definitions :
              answer.remapping[d] = answer.remapping[e] => <<d, e>> \in ReadsAs[Depth]
<1> DEFINE keys == DOMAIN input.definitions
           Rel == SUBSET (keys \X keys)
           Refs(d) == input.definitions[d].refs
           base == {p \in keys \X keys : Alike(p[1], p[2])}
           Refine(S) == {p \in S : \A i \in DOMAIN Refs(p[1]) : \A f \in Found(p[2], i) : <<Refs(p[1])[i], f>> \in S}
           Step == [k \in 1 .. Depth |-> [S \in Rel |-> Refine(S)]]
           Loop(g) == [n \in 0 .. Depth |-> IF n = 0 THEN base ELSE LET before == g[n - 1] IN Refine(before)]
<1>1. PICK same \in Rel :
         /\ \A d, e \in keys : answer.remapping[d] = answer.remapping[e] => <<d, e>> \in same
         /\ \A d, e \in keys : <<d, e>> \in same =>
               /\ input.definitions[d].content = answer.definitions[e].content
               /\ Len(input.definitions[d].refs) = Len(answer.definitions[e].refs)
               /\ \A i \in DOMAIN input.definitions[d].refs : \A f \in keys :
                     answer.remapping[f] = answer.definitions[e].refs[i] => <<input.definitions[d].refs[i], f>> \in same
  BY DEF ReadAlike
<1>2. same \subseteq base
  <2> SUFFICES ASSUME NEW p \in same PROVE p \in base
    OBVIOUS
  <2>1. p[1] \in keys /\ p[2] \in keys /\ p = <<p[1], p[2]>>
    OBVIOUS
  <2>2. <<p[1], p[2]>> \in same
    BY <2>1, Zenon
  <2>3. Alike(p[1], p[2])
    <3> HIDE DEF Rel
    <3> QED
      BY <1>1, <2>1, <2>2 DEF Alike
  <2> QED
    BY <2>1, <2>3
<1>3. ASSUME NEW S \in Rel, same \subseteq S PROVE same \subseteq Refine(S)
  <2> SUFFICES ASSUME NEW p \in same, NEW i \in DOMAIN Refs(p[1]), NEW f \in Found(p[2], i)
               PROVE  <<Refs(p[1])[i], f>> \in S
    BY <1>3
  <2>1. p[1] \in keys /\ p[2] \in keys /\ p = <<p[1], p[2]>>
    OBVIOUS
  <2>2. f \in keys /\ answer.remapping[f] = answer.definitions[p[2]].refs[i]
    BY DEF Found
  <2>3. <<p[1], p[2]>> \in same
    BY <2>1, Zenon
  <2>4. <<input.definitions[p[1]].refs[i], f>> \in same
    <3> HIDE DEF Rel
    <3> QED
      BY <1>1, <2>1, <2>2, <2>3
  <2> QED
    BY <1>3, <2>4
<1>4. base \in Rel /\ \A S \in Rel : Refine(S) \in Rel
  OBVIOUS
<1>5. Step \in [1 .. Depth -> [Rel -> Rel]]
  <2> HIDE DEF Rel, Refine
  <2> QED
    BY <1>4
<1>6. PICK f \in [0 .. Depth -> Rel] : f[0] = base /\ \A k \in 1 .. Depth : f[k] = Step[k][f[k - 1]]
  <2>1. base \in Rel
    BY <1>4
  <2> HIDE DEF Rel, base, Step
  <2>2. Solutions(Depth, Rel, base, Step) # {}
    BY <1>5, <2>1, SolutionExists
  <2> QED
    BY <2>2 DEF Solutions
<1>7. f = Loop(f)
  <2>1. ASSUME NEW n \in 0 .. Depth PROVE f[n] = IF n = 0 THEN base ELSE Refine(f[n - 1])
    <3>1. CASE n = 0
      BY <1>6, <3>1
    <3>2. CASE n # 0
      <4>1. n \in 1 .. Depth /\ n - 1 \in 0 .. Depth
        BY <3>2
      <4>2. f[n - 1] \in Rel
        BY <1>6, <4>1
      <4>3. Step[n][f[n - 1]] = Refine(f[n - 1])
        <5> HIDE DEF Rel, Refine
        <5> QED
          BY <4>1, <4>2
      <4> QED
        BY <1>6, <3>2, <4>1, <4>3
    <3> QED
      BY <3>1, <3>2
  <2> HIDE DEF Rel, base, Step, Refine
  <2>2. f = [n \in 0 .. Depth |-> f[n]]
    BY <1>6
  <2> QED
    BY <2>1, <2>2, Zenon
<1> DEFINE g == CHOOSE h : h = Loop(h)
<1>8. g = Loop(g)
  <2> HIDE DEF Loop
  <2> QED
    BY <1>7
<1>9. ReadsAs[Depth] = g[Depth]
  BY DEF ReadsAs
<1> HIDE DEF g
<1>10. \A n \in 0 .. Depth : g[n] = IF n = 0 THEN base ELSE Refine(g[n - 1])
  <2> HIDE DEF base, Refine
  <2> QED
    BY <1>8
<1> DEFINE T == {n \in Nat : n <= Depth => g[n] \in Rel /\ same \subseteq g[n]}
<1>11. 0 \in T
  <2> HIDE DEF Rel, base, Refine
  <2> QED
    BY <1>2, <1>4, <1>10
<1>12. ASSUME NEW n \in Nat, n \in T PROVE n + 1 \in T
  <2> SUFFICES ASSUME n + 1 <= Depth PROVE g[n + 1] \in Rel /\ same \subseteq g[n + 1]
    OBVIOUS
  <2>1. n + 1 \in 0 .. Depth /\ n + 1 # 0 /\ (n + 1) - 1 = n /\ n <= Depth
    OBVIOUS
  <2>2. g[n] \in Rel /\ same \subseteq g[n]
    BY <1>12, <2>1
  <2>3. g[n + 1] = Refine(g[n])
    <3> HIDE DEF base, Refine
    <3> QED
      BY <1>10, <2>1
  <2> HIDE DEF Rel, Refine
  <2> QED
    BY <1>3, <1>4, <2>2, <2>3
<1>13. Depth \in T
  <2> HIDE DEF T
  <2> QED
    BY <1>11, <1>12, InductionOnNat
<1>14. same \subseteq ReadsAs[Depth]
  BY <1>9, <1>13
<1> HIDE DEF Rel
<1> QED
  BY <1>1, <1>14

-----------------------------------------------------------------------------
(* Names: the invariant of the iterations.                                 *)

\* While names are picked: references were only simplified to names that can
\* stand for what the definition refers to, and names that were picked can
\* stand for theirs.
NamingFits ==
    LET choices == ChoicesFor(input.definitions, input.met)
    IN  /\ answer = [type |-> answer.type, iteration |-> answer.iteration, choices |-> choices,
                     definitions |-> Renamed(input.definitions, choices), copied |-> answer.copied,
                     long |-> LongNames(choices), before |-> answer.before, remapping |-> answer.remapping]
        /\ Simplified(input.definitions, choices, answer.copied)
        /\ answer.type = "replace" => Named(choices, answer.copied, answer.remapping)

NamesInv ==
    /\ input \in NameInputs
    /\ \/ answer = Pending
       \/ answer.type \in {"pick", "replace"} /\ NamingFits
       \/ /\ answer.type = "names"
          /\ DOMAIN answer.remapping = DOMAIN input.definitions
          /\ ReadAlike(input.definitions, answer.remapping, answer.definitions)
       \/ answer = [type |-> "failed"]

LEMMA NamesInputFits ==
    ASSUME input \in NameInputs
    PROVE  WellDefined(input.definitions, input.met) /\ input.algorithm = "names"
BY NamingAssumption

\* The record that is passed from step to step.
NamingFields == {"type", "iteration", "choices", "definitions", "copied", "long", "before", "remapping"}

LEMMA PickedRecord ==
    ASSUME NEW n, DOMAIN n = NamingFields, NEW remapping
    PROVE  [n EXCEPT !.type = "replace", !.before = n.remapping, !.remapping = remapping] =
              [type |-> "replace", iteration |-> n.iteration, choices |-> n.choices,
               definitions |-> n.definitions, copied |-> n.copied, long |-> n.long,
               before |-> n.remapping, remapping |-> remapping]
<1> DEFINE updated == [n EXCEPT !.type = "replace", !.before = n.remapping, !.remapping = remapping]
           record == [type |-> "replace", iteration |-> n.iteration, choices |-> n.choices,
               definitions |-> n.definitions, copied |-> n.copied, long |-> n.long,
               before |-> n.remapping, remapping |-> remapping]
           Value(x) == IF x = "type" THEN "replace" ELSE IF x = "before" THEN n.remapping ELSE
                       IF x = "remapping" THEN remapping ELSE n[x]
<1>1. updated = [x \in NamingFields |-> Value(x)]
  OBVIOUS
<1>2. record = [x \in NamingFields |-> record[x]]
  BY DEF NamingFields
<1>3. /\ record.type = Value("type") /\ record.iteration = Value("iteration")
      /\ record.choices = Value("choices") /\ record.definitions = Value("definitions")
  OBVIOUS
<1>4. /\ record.copied = Value("copied") /\ record.long = Value("long")
      /\ record.before = Value("before") /\ record.remapping = Value("remapping")
  OBVIOUS
<1> HIDE DEF record, updated
<1>5. \A x \in NamingFields : record[x] = Value(x)
  BY <1>3, <1>4 DEF NamingFields
<1>6. updated = record
  BY <1>1, <1>2, <1>5
<1> QED
  BY <1>6 DEF record, updated

LEMMA ReplacedRecord ==
    ASSUME NEW n, DOMAIN n = NamingFields, NEW iteration, NEW copied
    PROVE  [n EXCEPT !.type = "pick", !.iteration = iteration, !.copied = copied] =
              [type |-> "pick", iteration |-> iteration, choices |-> n.choices,
               definitions |-> n.definitions, copied |-> copied, long |-> n.long,
               before |-> n.before, remapping |-> n.remapping]
<1> DEFINE updated == [n EXCEPT !.type = "pick", !.iteration = iteration, !.copied = copied]
           record == [type |-> "pick", iteration |-> iteration, choices |-> n.choices,
               definitions |-> n.definitions, copied |-> copied, long |-> n.long,
               before |-> n.before, remapping |-> n.remapping]
           Value(x) == IF x = "type" THEN "pick" ELSE IF x = "iteration" THEN iteration ELSE
                       IF x = "copied" THEN copied ELSE n[x]
<1>1. updated = [x \in NamingFields |-> Value(x)]
  OBVIOUS
<1>2. record = [x \in NamingFields |-> record[x]]
  BY DEF NamingFields
<1>3. /\ record.type = Value("type") /\ record.iteration = Value("iteration")
      /\ record.choices = Value("choices") /\ record.definitions = Value("definitions")
  OBVIOUS
<1>4. /\ record.copied = Value("copied") /\ record.long = Value("long")
      /\ record.before = Value("before") /\ record.remapping = Value("remapping")
  OBVIOUS
<1> HIDE DEF record, updated
<1>5. \A x \in NamingFields : record[x] = Value(x)
  BY <1>3, <1>4 DEF NamingFields
<1>6. updated = record
  BY <1>1, <1>2, <1>5
<1> QED
  BY <1>6 DEF record, updated

LEMMA NamesInvBegin == NamesInv /\ BeginNames => NamesInv'
<1> SUFFICES ASSUME NamesInv, BeginNames PROVE NamesInv'
  OBVIOUS
<1> DEFINE definitions == input.definitions
           choices == ChoicesFor(input.definitions, input.met)
           renamed == Renamed(definitions, choices)
<1>1. WellDefined(input.definitions, input.met)
  BY NamesInputFits DEF NamesInv
<1>2. input' = input /\ answer' = StartNaming(input.definitions, input.met)
  BY DEF BeginNames
<1>3. answer' = [type |-> "pick", iteration |-> 1, choices |-> choices, definitions |-> renamed, copied |-> renamed,
                 long |-> LongNames(choices), before |-> <<>>,
                 remapping |-> [d \in DOMAIN definitions |-> Long(choices, d)]]
  BY <1>2, Zenon DEF StartNaming
<1>4. Simplified(definitions, choices, renamed)
  BY <1>1, RenamedIsSimplified
<1>5. answer'.type = "pick"
  BY <1>3
<1>6. NamingFits'
  <2> HIDE DEF renamed, choices
  <2>1. /\ answer' = [type |-> answer'.type, iteration |-> answer'.iteration, choices |-> choices,
                      definitions |-> renamed, copied |-> answer'.copied,
                      long |-> LongNames(choices), before |-> answer'.before, remapping |-> answer'.remapping]
        /\ answer'.copied = renamed
    BY <1>3
  <2> QED
    BY <1>2, <1>4, <1>5, <2>1 DEF NamingFits, renamed, choices
<1> QED
  BY <1>2, <1>5, <1>6 DEF NamesInv

LEMMA NamesInvPick == NamesInv /\ PickAgain => NamesInv'
<1> SUFFICES ASSUME NamesInv, PickAgain PROVE NamesInv'
  OBVIOUS
<1> DEFINE choices == ChoicesFor(input.definitions, input.met)
           renamed == Renamed(input.definitions, choices)
           names == DefsRemapping(choices, answer.copied)
<1>1. WellDefined(input.definitions, input.met)
  BY NamesInputFits DEF NamesInv
<1>2. NamingFits
  BY DEF NamesInv, PickAgain, Pending
<1>3. /\ input' = input
      /\ answer' = [answer EXCEPT !.type = "replace", !.before = answer.remapping,
                                  !.remapping = DefsRemapping(answer.choices, answer.copied)]
  BY DEF PickAgain, PickNames
<1>4. /\ answer = [type |-> answer.type, iteration |-> answer.iteration, choices |-> choices,
                   definitions |-> renamed, copied |-> answer.copied,
                   long |-> LongNames(choices), before |-> answer.before, remapping |-> answer.remapping]
      /\ answer.choices = choices /\ answer.definitions = renamed /\ answer.long = LongNames(choices)
  BY <1>2 DEF NamingFits
<1>5. Simplified(input.definitions, choices, answer.copied)
  BY <1>2 DEF NamingFits
<1>6. DOMAIN answer.copied = DOMAIN input.definitions
  BY <1>5 DEF Simplified
<1>7. Named(choices, answer.copied, names)
  BY <1>1, <1>6, ChosenNamesStand
<1>8. answer' = [type |-> "replace", iteration |-> answer.iteration, choices |-> choices,
                 definitions |-> renamed, copied |-> answer.copied,
                 long |-> LongNames(choices), before |-> answer.remapping, remapping |-> names]
  <2> HIDE DEF choices, renamed, names
  <2>1. DOMAIN answer = NamingFields
    BY <1>4 DEF NamingFields
  <2>2. answer' = [answer EXCEPT !.type = "replace", !.before = answer.remapping, !.remapping = names]
    BY <1>3, <1>4 DEF names
  <2> QED
    BY <1>4, <2>1, <2>2, PickedRecord
<1>9. NamingFits'
  <2> HIDE DEF renamed, choices, names
  <2>1. /\ answer' = [type |-> answer'.type, iteration |-> answer'.iteration, choices |-> choices,
                      definitions |-> renamed, copied |-> answer'.copied,
                      long |-> LongNames(choices), before |-> answer'.before, remapping |-> answer'.remapping]
        /\ answer'.copied = answer.copied /\ answer'.remapping = names
    BY <1>8
  <2> QED
    BY <1>3, <1>5, <1>7, <2>1 DEF NamingFits, renamed, choices
<1>10. answer'.type = "replace"
  BY <1>8
<1> QED
  BY <1>3, <1>9, <1>10 DEF NamesInv

LEMMA NamesInvReplace == NamesInv /\ ReplaceAgain => NamesInv'
<1> SUFFICES ASSUME NamesInv, ReplaceAgain PROVE NamesInv'
  OBVIOUS
<1> DEFINE choices == ChoicesFor(input.definitions, input.met)
           renamed == Renamed(input.definitions, choices)
           after == [d \in DOMAIN answer.copied |-> Remapped(answer.copied[d], answer.remapping, LongNames(choices))]
           printed == [d \in DOMAIN renamed |-> Remapped(renamed[d], answer.remapping, LongNames(choices))]
<1>1. WellDefined(input.definitions, input.met)
  BY NamesInputFits DEF NamesInv
<1>2. NamingFits /\ answer.type = "replace"
  BY DEF NamesInv, ReplaceAgain, Pending
<1>3. input' = input /\ answer' = ReplaceRefs(answer)
  BY DEF ReplaceAgain
<1>4. answer.choices = choices /\ answer.long = LongNames(choices) /\ answer.definitions = renamed
  BY <1>2 DEF NamingFits
<1>5. /\ Simplified(input.definitions, choices, answer.copied)
      /\ Named(choices, answer.copied, answer.remapping)
  BY <1>2 DEF NamingFits
<1>6. \/ answer' = [type |-> "names", choices |-> choices, remapping |-> answer.remapping, definitions |-> printed]
      \/ answer' = [type |-> "failed"]
      \/ answer' = [answer EXCEPT !.type = "pick", !.iteration = @ + 1, !.copied = after]
  <2> HIDE DEF choices, renamed
  <2> QED
    BY <1>3, <1>4, Zenon DEF ReplaceRefs
<1>7. CASE answer' = [type |-> "names", choices |-> choices, remapping |-> answer.remapping, definitions |-> printed]
  <2>1. printed = [d \in DOMAIN input.definitions |->
                      Remapped(Renamed(input.definitions, choices)[d], answer.remapping, LongNames(choices))]
    BY DEF Renamed
  <2>2. ReadAlike(input.definitions, answer.remapping, printed)
    BY <1>1, <1>5, <2>1, PrintedReadAlike
  <2>3. DOMAIN answer.remapping = DOMAIN input.definitions
    BY <1>5 DEF Named, ChoicesFor
  <2> HIDE DEF printed, choices
  <2>4. answer'.type = "names" /\ answer'.remapping = answer.remapping /\ answer'.definitions = printed
    BY <1>7
  <2> QED
    BY <1>3, <2>2, <2>3, <2>4 DEF NamesInv
<1>8. CASE answer' = [type |-> "failed"]
  BY <1>3, <1>8 DEF NamesInv
<1>9. CASE answer' = [answer EXCEPT !.type = "pick", !.iteration = @ + 1, !.copied = after]
  <2>1. Simplified(input.definitions, choices, after)
    BY <1>1, <1>5, ReplacingSimplifies
  <2> HIDE DEF after, choices
  <2>2. answer = [type |-> answer.type, iteration |-> answer.iteration, choices |-> choices,
                   definitions |-> renamed, copied |-> answer.copied,
                   long |-> LongNames(choices), before |-> answer.before, remapping |-> answer.remapping]
    BY <1>2 DEF NamingFits, choices
  <2>3. answer' = [type |-> "pick", iteration |-> answer.iteration + 1, choices |-> choices,
                   definitions |-> renamed, copied |-> after,
                   long |-> LongNames(choices), before |-> answer.before, remapping |-> answer.remapping]
    <3> DEFINE next == answer.iteration + 1
    <3>1. DOMAIN answer = NamingFields
      BY <2>2 DEF NamingFields
    <3>2. answer' = [answer EXCEPT !.type = "pick", !.iteration = next, !.copied = after]
      BY <1>9
    <3> HIDE DEF renamed, next
    <3>3. answer' = [type |-> "pick", iteration |-> next, choices |-> answer.choices,
                     definitions |-> answer.definitions, copied |-> after,
                     long |-> answer.long, before |-> answer.before, remapping |-> answer.remapping]
      BY <3>1, <3>2, ReplacedRecord
    <3>4. answer' = [type |-> "pick", iteration |-> next, choices |-> choices,
                     definitions |-> renamed, copied |-> after,
                     long |-> LongNames(choices), before |-> answer.before, remapping |-> answer.remapping]
      BY <1>4, <3>3
    <3> QED
      BY <3>4 DEF next
  <2>4. /\ answer' = [type |-> answer'.type, iteration |-> answer'.iteration, choices |-> choices,
                      definitions |-> renamed, copied |-> answer'.copied,
                      long |-> LongNames(choices), before |-> answer'.before, remapping |-> answer'.remapping]
        /\ answer'.type = "pick" /\ answer'.copied = after
    <3> HIDE DEF renamed
    <3> QED
      BY <2>3
  <2>5. NamingFits'
    BY <1>3, <2>1, <2>4 DEF NamingFits, choices
  <2> QED
    BY <1>3, <2>4, <2>5 DEF NamesInv
<1> QED
  BY <1>6, <1>7, <1>8, <1>9

\* While names are picked for the definitions of any JSON schema, references
\* are only replaced by names that stand for what they refer to, and when the
\* names are final, definitions with one name read the same (DefsRemapping and
\* the loop of from_prioritized_choices()).
THEOREM NamesInvHolds == NamesSpec => []NamesInv
<1>1. NamesInit => NamesInv
  BY DEF NamesInit, NamesInv
<1>2. NamesInv /\ [NamesNext]_vars => NamesInv'
  <2> SUFFICES ASSUME NamesInv, [NamesNext]_vars PROVE NamesInv'
    OBVIOUS
  <2>1. CASE BeginNames
    BY <2>1, NamesInvBegin
  <2>2. CASE PickAgain
    BY <2>2, NamesInvPick
  <2>3. CASE ReplaceAgain
    BY <2>3, NamesInvReplace
  <2>4. CASE UNCHANGED vars
    BY <2>4 DEF vars, NamesInv, NamingFits
  <2> QED
    BY <2>1, <2>2, <2>3, <2>4 DEF NamesNext
<1> QED
  BY <1>1, <1>2, PTL DEF NamesSpec

\* Whichever definition of a name is printed, and however references were
\* simplified, what is found behind them to any depth is what the definition
\* says (from_prioritized_choices() and _DefinitionsRemapping).
THEOREM NamesReadUnambiguously == NamesSpec => []NamesAreUnambiguous
<1>1. NamesInv => NamesAreUnambiguous
  <2> SUFFICES ASSUME NamesInv, answer.type = "names" PROVE NamesAreUnambiguous
    BY DEF NamesAreUnambiguous
  <2>1. /\ DOMAIN answer.remapping = DOMAIN input.definitions
        /\ ReadAlike(input.definitions, answer.remapping, answer.definitions)
    BY DEF NamesInv, Pending
  <2>2. Depth \in Nat
    BY NamingAssumption
  <2> QED
    BY <2>1, <2>2, AlikeReadAlike DEF NamesAreUnambiguous
<1> QED
  BY <1>1, NamesInvHolds, PTL

-----------------------------------------------------------------------------
(* Fields: what is made of an annotation and of what is assigned.          *)

InfoFields == {"set", "metadata", "complete", "annotation", "assigned", "attr"}

IsInfo(info) ==
    /\ DOMAIN info = InfoFields
    /\ info.complete \in BOOLEAN
    /\ info.attr = [k \in Attributes |-> info.attr[k]]

LEMMA NoFieldIsNoInfo == ASSUME NEW info, IsInfo(info) PROVE info # NoField
<1>1. DOMAIN NoField = {"type"}
  BY DEF NoField
<1> QED
  BY <1>1 DEF IsInfo, InfoFields

LEMMA FieldInfoParts ==
    ASSUME NEW set, NEW metadata
    PROVE  /\ IsInfo(FieldInfo(set, metadata)) /\ FieldInfo(set, metadata).complete = TRUE
           /\ FieldInfo(set, metadata).attr["description"] =
                 IF "description" \in DOMAIN set THEN set["description"] ELSE None
<1> DEFINE Given(k) == IF k \in DOMAIN set THEN set[k] ELSE None
           aliased == \E k \in Aliases : Given(k) # None
           priority == IF ~aliased THEN None ELSE IF Given("alias_priority") = None THEN 2 ELSE Given("alias_priority")
           attr == [k \in Attributes |-> IF k = "alias_priority" THEN priority ELSE Given(k)]
<1>1. FieldInfo(set, metadata) = [set |-> set, metadata |-> metadata, complete |-> TRUE, annotation |-> None,
                                  assigned |-> None, attr |-> attr]
  BY DEF FieldInfo
<1>2. attr["description"] = Given("description")
  BY DEF Attributes
<1>3. attr = [k \in Attributes |-> attr[k]]
  OBVIOUS
<1> HIDE DEF attr
<1> QED
  BY <1>1, <1>2, <1>3 DEF IsInfo, InfoFields

\* The description is the last one that is written, unless it is overridden.
LEMMA ConstructParts ==
    ASSUME NEW metas, NEW overrides
    PROVE  /\ IsInfo(Construct(metas, overrides)) /\ Construct(metas, overrides).complete = TRUE
           /\ "description" \notin DOMAIN overrides =>
                 Construct(metas, overrides).attr["description"] =
                    IF Writers("description", metas) # {}
                    THEN metas[Max(Writers("description", metas))].set["description"] ELSE None
<1> DEFINE written == [k \in {a \in Attributes : Writers(a, metas) # {}} |-> metas[Max(Writers(k, metas))].set[k]]
           merged == DictUpdate(written, overrides)
           metadata == FlattenSeq([i \in DOMAIN metas |-> metas[i].metadata])
<1>1. Construct(metas, overrides) = FieldInfo(merged, metadata)
  BY DEF Construct
<1>2. "description" \in DOMAIN written <=> Writers("description", metas) # {}
  BY DEF Attributes
<1>3. Writers("description", metas) # {} =>
         written["description"] = metas[Max(Writers("description", metas))].set["description"]
  BY <1>2
<1>4. "description" \notin DOMAIN overrides =>
         /\ "description" \in DOMAIN merged <=> "description" \in DOMAIN written
         /\ "description" \in DOMAIN merged => merged["description"] = written["description"]
  <2> HIDE DEF written
  <2> QED
    BY DEF DictUpdate
<1> HIDE DEF written, merged, metadata
<1> QED
  BY <1>1, <1>2, <1>3, <1>4, FieldInfoParts

LEMMA MakeIsInfo ==
    ASSUME NEW annotation, NEW assigned
    PROVE  IsInfo(Make(annotation, assigned)) /\ Make(annotation, assigned).complete = TRUE
BY ConstructParts DEF Make, FromAnnotation, FromAnnotatedAttribute

\* A description that is assigned is that of the field, whatever is annotated.
LEMMA AssignedDescription ==
    ASSUME NEW annotation, annotation \in Seq({annotation[i] : i \in DOMAIN annotation}), NEW assigned,
           \/ assigned = None
           \/ assigned.meta = "value"
           \/ assigned = [meta |-> "field", set |-> assigned.set, metadata |-> assigned.metadata],
           Make(<<>>, assigned).attr["description"] # None
    PROVE  Make(annotation, assigned).attr["description"] = Make(<<>>, assigned).attr["description"]
<1> DEFINE last == [assigned EXCEPT !.metadata = <<>>]
           first == Field(<<>>, assigned.metadata)
           Metas(a) == <<first>> \o a \o <<last>>
<1>1. Writers("description", <<>>) = {}
  BY DEF Writers
<1>2. assigned # None /\ assigned.meta = "field"
  <2>1. ASSUME NEW overrides, "description" \notin DOMAIN overrides
        PROVE  Construct(<<>>, overrides).attr["description"] = None
    BY <1>1, <2>1, ConstructParts
  <2>2. "description" \notin DOMAIN <<>> /\ "description" \notin DOMAIN [default |-> assigned.value]
    OBVIOUS
  <2>3. assigned # None
    BY <2>1, <2>2 DEF Make, FromAnnotation
  <2>4. assigned.meta = "field"
    BY <2>1, <2>2, <2>3 DEF Make, FromAnnotatedAttribute
  <2> QED
    BY <2>3, <2>4
<1>3. last.meta = "field" /\ last.set = assigned.set
  BY <1>2
<1>4. \A a : Make(a, assigned) = Construct(Metas(a), <<>>)
  BY <1>2 DEF Make, FromAnnotatedAttribute
<1> HIDE DEF last, first
<1>5. ASSUME NEW S, NEW a \in Seq(S)
      PROVE  /\ Len(Metas(a)) = Len(a) + 2 /\ DOMAIN Metas(a) = 1 .. Len(a) + 2
             /\ Metas(a)[Len(a) + 2] = last /\ Metas(a)[1] = first
             /\ \A i \in 1 .. Len(a) : Metas(a)[i + 1] = a[i]
  <2> DEFINE T == S \cup {first, last}
  <2>1. a \in Seq(T) /\ <<first>> \in Seq(T) /\ <<last>> \in Seq(T) /\ Len(a) \in Nat
    OBVIOUS
  <2> HIDE DEF T
  <2> DEFINE front == <<first>> \o a
  <2>2. front \in Seq(T) /\ Len(front) = Len(a) + 1
    BY <2>1
  <2>3. front[1] = first /\ \A i \in 1 .. Len(a) : front[i + 1] = a[i]
    BY <2>1
  <2> HIDE DEF front
  <2>4. Len(front \o <<last>>) = Len(a) + 2 /\ DOMAIN (front \o <<last>>) = 1 .. Len(a) + 2
    BY <2>1, <2>2
  <2>5. (front \o <<last>>)[Len(a) + 2] = last
    BY <2>1, <2>2
  <2>6. /\ (front \o <<last>>)[1] = front[1]
        /\ \A i \in 1 .. Len(a) : (front \o <<last>>)[i + 1] = front[i + 1]
    BY <2>1, <2>2
  <2> QED
    BY <2>3, <2>4, <2>5, <2>6 DEF front
<1> HIDE DEF Metas
<1>6. ASSUME NEW S, NEW a \in Seq(S), "description" \in DOMAIN assigned.set
      PROVE  Make(a, assigned).attr["description"] = assigned.set["description"]
  <2> DEFINE W == Writers("description", Metas(a))
             n == Len(a) + 2
  <2>1. n \in Nat /\ W \subseteq 1 .. n /\ n \in W
    BY <1>3, <1>5, <1>6 DEF Writers
  <2>2. Max(W) = n
    <3> HIDE DEF W, n
    <3>1. \A y \in W : n >= y
      BY <2>1
    <3>2. \A x \in W : (\A y \in W : x >= y) => x = n
      BY <2>1
    <3> QED
      BY <2>1, <3>1, <3>2 DEF Max
  <2>3. Metas(a)[Max(W)].set["description"] = assigned.set["description"]
    BY <1>3, <1>5, <2>2
  <2>4. "description" \notin DOMAIN <<>>
    OBVIOUS
  <2>5. Construct(Metas(a), <<>>).attr["description"] = Metas(a)[Max(W)].set["description"]
    BY <2>1, <2>4, ConstructParts
  <2> QED
    BY <1>4, <2>3, <2>5
<1>7. "description" \in DOMAIN assigned.set
  <2> SUFFICES ASSUME "description" \notin DOMAIN assigned.set PROVE FALSE
    OBVIOUS
  <2> DEFINE none == <<>>
  <2>1. none \in Seq({}) /\ Len(none) = 0
    OBVIOUS
  <2> HIDE DEF none
  <2>2. Len(none) + 2 = 2
    BY <2>1
  <2>3. DOMAIN Metas(none) = 1 .. 2 /\ Metas(none)[2] = last /\ Metas(none)[1] = first
    <3>1. /\ DOMAIN Metas(none) = 1 .. Len(none) + 2
          /\ Metas(none)[Len(none) + 2] = last /\ Metas(none)[1] = first
      BY Zenon, <1>5, <2>1
    <3> QED
      BY <2>2, <3>1
  <2>4. "description" \notin DOMAIN first.set
    BY DEF first, Field
  <2>5. Writers("description", Metas(none)) = {}
    BY <1>3, <2>3, <2>4 DEF Writers
  <2>6. "description" \notin DOMAIN <<>>
    OBVIOUS
  <2>7. Construct(Metas(none), <<>>).attr["description"] = None
    BY <2>5, <2>6, ConstructParts
  <2> QED
    BY <1>4, <2>7 DEF none
<1> QED
  <2>1. <<>> \in Seq({})
    OBVIOUS
  <2> QED
    BY <1>6, <1>7, <2>1

-----------------------------------------------------------------------------
(* Fields: what a configuration makes of the attributes.                   *)

Configured(config, attr) ==
    ApplyAliasGenerator(config.aliasGenerator, ApplyTitleGenerator(config.title, attr))

\* Each attribute by itself.
GeneratedAlias(generator, k) == IF k = "alias" THEN generator[k] ELSE FirstNotNone(generator[k], generator["alias"])

ConfiguredAlias(generator, low, k, value) ==
    IF generator # None /\ (low \/ value = None) THEN GeneratedAlias(generator, k) ELSE value

ConfiguredAttribute(config, low, k, value) ==
    IF k \in Aliases THEN ConfiguredAlias(config.aliasGenerator, low, k, value)
    ELSE IF k = "alias_priority" THEN (IF config.aliasGenerator # None /\ low THEN 1 ELSE value)
    ELSE IF k = "title" THEN (IF config.title # None /\ value = None THEN config.title ELSE value)
    ELSE value

LowPriority(attr) == attr["alias_priority"] \in {None, 1}

LEMMA TitledAt ==
    ASSUME NEW title, NEW attr, attr = [k \in Attributes |-> attr[k]]
    PROVE  ApplyTitleGenerator(title, attr) =
              [k \in Attributes |-> IF k = "title" /\ title # None /\ attr[k] = None THEN title ELSE attr[k]]
BY DEF ApplyTitleGenerator, Attributes

LEMMA AliasedAt ==
    ASSUME NEW generator, NEW attr, attr = [k \in Attributes |-> attr[k]]
    PROVE  ApplyAliasGenerator(generator, attr) =
              [k \in Attributes |->
                 IF k \in Aliases THEN ConfiguredAlias(generator, LowPriority(attr), k, attr[k])
                 ELSE IF k = "alias_priority" /\ generator # None /\ LowPriority(attr) THEN 1 ELSE attr[k]]
<1> DEFINE low == LowPriority(attr)
           Generated(k) == IF k = "alias" THEN generator[k] ELSE FirstNotNone(generator[k], generator["alias"])
           Value(k) == IF k \in Aliases THEN ConfiguredAlias(generator, low, k, attr[k])
                       ELSE IF k = "alias_priority" /\ generator # None /\ low THEN 1 ELSE attr[k]
<1>1. CASE generator = None \/ (~low /\ \A k \in Aliases : attr[k] # None)
  <2>1. ApplyAliasGenerator(generator, attr) = attr
    BY <1>1 DEF ApplyAliasGenerator, LowPriority
  <2>2. \A k \in Attributes : Value(k) = attr[k]
    BY <1>1 DEF ConfiguredAlias
  <2> HIDE DEF Value
  <2>3. [k \in Attributes |-> Value(k)] = attr
    BY <2>2
  <2> QED
    BY <2>1, <2>3 DEF Value
<1>2. CASE ~(generator = None \/ (~low /\ \A k \in Aliases : attr[k] # None))
  <2>1. ApplyAliasGenerator(generator, attr) =
           [k \in Attributes |->
              IF k \in Aliases THEN (IF low \/ attr[k] = None THEN Generated(k) ELSE attr[k])
              ELSE IF k = "alias_priority" /\ low THEN 1 ELSE attr[k]]
    BY <1>2 DEF ApplyAliasGenerator, LowPriority
  <2>2. generator # None
    BY <1>2
  <2>3. \A k \in Attributes :
           (IF k \in Aliases THEN (IF low \/ attr[k] = None THEN Generated(k) ELSE attr[k])
            ELSE IF k = "alias_priority" /\ low THEN 1 ELSE attr[k]) = Value(k)
    <3> HIDE DEF low
    <3> QED
      BY <2>2 DEF ConfiguredAlias, GeneratedAlias
  <2> HIDE DEF Value, Generated, low
  <2>4. ApplyAliasGenerator(generator, attr) = [k \in Attributes |-> Value(k)]
    BY <2>1, <2>3
  <2> QED
    BY <2>4 DEF Value, low
<1> QED
  BY <1>1, <1>2

LEMMA ConfiguredAt ==
    ASSUME NEW config, NEW attr, attr = [k \in Attributes |-> attr[k]]
    PROVE  Configured(config, attr) =
              [k \in Attributes |-> ConfiguredAttribute(config, LowPriority(attr), k, attr[k])]
<1> DEFINE titled == ApplyTitleGenerator(config.title, attr)
           generator == config.aliasGenerator
<1>1. /\ titled = [k \in Attributes |-> titled[k]]
      /\ \A k \in Attributes :
            titled[k] = IF k = "title" /\ config.title # None /\ attr[k] = None THEN config.title ELSE attr[k]
  BY TitledAt
<1> HIDE DEF titled
<1>2. LowPriority(titled) = LowPriority(attr)
  BY <1>1 DEF LowPriority, Attributes
<1>3. ApplyAliasGenerator(generator, titled) =
         [k \in Attributes |->
            IF k \in Aliases THEN ConfiguredAlias(generator, LowPriority(attr), k, titled[k])
            ELSE IF k = "alias_priority" /\ generator # None /\ LowPriority(attr) THEN 1 ELSE titled[k]]
  <2> HIDE DEF generator
  <2> QED
    BY <1>1, <1>2, AliasedAt
<1>4. \A k \in Attributes :
         (IF k \in Aliases THEN ConfiguredAlias(generator, LowPriority(attr), k, titled[k])
          ELSE IF k = "alias_priority" /\ generator # None /\ LowPriority(attr) THEN 1 ELSE titled[k]) =
         ConfiguredAttribute(config, LowPriority(attr), k, attr[k])
  BY <1>1 DEF ConfiguredAttribute, Attributes, Aliases
<1>5. ApplyAliasGenerator(generator, titled) =
         [k \in Attributes |-> ConfiguredAttribute(config, LowPriority(attr), k, attr[k])]
  <2> HIDE DEF generator
  <2> QED
    BY <1>3, <1>4
<1> QED
  BY <1>5 DEF Configured, titled

LEMMA ConfiguredIsFunction ==
    ASSUME NEW config, NEW attr, attr = [k \in Attributes |-> attr[k]]
    PROVE  Configured(config, attr) = [k \in Attributes |-> Configured(config, attr)[k]]
<1> DEFINE F(k) == ConfiguredAttribute(config, LowPriority(attr), k, attr[k])
<1>1. Configured(config, attr) = [k \in Attributes |-> F(k)]
  BY ConfiguredAt
<1> HIDE DEF F
<1> QED
  BY <1>1

\* To apply a configuration again changes nothing.
LEMMA ConfiguredAgain ==
    ASSUME NEW config, NEW attr, attr = [k \in Attributes |-> attr[k]]
    PROVE  Configured(config, Configured(config, attr)) = Configured(config, attr)
<1> DEFINE once == Configured(config, attr)
           low == LowPriority(attr)
<1>1. once = [k \in Attributes |-> once[k]] /\ \A k \in Attributes : once[k] = ConfiguredAttribute(config, low, k, attr[k])
  BY ConfiguredAt
<1> HIDE DEF once
<1>2. config.aliasGenerator # None => LowPriority(once) = low
  <2>1. once["alias_priority"] = IF config.aliasGenerator # None /\ low THEN 1 ELSE attr["alias_priority"]
    BY <1>1 DEF ConfiguredAttribute, Attributes, Aliases
  <2> QED
    BY <2>1 DEF LowPriority
<1>3. Configured(config, once) = [k \in Attributes |-> ConfiguredAttribute(config, LowPriority(once), k, once[k])]
  BY <1>1, ConfiguredAt
<1>4. ASSUME NEW k \in Attributes PROVE ConfiguredAttribute(config, LowPriority(once), k, once[k]) = once[k]
  <2> HIDE DEF low
  <2>1. once[k] = ConfiguredAttribute(config, low, k, attr[k])
    BY <1>1
  <2>2. CASE k \in Aliases
    BY <1>2, <2>1, <2>2 DEF ConfiguredAttribute, ConfiguredAlias
  <2>3. CASE k \notin Aliases
    BY <1>2, <2>1, <2>3 DEF ConfiguredAttribute
  <2> QED
    BY <2>2, <2>3
<1>5. Configured(config, once) = once
  BY <1>1, <1>3, <1>4
<1> QED
  BY <1>5 DEF once

LEMMA ConfiguredKeeps ==
    ASSUME NEW config, NEW attr, attr = [k \in Attributes |-> attr[k]]
    PROVE  /\ Configured(config, attr)["description"] = attr["description"]
           /\ Configured(config, attr)["default"] = attr["default"]
<1>1. \A k \in Attributes : Configured(config, attr)[k] = ConfiguredAttribute(config, LowPriority(attr), k, attr[k])
  BY ConfiguredAt
<1> QED
  BY <1>1 DEF ConfiguredAttribute, Attributes, Aliases

Described(attr, description) == [attr EXCEPT !["description"] = description]

\* The description has no part in it.
LEMMA ConfiguredDescription ==
    ASSUME NEW config, NEW attr, attr = [k \in Attributes |-> attr[k]], NEW description
    PROVE  Configured(config, Described(attr, description)) = Described(Configured(config, attr), description)
<1> DEFINE described == [attr EXCEPT !["description"] = description]
           low == LowPriority(attr)
           once == Configured(config, attr)
<1>1. once = [k \in Attributes |-> once[k]] /\ \A k \in Attributes : once[k] = ConfiguredAttribute(config, low, k, attr[k])
  BY ConfiguredAt
<1>2. /\ described = [k \in Attributes |-> described[k]]
      /\ \A k \in Attributes : described[k] = IF k = "description" THEN description ELSE attr[k]
  BY DEF Attributes
<1> HIDE DEF described
<1>3. LowPriority(described) = low
  BY <1>2 DEF LowPriority, Attributes
<1>4. Configured(config, described) = [k \in Attributes |-> ConfiguredAttribute(config, low, k, described[k])]
  BY <1>2, <1>3, ConfiguredAt
<1> HIDE DEF low, once
<1>5. \A k \in Attributes : ConfiguredAttribute(config, low, k, described[k]) =
         IF k = "description" THEN description ELSE once[k]
  BY <1>1, <1>2 DEF ConfiguredAttribute, Aliases
<1>6. [once EXCEPT !["description"] = description] =
         [k \in Attributes |-> IF k = "description" THEN description ELSE once[k]]
  BY <1>1 DEF Attributes
<1>7. Configured(config, described) = [once EXCEPT !["description"] = description]
  BY <1>4, <1>5, <1>6
<1> QED
  BY <1>7 DEF once, described, Described

LEMMA ConfiguredThenDescribed ==
    ASSUME NEW config, NEW full, full = [k \in Attributes |-> full[k]], NEW description, NEW attr,
           attr = Described(Configured(config, full), description)
    PROVE  Configured(config, attr) = attr
<1> DEFINE once == Configured(config, full)
<1>1. once = [k \in Attributes |-> once[k]] /\ Configured(config, once) = once
  BY ConfiguredIsFunction, ConfiguredAgain
<1> HIDE DEF once
<1>2. Configured(config, Described(once, description)) = Described(Configured(config, once), description)
  BY <1>1, ConfiguredDescription
<1> QED
  BY <1>1, <1>2 DEF once

\* An alias of priority 1 is the one that is generated.
LEMMA GeneratedAliasFollows ==
    ASSUME NEW config, NEW attr, attr = [k \in Attributes |-> attr[k]], config.aliasGenerator # None,
           Configured(config, attr)["alias_priority"] = 1
    PROVE  Configured(config, attr)["alias"] = config.aliasGenerator["alias"]
<1> DEFINE low == LowPriority(attr)
<1>1. /\ Configured(config, attr)["alias_priority"] = ConfiguredAttribute(config, low, "alias_priority", attr["alias_priority"])
      /\ Configured(config, attr)["alias"] = ConfiguredAttribute(config, low, "alias", attr["alias"])
  BY ConfiguredAt DEF Attributes, Aliases
<1>2. low
  BY <1>1 DEF ConfiguredAttribute, LowPriority, Aliases
<1> QED
  BY <1>1, <1>2 DEF ConfiguredAttribute, ConfiguredAlias, GeneratedAlias, Aliases

LEMMA UpdateParts ==
    ASSUME NEW config, NEW info, IsInfo(info)
    PROVE  LET updated == UpdateFromConfig(config, info)
           IN  /\ IsInfo(updated) /\ updated.attr = Configured(config, info.attr)
               /\ updated.complete = info.complete /\ updated.metadata = info.metadata
<1> DEFINE attr == Configured(config, info.attr)
<1>1. UpdateFromConfig(config, info) = [info EXCEPT !.attr = attr]
  BY DEF UpdateFromConfig, Configured
<1>2. attr = [k \in Attributes |-> attr[k]]
  BY ConfiguredAt DEF IsInfo
<1> HIDE DEF attr
<1> QED
  BY <1>1, <1>2 DEF IsInfo, InfoFields, attr

-----------------------------------------------------------------------------
(* Fields: which class annotates the field of another.                     *)

Annotator(asked, d, c) ==
    d \in 1 .. c /\ asked.bodies[d].annotated /\ \A e \in (d + 1) .. c : ~asked.bodies[e].annotated

LEMMA AnnotatesIs ==
    ASSUME NEW asked, NEW c \in Nat, NEW d, Annotator(asked, d, c)
    PROVE  Annotates(asked, c) = d
<1>1. d \in 1 .. c /\ asked.bodies[d].annotated /\ \A e \in (d + 1) .. c : ~asked.bodies[e].annotated
  BY DEF Annotator
<1>2. ASSUME NEW f \in 1 .. c, asked.bodies[f].annotated, \A e \in (f + 1) .. c : ~asked.bodies[e].annotated
      PROVE  f = d
  <2>1. ~(d < f)
    <3> SUFFICES ASSUME d < f PROVE FALSE
      OBVIOUS
    <3>1. f \in (d + 1) .. c
      BY <1>1
    <3> QED
      BY <1>1, <1>2, <3>1
  <2>2. ~(f < d)
    <3> SUFFICES ASSUME f < d PROVE FALSE
      OBVIOUS
    <3>1. d \in (f + 1) .. c
      BY <1>1
    <3> QED
      BY <1>1, <1>2, <3>1
  <2> QED
    BY <1>1, <2>1, <2>2
<1> QED
  BY <1>1, <1>2 DEF Annotates

LEMMA AnnotatesItself ==
    ASSUME NEW asked, NEW c \in Nat \ {0}, asked.bodies[c].annotated
    PROVE  Annotator(asked, c, c) /\ Annotates(asked, c) = c
<1>1. c \in 1 .. c /\ \A e \in (c + 1) .. c : FALSE
  OBVIOUS
<1>2. Annotator(asked, c, c)
  BY <1>1 DEF Annotator
<1> QED
  BY <1>2, AnnotatesIs

LEMMA AnnotatesAsBefore ==
    ASSUME NEW asked, NEW c \in Nat \ {0}, ~asked.bodies[c].annotated, Annotator(asked, Annotates(asked, c - 1), c - 1)
    PROVE  /\ Annotator(asked, Annotates(asked, c), c) /\ Annotates(asked, c) = Annotates(asked, c - 1)
           /\ OneConfig(asked, c) => OneConfig(asked, c - 1) /\ asked.configs[c - 1] = asked.configs[c]
<1> DEFINE d == Annotates(asked, c - 1)
<1>1. /\ d \in 1 .. (c - 1) /\ asked.bodies[d].annotated
      /\ \A e \in (d + 1) .. (c - 1) : ~asked.bodies[e].annotated
  BY DEF Annotator
<1> HIDE DEF d
<1>2. d \in 1 .. c /\ \A e \in (d + 1) .. c : e = c \/ e \in (d + 1) .. (c - 1)
  BY <1>1
<1>3. Annotator(asked, d, c)
  BY <1>1, <1>2 DEF Annotator
<1>4. Annotates(asked, c) = d
  BY <1>3, AnnotatesIs
<1>5. ASSUME OneConfig(asked, c) PROVE OneConfig(asked, c - 1) /\ asked.configs[c - 1] = asked.configs[c]
  <2>1. c - 1 \in d .. c /\ \A e \in d .. (c - 1) : e \in d .. c
    BY <1>1
  <2>2. \A e \in d .. c : asked.configs[e] = asked.configs[c]
    BY <1>4, <1>5 DEF OneConfig
  <2>3. \A e \in d .. (c - 1) : asked.configs[e] = asked.configs[c - 1]
    BY <2>1, <2>2
  <2> QED
    BY <2>1, <2>2, <2>3 DEF OneConfig, d
<1> QED
  BY <1>3, <1>4, <1>5 DEF d

-----------------------------------------------------------------------------
(* Fields: the invariant of each.                                          *)

FullOf(body) == Make(body.annotation, body.assigned)
DescriptionOf(body) == FirstNotNone(FullOf(body).attr["description"], body.docstring)
FinishedAttr(config, body) == Described(Configured(config, FullOf(body).attr), DescriptionOf(body))

\* What becomes of the field of c, whenever its annotation is evaluated.
CompleteFits(asked, info, c) ==
    LET config == asked.configs[c]
        body == asked.bodies[Annotates(asked, c)]
    IN  /\ info.metadata = FullOf(body).metadata
        /\ info.attr["default"] = FullOf(body).attr["default"]
        /\ info.attr["description"] = DescriptionOf(body)
        /\ config.aliasGenerator # None /\ info.attr["alias_priority"] = 1 =>
              info.attr["alias"] = config.aliasGenerator["alias"]
        /\ OneConfig(asked, c) => info.attr = FinishedAttr(config, body)

\* What the field has to keep until then.
WaitingFits(asked, info, c) ==
    LET body == asked.bodies[Annotates(asked, c)]
    IN  /\ info.annotation = body.annotation /\ info.assigned = body.assigned
        /\ info.attr["description"] = FirstNotNone(Make(<<>>, body.assigned).attr["description"], body.docstring)

FieldFits(asked, info, c) ==
    /\ IsInfo(info)
    /\ Annotator(asked, Annotates(asked, c), c)
    /\ info.complete => CompleteFits(asked, info, c)
    /\ ~info.complete => WaitingFits(asked, info, c)

LEMMA FullIsInfo ==
    ASSUME NEW body
    PROVE  IsInfo(FullOf(body)) /\ FullOf(body).complete = TRUE
BY MakeIsInfo DEF FullOf

LEMMA DescribedParts ==
    ASSUME NEW info, IsInfo(info), NEW description
    PROVE  LET described == [info EXCEPT !.attr["description"] = description]
           IN  /\ IsInfo(described) /\ described.complete = info.complete
               /\ described.attr = Described(info.attr, description)
               /\ described.metadata = info.metadata
               /\ described.annotation = info.annotation /\ described.assigned = info.assigned
<1> DEFINE attr == [info.attr EXCEPT !["description"] = description]
<1>1. attr = [k \in Attributes |-> attr[k]]
  BY DEF IsInfo, Attributes
<1>2. [info EXCEPT !.attr["description"] = description] = [info EXCEPT !.attr = attr]
  OBVIOUS
<1> HIDE DEF attr
<1>3. LET described == [info EXCEPT !.attr = attr]
      IN  /\ IsInfo(described) /\ described.complete = info.complete
          /\ described.attr = attr /\ described.metadata = info.metadata
          /\ described.annotation = info.annotation /\ described.assigned = info.assigned
  BY <1>1 DEF IsInfo, InfoFields
<1> QED
  BY <1>2, <1>3 DEF attr, Described

\* To apply the configuration to all that is said of the field makes it what
\* it has to become.
LEMMA FinishedFits ==
    ASSUME NEW asked, NEW c, NEW info, IsInfo(info),
           info.metadata = FullOf(asked.bodies[Annotates(asked, c)]).metadata,
           info.attr = FinishedAttr(asked.configs[c], asked.bodies[Annotates(asked, c)])
    PROVE  CompleteFits(asked, info, c)
<1> DEFINE config == asked.configs[c]
           body == asked.bodies[Annotates(asked, c)]
           full == FullOf(body).attr
           once == Configured(config, full)
<1>1. full = [k \in Attributes |-> full[k]]
  BY FullIsInfo DEF IsInfo
<1>2. once = [k \in Attributes |-> once[k]]
  <2> HIDE DEF full, config
  <2> QED
    BY <1>1, ConfiguredIsFunction
<1>3. once["default"] = full["default"]
  BY <1>1, ConfiguredKeeps
<1>4. config.aliasGenerator # None /\ once["alias_priority"] = 1 => once["alias"] = config.aliasGenerator["alias"]
  BY <1>1, GeneratedAliasFollows
<1> HIDE DEF once, full, config, body
<1>5. info.attr = [once EXCEPT !["description"] = DescriptionOf(body)]
  BY DEF FinishedAttr, Described, once, full, config, body
<1>6. /\ info.attr["default"] = once["default"] /\ info.attr["description"] = DescriptionOf(body)
      /\ info.attr["alias_priority"] = once["alias_priority"] /\ info.attr["alias"] = once["alias"]
  BY <1>2, <1>5 DEF Attributes, Aliases
<1> QED
  BY <1>3, <1>4, <1>6 DEF CompleteFits, full, config, body

\* A field that is inherited is completed again, by the configuration of the
\* class that inherits it.
LEMMA InheritedFits ==
    ASSUME NEW asked, NEW c \in Nat \ {0}, ~asked.bodies[c].annotated, NEW info,
           FieldFits(asked, info, c - 1), info.complete
    PROVE  FieldFits(asked, UpdateFromConfig(asked.configs[c], info), c)
<1> DEFINE config == asked.configs[c]
           body == asked.bodies[Annotates(asked, c)]
           full == FullOf(body).attr
           once == Configured(config, full)
           updated == UpdateFromConfig(config, info)
<1>1. /\ Annotator(asked, Annotates(asked, c), c) /\ Annotates(asked, c) = Annotates(asked, c - 1)
      /\ OneConfig(asked, c) => OneConfig(asked, c - 1) /\ asked.configs[c - 1] = config
  BY AnnotatesAsBefore DEF FieldFits
<1>2. IsInfo(info) /\ CompleteFits(asked, info, c - 1)
  BY DEF FieldFits
<1>3. /\ IsInfo(updated) /\ updated.attr = Configured(config, info.attr)
      /\ updated.complete /\ updated.metadata = info.metadata
  BY <1>2, UpdateParts
<1>4. info.attr = [k \in Attributes |-> info.attr[k]]
  BY <1>2 DEF IsInfo
<1>5. full = [k \in Attributes |-> full[k]]
  BY FullIsInfo DEF IsInfo
<1> HIDE DEF updated
<1>6. updated.metadata = FullOf(body).metadata
  BY <1>1, <1>2, <1>3 DEF CompleteFits
<1>7. updated.attr["default"] = full["default"] /\ updated.attr["description"] = DescriptionOf(body)
  <2>1. info.attr["default"] = full["default"] /\ info.attr["description"] = DescriptionOf(body)
    BY <1>1, <1>2 DEF CompleteFits
  <2>2. /\ Configured(config, info.attr)["default"] = info.attr["default"]
        /\ Configured(config, info.attr)["description"] = info.attr["description"]
    <3> HIDE DEF config
    <3> QED
      BY <1>4, ConfiguredKeeps
  <2> HIDE DEF full, body, config
  <2> QED
    BY <1>3, <2>1, <2>2
<1>8. config.aliasGenerator # None /\ updated.attr["alias_priority"] = 1 =>
         updated.attr["alias"] = config.aliasGenerator["alias"]
  BY <1>3, <1>4, GeneratedAliasFollows
<1>9. ASSUME OneConfig(asked, c) PROVE updated.attr = FinishedAttr(config, body)
  <2>1. info.attr = Described(Configured(config, full), DescriptionOf(body))
    BY <1>1, <1>2, <1>9 DEF CompleteFits, FinishedAttr
  <2> HIDE DEF config, body
  <2>2. Configured(config, info.attr) = info.attr
    BY <1>5, <2>1, ConfiguredThenDescribed
  <2> QED
    BY <1>3, <2>1, <2>2 DEF FinishedAttr
<1>10. CompleteFits(asked, updated, c)
  BY <1>6, <1>7, <1>8, <1>9 DEF CompleteFits
<1> QED
  BY <1>1, <1>3, <1>10 DEF FieldFits, updated

\* A field is the same when it is rebuilt later.
LEMMA RebuildFits ==
    ASSUME NEW asked, NEW c \in Nat, NEW info, FieldFits(asked, info, c),
           WellFormed(asked.bodies, asked.configs), c \in DOMAIN asked.bodies
    PROVE  /\ FieldFits(asked, RebuildField(asked.configs[c], info), c)
           /\ RebuildField(asked.configs[c], info).complete
<1> DEFINE config == asked.configs[c]
           a == Annotates(asked, c)
           body == asked.bodies[a]
           D == FirstNotNone(FullOf(body).attr["description"], info.attr["description"])
           described == [FullOf(body) EXCEPT !.attr["description"] = D]
<1>1. CASE info.complete
  BY <1>1 DEF RebuildField
<1>2. CASE ~info.complete
  <2>1. /\ IsInfo(info) /\ Annotator(asked, a, c) /\ WaitingFits(asked, info, c)
    BY <1>2 DEF FieldFits
  <2>2. a \in DOMAIN asked.bodies
    <3>1. a \in 1 .. c
      BY <2>1 DEF Annotator
    <3>2. DOMAIN asked.bodies = 1 .. Len(asked.bodies) /\ Len(asked.bodies) \in Nat
      BY DEF WellFormed
    <3> HIDE DEF a
    <3> QED
      BY <3>1, <3>2
  <2>3. RebuildField(config, info) = UpdateFromConfig(config, described)
    <3>1. info.annotation = body.annotation /\ info.assigned = body.assigned
      BY <2>1 DEF WaitingFits
    <3> QED
      BY <1>2, <3>1 DEF RebuildField, FullOf
  <2>4. D = DescriptionOf(body)
    <3> DEFINE bare == Make(<<>>, body.assigned).attr["description"]
    <3>1. info.attr["description"] = FirstNotNone(bare, body.docstring)
      BY <2>1 DEF WaitingFits
    <3>2. bare # None => FullOf(body).attr["description"] = bare
      <4>1. /\ body.annotation \in Seq({body.annotation[i] : i \in DOMAIN body.annotation})
            /\ \/ body.assigned = None
               \/ body.assigned.meta = "value"
               \/ body.assigned = [meta |-> "field", set |-> body.assigned.set, metadata |-> body.assigned.metadata]
        BY <2>2 DEF WellFormed
      <4> HIDE DEF body
      <4> QED
        BY <4>1, AssignedDescription DEF FullOf
    <3> HIDE DEF bare, body
    <3> QED
      BY <3>1, <3>2 DEF FirstNotNone, DescriptionOf
  <2>5. IsInfo(FullOf(body)) /\ FullOf(body).complete = TRUE
    BY FullIsInfo
  <2> HIDE DEF body, D
  <2>6. /\ IsInfo(described) /\ described.complete = TRUE /\ described.metadata = FullOf(body).metadata
        /\ described.attr = Described(FullOf(body).attr, D)
    BY <2>5, DescribedParts
  <2> HIDE DEF described, config
  <2>7. LET rebuilt == UpdateFromConfig(config, described)
        IN  /\ IsInfo(rebuilt) /\ rebuilt.complete /\ rebuilt.metadata = FullOf(body).metadata
            /\ rebuilt.attr = Configured(config, described.attr)
    BY <2>6, UpdateParts
  <2>8. Configured(config, described.attr) = FinishedAttr(config, body)
    <3>1. FullOf(body).attr = [k \in Attributes |-> FullOf(body).attr[k]]
      BY <2>5 DEF IsInfo
    <3> QED
      BY <2>4, <2>6, <3>1, ConfiguredDescription DEF FinishedAttr
  <2>9. CompleteFits(asked, UpdateFromConfig(config, described), c)
    BY <2>7, <2>8, FinishedFits DEF config, body
  <2> QED
    BY <2>1, <2>3, <2>7, <2>9 DEF FieldFits, config
<1> QED
  BY <1>1, <1>2

LEMMA SameFits ==
    ASSUME NEW asked, NEW c, NEW info, FieldFits(asked, info, c), NEW other, IsInfo(other),
           other.attr = info.attr, other.metadata = info.metadata, other.complete = info.complete,
           other.annotation = info.annotation, other.assigned = info.assigned
    PROVE  FieldFits(asked, other, c)
BY DEF FieldFits, CompleteFits, WaitingFits

\* A class that annotates the field says all that there is of it.
LEMMA CollectOwnFits ==
    ASSUME NEW asked, NEW c \in Nat \ {0}, asked.bodies[c].annotated, NEW inherited, NEW known \in BOOLEAN
    PROVE  FieldFits(asked, CollectField(asked.bodies[c], asked.configs[c], inherited, known), c)
<1> DEFINE body == asked.bodies[c]
           config == asked.configs[c]
           full == FullOf(body)
           bare == Make(<<>>, body.assigned)
           waiting == [bare EXCEPT !.complete = FALSE, !.annotation = body.annotation, !.assigned = body.assigned]
           Own == IF known \/ ~body.forward THEN full ELSE waiting
           updated == IF Own # NoField /\ Own.complete THEN UpdateFromConfig(config, Own) ELSE Own
           D == FirstNotNone(updated.attr["description"], body.docstring)
           described == [updated EXCEPT !.attr["description"] = D]
<1>1. Annotator(asked, Annotates(asked, c), c) /\ Annotates(asked, c) = c
  BY AnnotatesItself
<1>2. IsInfo(full) /\ full.complete = TRUE
  BY FullIsInfo
<1>3. /\ IsInfo(waiting) /\ waiting.complete = FALSE /\ waiting.attr = bare.attr
      /\ waiting.annotation = body.annotation /\ waiting.assigned = body.assigned
  <2>1. IsInfo(bare)
    BY MakeIsInfo
  <2> HIDE DEF bare, body
  <2> QED
    BY <2>1 DEF IsInfo, InfoFields
<1>4. Own # NoField
  BY <1>2, <1>3, NoFieldIsNoInfo
<1> HIDE DEF waiting, full
<1>5. CollectField(body, config, inherited, known) = IF updated = NoField THEN NoField ELSE described
  <2> HIDE DEF config
  <2> QED
    BY Zenon DEF CollectField, FirstNotNone, FullOf, full, waiting
<1>6. CASE known \/ ~body.forward
  <2>1. Own = full
    BY <1>6
  <2> HIDE DEF Own, body, config
  <2>2. updated = UpdateFromConfig(config, full)
    BY <1>2, <1>4, <2>1
  <2>3. /\ IsInfo(updated) /\ updated.attr = Configured(config, full.attr)
        /\ updated.complete = TRUE /\ updated.metadata = full.metadata
    BY <1>2, <2>2, UpdateParts
  <2>4. updated.attr["description"] = full.attr["description"]
    BY <1>2, <2>3, ConfiguredKeeps DEF IsInfo
  <2>5. D = DescriptionOf(body)
    BY <2>4 DEF DescriptionOf, full
  <2> HIDE DEF updated, D
  <2>6. /\ IsInfo(described) /\ described.complete = TRUE /\ described.metadata = full.metadata
        /\ described.attr = Described(updated.attr, D)
    BY <2>3, DescribedParts
  <2>7. updated # NoField
    BY <2>3, NoFieldIsNoInfo
  <2> HIDE DEF described
  <2>8. CompleteFits(asked, described, c)
    BY <1>1, <2>3, <2>5, <2>6, FinishedFits DEF FinishedAttr, body, config, full
  <2> QED
    BY <1>1, <1>5, <2>6, <2>7, <2>8 DEF FieldFits, body, config
<1>7. CASE ~(known \/ ~body.forward)
  <2>1. Own = waiting
    BY <1>7
  <2> HIDE DEF Own
  <2>2. updated = waiting
    BY <1>3, <2>1
  <2>3. D = FirstNotNone(bare.attr["description"], body.docstring)
    BY <1>3, <2>2
  <2> HIDE DEF updated, D, bare, body
  <2>4. /\ IsInfo(described) /\ described.complete = FALSE
        /\ described.attr = Described(bare.attr, D)
        /\ described.annotation = body.annotation /\ described.assigned = body.assigned
    BY <1>3, <2>2, DescribedParts
  <2>5. updated # NoField
    BY <1>3, <2>2, NoFieldIsNoInfo
  <2>6. described.attr["description"] = D
    <3>1. bare.attr = [k \in Attributes |-> bare.attr[k]]
      BY MakeIsInfo DEF IsInfo, bare
    <3> QED
      BY <2>4, <3>1 DEF Described, Attributes
  <2> HIDE DEF described
  <2>7. WaitingFits(asked, described, c)
    BY <1>1, <2>3, <2>4, <2>6 DEF WaitingFits, body, bare
  <2> QED
    BY <1>1, <1>5, <2>4, <2>5, <2>7 DEF FieldFits, body
<1> QED
  BY <1>6, <1>7

\* A class that does not leaves it as it is, or completes it.
LEMMA CollectInheritedFits ==
    ASSUME NEW asked, NEW c \in Nat \ {0}, asked.bodies[c].annotated = FALSE, NEW inherited,
           FieldFits(asked, inherited, c - 1), NEW known \in BOOLEAN
    PROVE  FieldFits(asked, CollectField(asked.bodies[c], asked.configs[c], inherited, known), c)
<1> DEFINE body == asked.bodies[c]
           config == asked.configs[c]
           updated == IF inherited.complete THEN UpdateFromConfig(config, inherited) ELSE inherited
           described == [updated EXCEPT !.attr["description"] = updated.attr["description"]]
<1>1. FieldFits(asked, updated, c)
  <2>1. CASE inherited.complete
    BY <2>1, InheritedFits
  <2>2. CASE ~inherited.complete
    <3>1. Annotator(asked, Annotates(asked, c), c) /\ Annotates(asked, c) = Annotates(asked, c - 1)
      BY AnnotatesAsBefore DEF FieldFits
    <3>2. updated = inherited
      BY <2>2
    <3> HIDE DEF updated
    <3> QED
      BY <2>2, <3>1, <3>2 DEF FieldFits, WaitingFits
  <2> QED
    BY <2>1, <2>2
<1>2. inherited # NoField
  BY NoFieldIsNoInfo DEF FieldFits
<1>3. updated # NoField
  <2> HIDE DEF updated
  <2> QED
    BY <1>1, NoFieldIsNoInfo DEF FieldFits
<1>4. CollectField(body, config, inherited, known) = described
  <2> DEFINE own == IF known \/ ~body.forward THEN Make(body.annotation, body.assigned)
                    ELSE [Make(<<>>, body.assigned) EXCEPT
                             !.complete = FALSE, !.annotation = body.annotation, !.assigned = body.assigned]
             collected == IF body.annotated THEN own ELSE inherited
  <2>1. collected = inherited
    OBVIOUS
  <2> HIDE DEF own, config
  <2>2. CollectField(body, config, inherited, known) =
           LET u == IF collected # NoField /\ collected.complete THEN UpdateFromConfig(config, collected) ELSE collected
           IN  IF u = NoField THEN NoField
               ELSE [u EXCEPT !.attr["description"] = IF @ = None /\ body.annotated THEN body.docstring ELSE @]
    BY Zenon DEF CollectField, own
  <2> HIDE DEF collected
  <2>3. CollectField(body, config, inherited, known) =
           IF updated = NoField THEN NoField
           ELSE [updated EXCEPT !.attr["description"] = IF @ = None /\ body.annotated THEN body.docstring ELSE @]
    BY <1>2, <2>1, <2>2
  <2>4. (IF updated.attr["description"] = None /\ body.annotated THEN body.docstring ELSE updated.attr["description"]) =
           updated.attr["description"]
    OBVIOUS
  <2> HIDE DEF updated
  <2> QED
    BY <1>3, <2>3, <2>4
<1> HIDE DEF updated
<1>5. IsInfo(updated)
  BY <1>1 DEF FieldFits
<1>6. /\ IsInfo(described) /\ described.complete = updated.complete /\ described.metadata = updated.metadata
      /\ described.attr = Described(updated.attr, updated.attr["description"])
      /\ described.annotation = updated.annotation /\ described.assigned = updated.assigned
  BY <1>5, DescribedParts
<1>7. Described(updated.attr, updated.attr["description"]) = updated.attr
  BY <1>5 DEF Described, IsInfo, Attributes
<1> HIDE DEF described
<1>8. FieldFits(asked, described, c)
  BY <1>1, <1>6, <1>7, SameFits
<1> QED
  BY <1>4, <1>8

LEMMA WellFormedParts ==
    ASSUME NEW bodies, NEW configs, WellFormed(bodies, configs)
    PROVE  /\ Len(bodies) \in Nat /\ DOMAIN bodies = 1 .. Len(bodies)
           /\ \A c \in DOMAIN bodies : bodies[c].annotated \in BOOLEAN
           /\ 1 \in DOMAIN bodies => bodies[1].annotated
<1>1. Len(bodies) \in Nat /\ DOMAIN bodies = 1 .. Len(bodies)
  BY DEF WellFormed
<1>2. \A c \in DOMAIN bodies : bodies[c].annotated \in BOOLEAN
  BY DEF WellFormed
<1>3. 1 \in DOMAIN bodies => bodies # <<>>
  OBVIOUS
<1>4. bodies # <<>> => bodies[1].annotated
  BY DEF WellFormed
<1> QED
  BY <1>1, <1>2, <1>3, <1>4

LEMMA DefineFits ==
    ASSUME NEW asked, WellFormed(asked.bodies, asked.configs), NEW c \in DOMAIN asked.bodies, NEW inherited,
           c = 1 \/ FieldFits(asked, inherited, c - 1), NEW known \in BOOLEAN
    PROVE  LET info == DefineField(asked.bodies[c], asked.configs[c], inherited, known)
           IN  FieldFits(asked, info, c) /\ (known => info.complete)
<1> DEFINE collected == CollectField(asked.bodies[c], asked.configs[c], inherited, known)
<1>1. c \in Nat \ {0} /\ asked.bodies[c].annotated \in BOOLEAN /\ (c = 1 => asked.bodies[c].annotated)
  BY WellFormedParts
<1>2. FieldFits(asked, collected, c)
  <2>1. CASE asked.bodies[c].annotated
    BY <1>1, <2>1, CollectOwnFits
  <2>2. CASE ~asked.bodies[c].annotated
    <3>1. asked.bodies[c].annotated = FALSE /\ c # 1
      BY <1>1, <2>2
    <3> QED
      BY <1>1, <3>1, CollectInheritedFits
  <2> QED
    BY <2>1, <2>2
<1>3. collected # NoField
  BY <1>2, NoFieldIsNoInfo DEF FieldFits
<1> HIDE DEF collected
<1>4. DefineField(asked.bodies[c], asked.configs[c], inherited, known) =
         IF known THEN RebuildField(asked.configs[c], collected) ELSE collected
  BY <1>3 DEF DefineField, collected
<1>5. /\ FieldFits(asked, RebuildField(asked.configs[c], collected), c)
      /\ RebuildField(asked.configs[c], collected).complete
  BY <1>1, <1>2, RebuildFits
<1> QED
  BY <1>2, <1>4, <1>5

-----------------------------------------------------------------------------
(* Fields: the invariant of the classes.                                   *)

Elements(s) == {s[i] : i \in DOMAIN s}

TableFits(asked, table) ==
    /\ table \in Seq(Elements(table))
    /\ Len(table) <= Len(asked.bodies)
    /\ \A c \in DOMAIN table : FieldFits(asked, table[c], c)

FieldsInv ==
    /\ input \in FieldInputs
    /\ \/ answer = Pending
       \/ /\ answer = [type |-> "fields", known |-> answer.known, late |-> answer.late, eager |-> answer.eager]
          /\ answer.known \in BOOLEAN
          /\ TableFits(input, answer.late) /\ TableFits(input, answer.eager) /\ Len(answer.late) = Len(answer.eager)
          /\ \A c \in DOMAIN answer.eager : answer.eager[c].complete

LEMMA AppendedElements ==
    ASSUME NEW s, s \in Seq(Elements(s)), NEW e
    PROVE  /\ Len(s) \in Nat /\ DOMAIN s = 1 .. Len(s)
           /\ Append(s, e) \in Seq(Elements(Append(s, e)))
           /\ Len(Append(s, e)) = Len(s) + 1 /\ DOMAIN Append(s, e) = 1 .. Len(s) + 1
           /\ Append(s, e)[Len(s) + 1] = e /\ \A i \in DOMAIN s : Append(s, e)[i] = s[i]
<1> DEFINE t == Append(s, e)
           S == Elements(s) \cup {e}
<1>1. s \in Seq(S) /\ e \in S
  OBVIOUS
<1> HIDE DEF S
<1>2. /\ Len(s) \in Nat /\ DOMAIN s = 1 .. Len(s)
      /\ Len(t) = Len(s) + 1 /\ DOMAIN t = 1 .. Len(s) + 1
      /\ t[Len(s) + 1] = e /\ \A i \in DOMAIN s : t[i] = s[i]
      /\ t \in Seq(S)
  BY <1>1
<1> HIDE DEF t
<1>3. t = [i \in 1 .. Len(s) + 1 |-> t[i]]
  <2>1. t \in [1 .. Len(t) -> S]
    BY <1>2
  <2> QED
    BY <1>2, <2>1
<1>4. t \in [1 .. Len(s) + 1 -> Elements(t)]
  BY <1>2, <1>3 DEF Elements
<1>5. t \in Seq(Elements(t))
  BY <1>2, <1>4
<1> QED
  BY <1>2, <1>5 DEF t

LEMMA ReplacedElements ==
    ASSUME NEW s, s \in Seq(Elements(s)), NEW c \in DOMAIN s, NEW e
    PROVE  LET t == [s EXCEPT ![c] = e]
           IN  /\ t \in Seq(Elements(t)) /\ Len(t) = Len(s) /\ DOMAIN t = DOMAIN s
               /\ t[c] = e /\ \A i \in DOMAIN s : i # c => t[i] = s[i]
<1> DEFINE t == [s EXCEPT ![c] = e]
<1>1. Len(s) \in Nat /\ DOMAIN s = 1 .. Len(s)
  OBVIOUS
<1>2. /\ t = [i \in 1 .. Len(s) |-> t[i]] /\ DOMAIN t = 1 .. Len(s)
      /\ t[c] = e /\ \A i \in DOMAIN s : i # c => t[i] = s[i]
  BY <1>1
<1> HIDE DEF t
<1>3. t \in [1 .. Len(s) -> Elements(t)]
  BY <1>2 DEF Elements
<1>4. t \in Seq(Elements(t)) /\ Len(t) = Len(s)
  BY <1>1, <1>2, <1>3
<1> QED
  BY <1>1, <1>2, <1>4 DEF t

LEMMA FieldsInputFits ==
    ASSUME input \in FieldInputs
    PROVE  WellFormed(input.bodies, input.configs) /\ input.algorithm = "fields"
BY FieldsAssumption

\* The next class is defined, with or without the names it needs.
LEMMA NextFieldFits ==
    ASSUME WellFormed(input.bodies, input.configs), NEW table, TableFits(input, table),
           Len(table) < Len(input.bodies), NEW known \in BOOLEAN
    PROVE  /\ TableFits(input, Append(table, NextField(table, known)))
           /\ known => NextField(table, known).complete
<1> DEFINE c == Len(table) + 1
           inherited == IF c = 1 THEN NoField ELSE table[c - 1]
           info == NextField(table, known)
<1>1. table \in Seq(Elements(table)) /\ \A d \in DOMAIN table : FieldFits(input, table[d], d)
  BY DEF TableFits
<1>2. Len(table) \in Nat /\ DOMAIN table = 1 .. Len(table)
  BY <1>1, AppendedElements
<1>3. c \in DOMAIN input.bodies
  BY <1>2, WellFormedParts
<1>4. c = 1 \/ FieldFits(input, inherited, c - 1)
  <2> SUFFICES ASSUME c # 1 PROVE FieldFits(input, table[c - 1], c - 1)
    OBVIOUS
  <2>1. c - 1 \in DOMAIN table
    BY <1>2
  <2> QED
    BY <1>1, <2>1
<1>5. info = DefineField(input.bodies[c], input.configs[c], inherited, known)
  BY DEF NextField
<1> HIDE DEF inherited, info
<1>6. FieldFits(input, info, c) /\ (known => info.complete)
  <2> HIDE DEF c
  <2> QED
    BY <1>3, <1>4, <1>5, DefineFits
<1>7. TableFits(input, Append(table, info))
  <2> DEFINE t == Append(table, info)
  <2>1. /\ t \in Seq(Elements(t)) /\ Len(t) = c /\ DOMAIN t = 1 .. c
        /\ t[c] = info /\ \A i \in DOMAIN table : t[i] = table[i]
    BY <1>1, AppendedElements
  <2> HIDE DEF t
  <2>2. ASSUME NEW d \in DOMAIN t PROVE FieldFits(input, t[d], d)
    <3>1. d = c \/ d \in DOMAIN table
      BY <1>2, <2>1
    <3> QED
      BY <1>1, <1>6, <2>1, <3>1
  <2>3. Len(t) <= Len(input.bodies)
    BY <1>2, <2>1, WellFormedParts
  <2> QED
    BY <2>1, <2>2, <2>3 DEF TableFits, t
<1> QED
  BY <1>6, <1>7 DEF info

LEMMA RebuiltTableFits ==
    ASSUME WellFormed(input.bodies, input.configs), NEW table, TableFits(input, table), NEW c \in DOMAIN table
    PROVE  /\ TableFits(input, [table EXCEPT ![c] = RebuildField(input.configs[c], table[c])])
           /\ Len([table EXCEPT ![c] = RebuildField(input.configs[c], table[c])]) = Len(table)
<1> DEFINE info == RebuildField(input.configs[c], table[c])
           t == [table EXCEPT ![c] = info]
<1>1. table \in Seq(Elements(table)) /\ \A d \in DOMAIN table : FieldFits(input, table[d], d)
  BY DEF TableFits
<1>2. Len(table) \in Nat /\ DOMAIN table = 1 .. Len(table)
  BY <1>1, AppendedElements
<1>3. c \in Nat /\ c \in DOMAIN input.bodies
  <2>1. Len(table) <= Len(input.bodies)
    BY DEF TableFits
  <2> QED
    BY <1>2, <2>1, WellFormedParts
<1>4. FieldFits(input, info, c)
  BY <1>1, <1>3, RebuildFits
<1> HIDE DEF info
<1>5. /\ t \in Seq(Elements(t)) /\ Len(t) = Len(table) /\ DOMAIN t = DOMAIN table
      /\ t[c] = info /\ \A i \in DOMAIN table : i # c => t[i] = table[i]
  BY <1>1, ReplacedElements
<1> HIDE DEF t
<1>6. \A d \in DOMAIN t : FieldFits(input, t[d], d)
  BY <1>1, <1>4, <1>5
<1>7. TableFits(input, t) /\ Len(t) = Len(table)
  BY <1>5, <1>6 DEF TableFits
<1> QED
  BY <1>7 DEF t, info

FieldsAnswer(known, late, eager) == [type |-> "fields", known |-> known, late |-> late, eager |-> eager]

LEMMA TablesReplaced ==
    ASSUME NEW n, n = FieldsAnswer(n.known, n.late, n.eager), NEW late, NEW eager
    PROVE  [n EXCEPT !.late = late, !.eager = eager] = FieldsAnswer(n.known, late, eager)
<1> DEFINE keys == {"type", "known", "late", "eager"}
           replaced == [n EXCEPT !.late = late, !.eager = eager]
           record == FieldsAnswer(n.known, late, eager)
           Value(x) == IF x = "late" THEN late ELSE IF x = "eager" THEN eager ELSE n[x]
<1>1. DOMAIN n = keys /\ n.type = "fields"
  BY DEF FieldsAnswer
<1>2. replaced = [x \in keys |-> Value(x)]
  BY <1>1
<1>3. record = [x \in keys |-> record[x]]
  BY DEF FieldsAnswer
<1>4. /\ record.type = Value("type") /\ record.known = Value("known")
      /\ record.late = Value("late") /\ record.eager = Value("eager")
  BY <1>1 DEF FieldsAnswer
<1> HIDE DEF record, replaced
<1>5. \A x \in keys : record[x] = Value(x)
  BY <1>4
<1>6. replaced = record
  BY <1>2, <1>3, <1>5
<1> QED
  BY <1>6 DEF record, replaced

\* How the parts of the invariant make it.
LEMMA FieldsInvFrom ==
    ASSUME NEW known \in BOOLEAN, NEW late, NEW eager,
           input \in FieldInputs, input' = input, answer' = FieldsAnswer(known, late, eager),
           TableFits(input, late), TableFits(input, eager), Len(late) = Len(eager),
           \A c \in DOMAIN eager : eager[c].complete
    PROVE  FieldsInv'
<1>1. /\ answer'.known = known /\ answer'.late = late /\ answer'.eager = eager
      /\ answer' = [type |-> "fields", known |-> answer'.known, late |-> answer'.late, eager |-> answer'.eager]
  BY DEF FieldsAnswer
<1> QED
  BY <1>1 DEF FieldsInv

LEMMA FieldsInvParts ==
    ASSUME FieldsInv, answer.type = "fields"
    PROVE  /\ input \in FieldInputs /\ WellFormed(input.bodies, input.configs)
           /\ answer = FieldsAnswer(answer.known, answer.late, answer.eager)
           /\ answer.known \in BOOLEAN
           /\ TableFits(input, answer.late) /\ TableFits(input, answer.eager)
           /\ Len(answer.late) = Len(answer.eager)
           /\ \A c \in DOMAIN answer.eager : answer.eager[c].complete
BY FieldsInputFits DEF FieldsInv, Pending, FieldsAnswer

LEMMA FieldsInvBegin == FieldsInv /\ BeginFields => FieldsInv'
<1> SUFFICES ASSUME FieldsInv, BeginFields PROVE FieldsInv'
  OBVIOUS
<1> DEFINE none == <<>>
<1>1. input' = input /\ input \in FieldInputs /\ answer' = FieldsAnswer(FALSE, none, none)
  BY DEF FieldsInv, BeginFields, FieldsAnswer
<1>2. none \in Seq(Elements(none)) /\ Len(none) = 0 /\ DOMAIN none = {}
  OBVIOUS
<1>3. Len(input.bodies) \in Nat
  BY <1>1, FieldsInputFits, WellFormedParts
<1> HIDE DEF none
<1>4. TableFits(input, none) /\ \A c \in DOMAIN none : none[c].complete
  BY <1>2, <1>3 DEF TableFits
<1> QED
  BY <1>1, <1>4, FieldsInvFrom

LEMMA FieldsInvDefine == FieldsInv /\ DefineNextClass => FieldsInv'
<1> SUFFICES ASSUME FieldsInv, DefineNextClass PROVE FieldsInv'
  OBVIOUS
<1> DEFINE known == answer.known
           late == Append(answer.late, NextField(answer.late, known))
           info == NextField(answer.eager, TRUE)
           eager == Append(answer.eager, info)
<1>1. answer.type = "fields" /\ input' = input /\ Len(answer.late) < Len(input.bodies)
  BY DEF DefineNextClass
<1>2. /\ input \in FieldInputs /\ WellFormed(input.bodies, input.configs)
      /\ answer = FieldsAnswer(known, answer.late, answer.eager)
      /\ known \in BOOLEAN
      /\ TableFits(input, answer.late) /\ TableFits(input, answer.eager)
      /\ Len(answer.late) = Len(answer.eager)
      /\ \A c \in DOMAIN answer.eager : answer.eager[c].complete
  BY <1>1, FieldsInvParts
<1>3. TableFits(input, late)
  BY <1>1, <1>2, NextFieldFits
<1>4. TableFits(input, eager) /\ info.complete
  BY <1>1, <1>2, NextFieldFits
<1>5. Len(late) = Len(answer.late) + 1
  BY <1>2, AppendedElements DEF TableFits
<1>6. /\ Len(answer.eager) \in Nat /\ DOMAIN answer.eager = 1 .. Len(answer.eager)
      /\ Len(eager) = Len(answer.eager) + 1 /\ DOMAIN eager = 1 .. Len(answer.eager) + 1
      /\ eager[Len(answer.eager) + 1] = info /\ \A i \in DOMAIN answer.eager : eager[i] = answer.eager[i]
  <2>1. answer.eager \in Seq(Elements(answer.eager))
    BY <1>2 DEF TableFits
  <2> HIDE DEF info
  <2> QED
    BY <2>1, AppendedElements
<1>7. answer' = [answer EXCEPT !.late = late, !.eager = eager]
  BY DEF DefineNextClass
<1> HIDE DEF late, eager, info, known
<1>8. answer' = FieldsAnswer(known, late, eager)
  <2>1. answer = FieldsAnswer(answer.known, answer.late, answer.eager)
    BY <1>2 DEF known
  <2> QED
    BY <1>7, <2>1, TablesReplaced DEF known
<1>9. ASSUME NEW c \in DOMAIN eager PROVE eager[c].complete
  <2>1. c = Len(answer.eager) + 1 \/ c \in DOMAIN answer.eager
    BY <1>6
  <2> QED
    BY <1>2, <1>4, <1>6, <2>1
<1>10. Len(late) = Len(eager)
  BY <1>2, <1>5, <1>6
<1> QED
  BY <1>1, <1>2, <1>3, <1>4, <1>8, <1>9, <1>10, FieldsInvFrom

LEMMA FieldsInvName == FieldsInv /\ DefineName => FieldsInv'
<1> SUFFICES ASSUME FieldsInv, DefineName PROVE FieldsInv'
  OBVIOUS
<1>1. answer.type = "fields" /\ input' = input /\ answer' = [answer EXCEPT !.known = TRUE]
  BY DEF DefineName
<1>2. answer' = FieldsAnswer(TRUE, answer.late, answer.eager)
  BY <1>1, FieldsInvParts DEF FieldsAnswer
<1> QED
  BY <1>1, <1>2, FieldsInvParts, FieldsInvFrom

LEMMA FieldsInvRebuild == FieldsInv /\ RebuildClass => FieldsInv'
<1> SUFFICES ASSUME FieldsInv, RebuildClass PROVE FieldsInv'
  OBVIOUS
<1>1. PICK c \in DOMAIN answer.late :
         answer' = [answer EXCEPT !.late[c] = RebuildField(input.configs[c], answer.late[c])]
  BY DEF RebuildClass
<1> DEFINE late == [answer.late EXCEPT ![c] = RebuildField(input.configs[c], answer.late[c])]
<1>2. answer.type = "fields" /\ input' = input
  BY DEF RebuildClass
<1>3. TableFits(input, late) /\ Len(late) = Len(answer.late)
  BY <1>2, FieldsInvParts, RebuiltTableFits
<1>4. answer' = [answer EXCEPT !.late = late]
  BY <1>1
<1> HIDE DEF late
<1>5. answer' = FieldsAnswer(answer.known, late, answer.eager)
  BY <1>2, <1>4, FieldsInvParts DEF FieldsAnswer
<1> QED
  BY <1>2, <1>3, <1>5, FieldsInvParts, FieldsInvFrom

\* However the class statements, the definition of the missing name and the
\* rebuilds follow one another, a field that is complete is what the class that
\* annotates it says, completed by the configuration, and one that is not keeps
\* all that is needed to become it (collect_model_fields() and
\* rebuild_model_fields()).
THEOREM FieldsInvHolds == FieldsSpec => []FieldsInv
<1>1. FieldsInit => FieldsInv
  BY DEF FieldsInit, FieldsInv
<1>2. FieldsInv /\ [FieldsNext]_vars => FieldsInv'
  <2> SUFFICES ASSUME FieldsInv, [FieldsNext]_vars PROVE FieldsInv'
    OBVIOUS
  <2>1. CASE BeginFields
    BY <2>1, FieldsInvBegin
  <2>2. CASE DefineNextClass
    BY <2>2, FieldsInvDefine
  <2>3. CASE DefineName
    BY <2>3, FieldsInvName
  <2>4. CASE RebuildClass
    BY <2>4, FieldsInvRebuild
  <2>5. CASE UNCHANGED vars
    BY <2>5 DEF vars, FieldsInv
  <2> QED
    BY <2>1, <2>2, <2>3, <2>4, <2>5 DEF FieldsNext
<1> QED
  BY <1>1, <1>2, PTL DEF FieldsSpec

\* When an annotation is evaluated makes no difference to the field, in a chain
\* of any length and for any bodies and configurations (rebuild_model_fields()).
THEOREM FieldsAreTimeless == FieldsSpec => []FieldsDoNotDependOnTime
<1>1. FieldsInv => FieldsDoNotDependOnTime
  <2> SUFFICES ASSUME FieldsInv, answer.type = "fields", NEW c \in DOMAIN answer.late, answer.late[c].complete
               PROVE  /\ answer.late[c].metadata = answer.eager[c].metadata
                      /\ \A k \in {"default", "description"} : answer.late[c].attr[k] = answer.eager[c].attr[k]
                      /\ OneConfig(input, c) => answer.late[c].attr = answer.eager[c].attr
                      /\ input.configs[c].aliasGenerator # None => \A info \in {answer.late[c], answer.eager[c]} :
                            info.attr["alias_priority"] = 1 =>
                               info.attr["alias"] = input.configs[c].aliasGenerator["alias"]
    BY DEF FieldsDoNotDependOnTime
  <2>1. /\ TableFits(input, answer.late) /\ TableFits(input, answer.eager)
        /\ Len(answer.late) = Len(answer.eager)
        /\ \A d \in DOMAIN answer.eager : answer.eager[d].complete
    BY FieldsInvParts
  <2>2. DOMAIN answer.late = 1 .. Len(answer.late) /\ DOMAIN answer.eager = 1 .. Len(answer.eager)
    BY <2>1, AppendedElements DEF TableFits
  <2>3. c \in DOMAIN answer.eager
    BY <2>1, <2>2
  <2>4. CompleteFits(input, answer.late[c], c) /\ CompleteFits(input, answer.eager[c], c)
    BY <2>1, <2>3 DEF TableFits, FieldFits
  <2> QED
    BY <2>4 DEF CompleteFits
<1> QED
  BY <1>1, FieldsInvHolds, PTL

-----------------------------------------------------------------------------
(* Decorators: ordered dictionaries.                                       *)

NamesApart(s) == \A i, j \in DOMAIN s : s[i].name = s[j].name => i = j

\* t has the names of s first, in their order.
Continues(t, s) == Len(s) <= Len(t) /\ \A i \in 1 .. Len(s) : t[i].name = s[i].name

SameNames(s, t) == Len(s) = Len(t) /\ \A i \in 1 .. Len(s) : s[i].name = t[i].name

\* What one item does to a dictionary.
LEMMA PutFacts ==
    ASSUME NEW E, NEW s \in Seq(E), NEW e \in E
    PROVE  /\ Put(s, e) \in Seq(E)
           /\ Continues(Put(s, e), s)
           /\ NamesApart(s) =>
                /\ NamesApart(Put(s, e))
                /\ \A x : x \in Elements(Put(s, e)) <=> (x = e \/ (x \in Elements(s) /\ x.name # e.name))
<1>0. Len(s) \in Nat /\ DOMAIN s = 1 .. Len(s) /\ \A i \in 1 .. Len(s) : s[i] \in E
  OBVIOUS
<1>1. CASE \E i \in DOMAIN s : s[i].name = e.name
  <2> DEFINE t == [i \in DOMAIN s |-> IF s[i].name = e.name THEN e ELSE s[i]]
  <2>1. Put(s, e) = t
    BY <1>1 DEF Put
  <2>2. t \in Seq(E) /\ Len(t) = Len(s) /\ DOMAIN t = 1 .. Len(s)
    BY <1>0
  <2>3. \A i \in 1 .. Len(s) : t[i] = IF s[i].name = e.name THEN e ELSE s[i]
    BY <1>0
  <2> HIDE DEF t
  <2>4. PICK k \in 1 .. Len(s) : s[k].name = e.name
    BY <1>0, <1>1
  <2>5. \A i \in 1 .. Len(s) : t[i].name = s[i].name
    BY <2>3
  <2>6. Continues(t, s)
    BY <2>2, <2>5, <1>0 DEF Continues
  <2>7. ASSUME NamesApart(s)
        PROVE  /\ NamesApart(t)
               /\ \A x : x \in Elements(t) <=> (x = e \/ (x \in Elements(s) /\ x.name # e.name))
    <3>1. NamesApart(t)
      BY <2>2, <2>5, <2>7, <1>0 DEF NamesApart
    <3>2. ASSUME NEW x, x \in Elements(t) PROVE x = e \/ (x \in Elements(s) /\ x.name # e.name)
      BY <3>2, <2>2, <2>3, <1>0 DEF Elements
    <3>3. e \in Elements(t)
      BY <2>2, <2>3, <2>4 DEF Elements
    <3>4. ASSUME NEW x, x \in Elements(s), x.name # e.name PROVE x \in Elements(t)
      BY <3>4, <2>2, <2>3, <1>0 DEF Elements
    <3> QED
      BY <3>1, <3>2, <3>3, <3>4
  <2> QED
    BY <2>1, <2>2, <2>6, <2>7
<1>2. CASE ~ \E i \in DOMAIN s : s[i].name = e.name
  <2> DEFINE t == Append(s, e)
  <2>1. Put(s, e) = t
    BY <1>2, Zenon DEF Put
  <2>2. t \in Seq(E) /\ Len(t) = Len(s) + 1 /\ DOMAIN t = 1 .. Len(s) + 1
    OBVIOUS
  <2>3. (\A i \in 1 .. Len(s) : t[i] = s[i]) /\ t[Len(s) + 1] = e
    OBVIOUS
  <2> HIDE DEF t
  <2>4. \A i \in 1 .. Len(s) + 1 : i \in 1 .. Len(s) \/ i = Len(s) + 1
    BY <1>0
  <2>5. Continues(t, s)
    BY <2>2, <2>3, <1>0 DEF Continues
  <2>6. ASSUME NamesApart(s)
        PROVE  /\ NamesApart(t)
               /\ \A x : x \in Elements(t) <=> (x = e \/ (x \in Elements(s) /\ x.name # e.name))
    <3>1. NamesApart(t)
      BY <2>2, <2>3, <2>4, <2>6, <1>0, <1>2 DEF NamesApart
    <3>2. ASSUME NEW x, x \in Elements(t) PROVE x = e \/ (x \in Elements(s) /\ x.name # e.name)
      BY <3>2, <2>2, <2>3, <2>4, <1>0, <1>2 DEF Elements
    <3>3. e \in Elements(t)
      BY <2>2, <2>3, <1>0 DEF Elements
    <3>4. ASSUME NEW x, x \in Elements(s), x.name # e.name PROVE x \in Elements(t)
      BY <3>4, <2>2, <2>3, <1>0 DEF Elements
    <3> QED
      BY <3>1, <3>2, <3>3, <3>4
  <2> QED
    BY <2>1, <2>2, <2>5, <2>6
<1> QED
  BY <1>1, <1>2

\* The dictionaries on the way of an update, one item after the other.
Updates(E, s, o) ==
    {f \in [0 .. Len(o) -> Seq(E)] :
        /\ f[0] = s
        /\ \A k \in 1 .. Len(o) : f[k] = Put(f[k - 1], o[k])
        /\ Updated(s, o) = f[Len(o)]}

LEMMA UpdatedSteps ==
    ASSUME NEW E, NEW s \in Seq(E), NEW o \in Seq(E)
    PROVE  Updates(E, s, o) # {}
<1> DEFINE N == Len(o)
           Step == [k \in 1 .. N |-> [t \in Seq(E) |-> Put(t, o[k])]]
           Loop(h) == [n \in 0 .. N |-> IF n = 0 THEN s ELSE Put(h[n - 1], o[n])]
<1>1. N \in Nat /\ N \in 0 .. N /\ \A k \in 1 .. N : o[k] \in E /\ k \in 0 .. N /\ k # 0 /\ k - 1 \in 0 .. N
  OBVIOUS
<1>2. Step \in [1 .. N -> [Seq(E) -> Seq(E)]]
  BY <1>1, PutFacts
<1>3. \A k \in 1 .. N, t \in Seq(E) : Step[k][t] = Put(t, o[k])
  OBVIOUS
<1> HIDE DEF Step
<1>4. PICK f \in [0 .. N -> Seq(E)] : f[0] = s /\ \A k \in 1 .. N : f[k] = Step[k][f[k - 1]]
  <2> HIDE DEF N
  <2>1. Solutions(N, Seq(E), s, Step) # {}
    BY <1>1, <1>2, SolutionExists
  <2> QED
    BY <2>1 DEF Solutions
<1>5. \A k \in 1 .. N : f[k] = Put(f[k - 1], o[k])
  BY <1>1, <1>3, <1>4
<1>6. f = Loop(f)
  <2>1. \A n \in 0 .. N : f[n] = IF n = 0 THEN s ELSE Put(f[n - 1], o[n])
    BY <1>1, <1>4, <1>5
  <2>2. f = [n \in 0 .. N |-> f[n]]
    BY <1>4
  <2> HIDE DEF N
  <2> QED
    BY <2>1, <2>2, Zenon
<1> DEFINE g == CHOOSE h : h = Loop(h)
<1>7. g = Loop(g)
  <2> HIDE DEF Loop
  <2> QED
    BY <1>6
<1>8. Updated(s, o) = g[N]
  BY DEF Updated
<1>9. DOMAIN g = 0 .. N /\ \A n \in 0 .. N : g[n] = IF n = 0 THEN s ELSE Put(g[n - 1], o[n])
  <2> HIDE DEF g, N
  <2> QED
    BY <1>7
<1> HIDE DEF g, Loop
<1>10. \A n \in 0 .. N : g[n] = f[n]
  <2> DEFINE T == {n \in Nat : n <= N => g[n] = f[n]}
  <2>1. 0 \in T
    BY <1>1, <1>4, <1>9
  <2>2. ASSUME NEW n \in Nat, n \in T PROVE n + 1 \in T
    <3> SUFFICES ASSUME n + 1 <= N PROVE g[n + 1] = f[n + 1]
      OBVIOUS
    <3>1. n + 1 \in 1 .. N /\ n + 1 \in 0 .. N /\ n + 1 # 0 /\ (n + 1) - 1 = n /\ n <= N
      BY <1>1
    <3> QED
      BY <1>5, <1>9, <2>2, <3>1
  <2> HIDE DEF T
  <2>3. Nat \subseteq T
    BY <2>1, <2>2, InductionOnNat
  <2> QED
    BY <2>3, <1>1 DEF T
<1> QED
  BY <1>1, <1>4, <1>5, <1>8, <1>10 DEF Updates

\* An update has the entries of the second dictionary, and of the first one
\* those whose names the second does not have.
LEMMA UpdatedFacts ==
    ASSUME NEW E, NEW s \in Seq(E), NEW o \in Seq(E)
    PROVE  /\ Updated(s, o) \in Seq(E)
           /\ NamesApart(s) /\ NamesApart(o) =>
                /\ NamesApart(Updated(s, o))
                /\ Continues(Updated(s, o), s)
                /\ \A x : x \in Elements(Updated(s, o)) <=>
                            \/ x \in Elements(o)
                            \/ x \in Elements(s) /\ \A y \in Elements(o) : y.name # x.name
<1>1. PICK f \in [0 .. Len(o) -> Seq(E)] :
            /\ f[0] = s
            /\ \A k \in 1 .. Len(o) : f[k] = Put(f[k - 1], o[k])
            /\ Updated(s, o) = f[Len(o)]
  BY UpdatedSteps DEF Updates
<1>2. Len(o) \in Nat /\ DOMAIN o = 1 .. Len(o) /\ \A k \in 1 .. Len(o) : o[k] \in E
  OBVIOUS
<1>3. Updated(s, o) \in Seq(E)
  BY <1>1, <1>2
<1>4. ASSUME NamesApart(s), NamesApart(o)
      PROVE  /\ NamesApart(Updated(s, o))
             /\ Continues(Updated(s, o), s)
             /\ \A x : x \in Elements(Updated(s, o)) <=>
                         \/ x \in Elements(o)
                         \/ x \in Elements(s) /\ \A y \in Elements(o) : y.name # x.name
  <2> DEFINE Holds(n) == /\ NamesApart(f[n])
                         /\ Continues(f[n], s)
                         /\ \A x : x \in Elements(f[n]) <=>
                                     \/ \E i \in 1 .. n : x = o[i]
                                     \/ x \in Elements(s) /\ \A i \in 1 .. n : o[i].name # x.name
             T == {n \in Nat : n <= Len(o) => Holds(n)}
  <2>1. 0 \in T
    <3>1. Continues(s, s)
      BY DEF Continues
    <3>2. \A i \in 1 .. 0 : FALSE
      OBVIOUS
    <3> QED
      BY <1>1, <1>4, <3>1, <3>2
  <2>2. ASSUME NEW n \in Nat, n \in T PROVE n + 1 \in T
    <3> SUFFICES ASSUME n + 1 <= Len(o) PROVE Holds(n + 1)
      OBVIOUS
    <3>1. n + 1 \in 1 .. Len(o) /\ n \in 0 .. Len(o) /\ (n + 1) - 1 = n /\ n <= Len(o)
      BY <1>2
    <3> DEFINE e == o[n + 1]
    <3>2. f[n] \in Seq(E) /\ e \in E /\ f[n + 1] = Put(f[n], e)
      BY <1>1, <1>2, <3>1
    <3>3. Holds(n)
      BY <2>2, <3>1
    <3>4. /\ f[n + 1] \in Seq(E) /\ Continues(f[n + 1], f[n]) /\ NamesApart(f[n + 1])
          /\ \A x : x \in Elements(f[n + 1]) <=> (x = e \/ (x \in Elements(f[n]) /\ x.name # e.name))
      <4>1. NamesApart(f[n])
        BY <3>3
      <4> HIDE DEF e
      <4>2. /\ Put(f[n], e) \in Seq(E) /\ Continues(Put(f[n], e), f[n]) /\ NamesApart(Put(f[n], e))
            /\ \A x : x \in Elements(Put(f[n], e)) <=> (x = e \/ (x \in Elements(f[n]) /\ x.name # e.name))
        BY <3>2, <4>1, PutFacts
      <4> QED
        BY <3>2, <4>2
    <3>5. Continues(f[n + 1], s)
      <4>1. Len(s) \in Nat /\ Len(f[n]) \in Nat /\ Len(f[n + 1]) \in Nat
        BY <3>2, <3>4
      <4> HIDE DEF e
      <4> QED
        BY <3>3, <3>4, <4>1 DEF Continues
    <3>6. \A i \in 1 .. n + 1 : i = n + 1 \/ i \in 1 .. n
      OBVIOUS
    <3>7. \A i \in 1 .. n : i \in 1 .. n + 1 /\ o[i].name # e.name
      <4> SUFFICES ASSUME NEW i \in 1 .. n PROVE i \in 1 .. n + 1 /\ o[i].name # e.name
        OBVIOUS
      <4>1. i \in 1 .. Len(o) /\ i \in 1 .. n + 1 /\ i # n + 1
        BY <1>2, <3>1
      <4> QED
        BY <1>2, <1>4, <3>1, <4>1 DEF NamesApart
    <3>8. n + 1 \in 1 .. n + 1
      OBVIOUS
    <3>9. ASSUME NEW x, x \in Elements(f[n + 1])
          PROVE  \/ \E i \in 1 .. n + 1 : x = o[i]
                 \/ x \in Elements(s) /\ \A i \in 1 .. n + 1 : o[i].name # x.name
      BY <3>3, <3>4, <3>6, <3>7, <3>8, <3>9
    <3>10. ASSUME NEW x, \/ \E i \in 1 .. n + 1 : x = o[i]
                         \/ x \in Elements(s) /\ \A i \in 1 .. n + 1 : o[i].name # x.name
           PROVE  x \in Elements(f[n + 1])
      BY <3>3, <3>4, <3>6, <3>7, <3>8, <3>10
    <3> QED
      BY <3>4, <3>5, <3>9, <3>10
  <2>3. Nat \subseteq T
    <3> HIDE DEF T
    <3> QED
      BY <2>1, <2>2, InductionOnNat
  <2>4. Holds(Len(o))
    <3>1. Len(o) \in T /\ Len(o) <= Len(o)
      <4> HIDE DEF T
      <4> QED
        BY <2>3, <1>2
    <3> QED
      BY <3>1
  <2>5. \A x : x \in Elements(o) <=> \E i \in 1 .. Len(o) : x = o[i]
    BY <1>2 DEF Elements
  <2> HIDE DEF T
  <2>6. f[Len(o)] = Updated(s, o)
    BY <1>1
  <2>7. \A x : (\A i \in 1 .. Len(o) : o[i].name # x.name) <=> \A y \in Elements(o) : y.name # x.name
    BY <2>5
  <2> QED
    BY <2>4, <2>5, <2>6, <2>7
<1> QED
  BY <1>3, <1>4

\* A dictionary that is updated with one that continues it has its order.
LEMMA UpdatedOrder ==
    ASSUME NEW E, NEW s \in Seq(E), NEW o \in Seq(E), NamesApart(o), Continues(o, s)
    PROVE  SameNames(Updated(s, o), o)
<1>1. PICK f \in [0 .. Len(o) -> Seq(E)] :
            /\ f[0] = s
            /\ \A k \in 1 .. Len(o) : f[k] = Put(f[k - 1], o[k])
            /\ Updated(s, o) = f[Len(o)]
  BY UpdatedSteps DEF Updates
<1>2. Len(o) \in Nat /\ DOMAIN o = 1 .. Len(o) /\ Len(s) \in Nat /\ Len(s) <= Len(o)
  BY DEF Continues
<1> DEFINE Longer(n) == IF n <= Len(s) THEN Len(s) ELSE n
           Holds(n) == Len(f[n]) = Longer(n) /\ \A i \in 1 .. Longer(n) : f[n][i].name = o[i].name
           T == {n \in Nat : n <= Len(o) => Holds(n)}
<1>3. 0 \in T
  BY <1>1, <1>2 DEF Continues
<1>4. ASSUME NEW n \in Nat, n \in T PROVE n + 1 \in T
  <2> SUFFICES ASSUME n + 1 <= Len(o) PROVE Holds(n + 1)
    OBVIOUS
  <2>1. n + 1 \in 1 .. Len(o) /\ n \in 0 .. Len(o) /\ (n + 1) - 1 = n /\ n <= Len(o)
    BY <1>2
  <2> DEFINE e == o[n + 1]
             t == f[n]
  <2>2. t \in Seq(E) /\ f[n + 1] = Put(t, e)
    BY <1>1, <2>1
  <2>3. Holds(n)
    BY <1>4, <2>1
  <2>4. Len(t) = Longer(n) /\ DOMAIN t = 1 .. Longer(n) /\ \A i \in 1 .. Longer(n) : t[i].name = o[i].name
    BY <2>2, <2>3
  <2>5. CASE n + 1 <= Len(s)
    <3>1. Longer(n) = Len(s) /\ Longer(n + 1) = Len(s) /\ n + 1 \in 1 .. Longer(n)
      BY <1>2, <2>5
    <3>2. t[n + 1].name = e.name /\ n + 1 \in DOMAIN t
      BY <2>4, <3>1
    <3>3. Put(t, e) = [i \in DOMAIN t |-> IF t[i].name = e.name THEN e ELSE t[i]]
      BY <3>2 DEF Put
    <3>4. \A i \in 1 .. Longer(n) : Put(t, e)[i].name = t[i].name
      BY <2>4, <3>3
    <3>5. Len(Put(t, e)) = Longer(n)
      BY <1>2, <2>4, <3>1, <3>3
    <3> QED
      BY <2>2, <2>4, <3>1, <3>4, <3>5
  <2>6. CASE ~(n + 1 <= Len(s))
    <3>1. Longer(n) = n /\ Longer(n + 1) = n + 1
      BY <1>2, <2>6
    <3>2. ~ \E i \in DOMAIN t : t[i].name = e.name
      <4> SUFFICES ASSUME NEW i \in 1 .. n, t[i].name = e.name PROVE FALSE
        BY <2>4, <3>1
      <4>1. o[i].name = o[n + 1].name /\ i \in DOMAIN o /\ n + 1 \in DOMAIN o /\ i # n + 1
        BY <1>2, <2>1, <2>4, <3>1
      <4> QED
        BY <4>1 DEF NamesApart
    <3>3. Put(t, e) = Append(t, e)
      BY <3>2, Zenon DEF Put
    <3>4. Len(Append(t, e)) = n + 1 /\ (\A i \in 1 .. n : Append(t, e)[i] = t[i]) /\ Append(t, e)[n + 1] = e
      <4> HIDE DEF t, e
      <4> QED
        BY <2>2, <2>4, <3>1
    <3>5. \A i \in 1 .. n + 1 : i = n + 1 \/ i \in 1 .. n
      OBVIOUS
    <3> QED
      BY <2>2, <2>4, <3>1, <3>3, <3>4, <3>5
  <2> QED
    BY <2>5, <2>6
<1>5. Nat \subseteq T
  <2> HIDE DEF T
  <2> QED
    BY <1>3, <1>4, InductionOnNat
<1>6. Holds(Len(o)) /\ Longer(Len(o)) = Len(o)
  BY <1>2, <1>5
<1> QED
  BY <1>1, <1>6 DEF SameNames

\* The order of what an item or an update gives depends on names only.
LEMMA PutAlike ==
    ASSUME NEW E, NEW s \in Seq(E), NEW t \in Seq(E), NEW d \in E, NEW e \in E, SameNames(s, t), d.name = e.name
    PROVE  SameNames(Put(s, d), Put(t, e))
<1>1. Len(s) \in Nat /\ Len(t) = Len(s) /\ DOMAIN s = 1 .. Len(s) /\ DOMAIN t = 1 .. Len(s)
  BY DEF SameNames
<1>2. \A i \in 1 .. Len(s) : s[i].name = t[i].name
  BY DEF SameNames
<1>3. CASE \E i \in DOMAIN s : s[i].name = d.name
  <2> DEFINE u == [i \in DOMAIN s |-> IF s[i].name = d.name THEN d ELSE s[i]]
             v == [i \in DOMAIN t |-> IF t[i].name = e.name THEN e ELSE t[i]]
  <2>1. Put(s, d) = u /\ Put(t, e) = v
    BY Zenon, <1>1, <1>2, <1>3 DEF Put
  <2>2. Len(u) = Len(s) /\ Len(v) = Len(s)
    BY <1>1
  <2>3. \A i \in 1 .. Len(s) : u[i].name = v[i].name
    BY <1>1, <1>2
  <2> HIDE DEF u, v
  <2> QED
    BY <2>1, <2>2, <2>3 DEF SameNames
<1>4. CASE ~ \E i \in DOMAIN s : s[i].name = d.name
  <2> DEFINE u == Append(s, d)
             v == Append(t, e)
  <2>1. ~ \E i \in DOMAIN t : t[i].name = e.name
    BY <1>1, <1>2, <1>4
  <2>2. Put(s, d) = u /\ Put(t, e) = v
    BY <1>4, <2>1, Zenon DEF Put
  <2>3. /\ Len(u) = Len(s) + 1 /\ Len(v) = Len(s) + 1
        /\ u[Len(s) + 1] = d /\ v[Len(s) + 1] = e
        /\ \A i \in 1 .. Len(s) : u[i] = s[i] /\ v[i] = t[i]
    BY <1>1
  <2>4. \A i \in 1 .. Len(s) + 1 : i = Len(s) + 1 \/ i \in 1 .. Len(s)
    BY <1>1
  <2> HIDE DEF u, v
  <2>5. \A i \in 1 .. Len(u) : u[i].name = v[i].name
    BY <1>2, <2>3, <2>4
  <2> QED
    BY <2>2, <2>3, <2>5 DEF SameNames
<1> QED
  BY <1>3, <1>4

LEMMA UpdatedAlike ==
    ASSUME NEW E, NEW s \in Seq(E), NEW t \in Seq(E), NEW o \in Seq(E), NEW q \in Seq(E),
           SameNames(s, t), SameNames(o, q)
    PROVE  SameNames(Updated(s, o), Updated(t, q))
<1>0. Updates(E, s, o) # {} /\ Updates(E, t, q) # {}
  BY UpdatedSteps
<1>1. PICK f \in [0 .. Len(o) -> Seq(E)] :
            /\ f[0] = s
            /\ \A k \in 1 .. Len(o) : f[k] = Put(f[k - 1], o[k])
            /\ Updated(s, o) = f[Len(o)]
  BY <1>0 DEF Updates
<1>2. PICK g \in [0 .. Len(q) -> Seq(E)] :
            /\ g[0] = t
            /\ \A k \in 1 .. Len(q) : g[k] = Put(g[k - 1], q[k])
            /\ Updated(t, q) = g[Len(q)]
  BY <1>0 DEF Updates
<1>3. Len(o) \in Nat /\ Len(q) = Len(o) /\ \A k \in 1 .. Len(o) : o[k] \in E /\ q[k] \in E /\ o[k].name = q[k].name
  BY DEF SameNames
<1> DEFINE T == {n \in Nat : n <= Len(o) => SameNames(f[n], g[n])}
<1>4. 0 \in T
  BY <1>1, <1>2
<1>5. ASSUME NEW n \in Nat, n \in T PROVE n + 1 \in T
  <2> SUFFICES ASSUME n + 1 <= Len(o) PROVE SameNames(f[n + 1], g[n + 1])
    OBVIOUS
  <2>1. n + 1 \in 1 .. Len(o) /\ n \in 0 .. Len(o) /\ (n + 1) - 1 = n /\ n <= Len(o)
    BY <1>3
  <2>2. f[n] \in Seq(E) /\ g[n] \in Seq(E) /\ f[n + 1] = Put(f[n], o[n + 1]) /\ g[n + 1] = Put(g[n], q[n + 1])
    BY <1>1, <1>2, <1>3, <2>1
  <2>3. SameNames(f[n], g[n])
    BY <1>5, <2>1
  <2> QED
    BY <1>3, <2>1, <2>2, <2>3, PutAlike
<1>6. Nat \subseteq T
  <2> HIDE DEF T
  <2> QED
    BY <1>4, <1>5, InductionOnNat
<1>7. SameNames(f[Len(o)], g[Len(o)])
  BY <1>3, <1>6
<1> QED
  BY <1>1, <1>2, <1>3, <1>7

\* The dictionaries on the way of a merge.
LEMMA MergedIs ==
    ASSUME NEW E, NEW dicts \in Seq(Seq(E))
    PROVE  /\ Merged(dicts, 0) = <<>>
           /\ \A n \in 1 .. Len(dicts) : Merged(dicts, n) = Updated(Merged(dicts, n - 1), dicts[n])
           /\ \A n \in 0 .. Len(dicts) : Merged(dicts, n) \in Seq(E)
<1> DEFINE N == Len(dicts)
           D == Seq(E)
           base == << >>
           Step == [k \in 1 .. N |-> [t \in D |-> Updated(t, dicts[k])]]
           Loop(h) == [n \in 0 .. N |-> IF n = 0 THEN << >> ELSE Updated(h[n - 1], dicts[n])]
<1>1. N \in Nat /\ 0 \in 0 .. N /\ \A k \in 1 .. N : dicts[k] \in D /\ k \in 0 .. N /\ k # 0 /\ k - 1 \in 0 .. N
  OBVIOUS
<1>2. base \in D
  OBVIOUS
<1>3. Step \in [1 .. N -> [D -> D]]
  BY <1>1, UpdatedFacts
<1>4. \A k \in 1 .. N, t \in D : Step[k][t] = Updated(t, dicts[k])
  OBVIOUS
<1> HIDE DEF Step
<1>5. PICK f \in [0 .. N -> D] : f[0] = base /\ \A k \in 1 .. N : f[k] = Step[k][f[k - 1]]
  <2> HIDE DEF N, D, base
  <2>1. Solutions(N, D, base, Step) # {}
    BY <1>1, <1>2, <1>3, SolutionExists
  <2> QED
    BY <2>1 DEF Solutions
<1>6. f = Loop(f)
  <2>1. \A n \in 0 .. N : f[n] = IF n = 0 THEN << >> ELSE Updated(f[n - 1], dicts[n])
    <3> HIDE DEF D
    <3>1. \A n \in 1 .. N : f[n - 1] \in D
      BY <1>1, <1>5
    <3>2. \A n \in 1 .. N : f[n] = Updated(f[n - 1], dicts[n])
      BY <1>4, <1>5, <3>1
    <3>3. \A n \in 0 .. N : n # 0 => n \in 1 .. N
      BY <1>1
    <3> QED
      BY <1>5, <3>2, <3>3
  <2>2. f = [n \in 0 .. N |-> f[n]]
    BY <1>5
  <2> HIDE DEF N
  <2> QED
    BY <2>1, <2>2, Zenon
<1> DEFINE g == CHOOSE h : h = Loop(h)
<1>7. g = Loop(g)
  <2> HIDE DEF Loop
  <2> QED
    BY <1>6
<1>8. \A n : Merged(dicts, n) = g[n]
  BY DEF Merged
<1>9. \A n \in 0 .. N : g[n] = IF n = 0 THEN << >> ELSE Updated(g[n - 1], dicts[n])
  <2> HIDE DEF g, N
  <2> QED
    BY <1>7
<1> HIDE DEF g, Loop
<1>10. \A n \in 0 .. N : g[n] \in D
  <2> DEFINE T == {n \in Nat : n <= N => g[n] \in D}
  <2>1. 0 \in T
    BY <1>1, <1>2, <1>9
  <2>2. ASSUME NEW n \in Nat, n \in T PROVE n + 1 \in T
    <3> SUFFICES ASSUME n + 1 <= N PROVE g[n + 1] \in D
      OBVIOUS
    <3>1. n + 1 \in 1 .. N /\ n + 1 \in 0 .. N /\ n + 1 # 0 /\ (n + 1) - 1 = n /\ n <= N
      BY <1>1
    <3>2. g[n + 1] = Updated(g[n], dicts[n + 1]) /\ g[n] \in D /\ dicts[n + 1] \in D
      BY <1>1, <1>9, <2>2, <3>1
    <3> QED
      BY <3>2, UpdatedFacts
  <2> HIDE DEF T
  <2>3. Nat \subseteq T
    BY <2>1, <2>2, InductionOnNat
  <2> QED
    BY <2>3, <1>1 DEF T
<1> QED
  BY <1>1, <1>8, <1>9, <1>10

NamesIn(s) == {s[i].name : i \in DOMAIN s}

LEMMA ContinuesOn ==
    ASSUME NEW E, NEW s \in Seq(E), NEW t \in Seq(E), NEW u \in Seq(E), Continues(t, s), Continues(u, t)
    PROVE  Continues(u, s)
<1>1. Len(s) \in Nat /\ Len(t) \in Nat /\ Len(u) \in Nat
  OBVIOUS
<1> QED
  BY <1>1 DEF Continues

\* A merge has each name once, as the last of the dictionaries that have it says, and
\* in the order of the first ones.
LEMMA MergedFacts ==
    ASSUME NEW E, NEW dicts \in Seq(Seq(E)), \A i \in 1 .. Len(dicts) : NamesApart(dicts[i])
    PROVE  \A n \in 0 .. Len(dicts) :
              /\ NamesApart(Merged(dicts, n))
              /\ \A x \in Elements(Merged(dicts, n)) :
                    \E i \in 1 .. n : /\ x \in Elements(dicts[i])
                                     /\ \A j \in i + 1 .. n : x.name \notin NamesIn(dicts[j])
              /\ \A i \in 1 .. n : NamesIn(dicts[i]) \subseteq NamesIn(Merged(dicts, n))
              /\ \A p \in 0 .. n : Continues(Merged(dicts, n), Merged(dicts, p))
<1> DEFINE M(n) == Merged(dicts, n)
           N == Len(dicts)
           Latest(x, n) == \E i \in 1 .. n : /\ x \in Elements(dicts[i])
                                          /\ \A j \in i + 1 .. n : x.name \notin NamesIn(dicts[j])
           Holds(n) == /\ NamesApart(M(n))
                       /\ \A x \in Elements(M(n)) : Latest(x, n)
                       /\ \A i \in 1 .. n : NamesIn(dicts[i]) \subseteq NamesIn(M(n))
                       /\ \A p \in 0 .. n : Continues(M(n), M(p))
           T == {n \in Nat : n <= N => Holds(n)}
<1>1. N \in Nat /\ \A n \in 1 .. N : dicts[n] \in Seq(E)
  OBVIOUS
<1>2. /\ M(0) = << >>
      /\ \A n \in 1 .. N : M(n) = Updated(M(n - 1), dicts[n])
      /\ \A n \in 0 .. N : M(n) \in Seq(E)
  BY MergedIs
<1>3. 0 \in T
  <2>1. NamesApart(<< >>) /\ Elements(<< >>) = {} /\ Continues(<< >>, << >>)
    BY DEF NamesApart, Elements, Continues
  <2>2. \A p \in 0 .. 0 : p = 0
    OBVIOUS
  <2>3. \A i \in 1 .. 0 : FALSE
    OBVIOUS
  <2> HIDE DEF M, Latest
  <2> QED
    BY <1>2, <2>1, <2>2, <2>3
<1>4. ASSUME NEW n \in Nat, n \in T PROVE n + 1 \in T
  <2> SUFFICES ASSUME n + 1 <= N PROVE Holds(n + 1)
    OBVIOUS
  <2>1. n + 1 \in 1 .. N /\ n \in 0 .. N /\ n + 1 \in 0 .. N /\ (n + 1) - 1 = n /\ n <= N
    BY <1>1
  <2> DEFINE o == dicts[n + 1]
  <2>2. o \in Seq(E) /\ M(n) \in Seq(E) /\ M(n + 1) \in Seq(E) /\ M(n + 1) = Updated(M(n), o) /\ NamesApart(o)
    <3> HIDE DEF M
    <3> QED
      BY <1>1, <1>2, <2>1
  <2>3. Holds(n)
    BY <1>4, <2>1
  <2> HIDE DEF o
  <2>4. /\ NamesApart(Updated(M(n), o)) /\ Continues(Updated(M(n), o), M(n))
        /\ \A x : x \in Elements(Updated(M(n), o)) <=>
                     \/ x \in Elements(o)
                     \/ x \in Elements(M(n)) /\ \A y \in Elements(o) : y.name # x.name
    <3>1. NamesApart(M(n))
      BY <2>3
    <3> HIDE DEF M
    <3> QED
      BY <2>2, <3>1, UpdatedFacts
  <2>5. ASSUME NEW p \in 0 .. n + 1 PROVE Continues(M(n + 1), M(p))
    <3>1. CASE p = n + 1
      BY <3>1 DEF Continues
    <3>2. CASE p # n + 1
      <4>1. p \in 0 .. n /\ p \in 0 .. N
        BY <2>1, <3>2
      <4>2. Continues(M(n), M(p)) /\ M(p) \in Seq(E)
        BY <1>2, <2>3, <4>1
      <4> HIDE DEF M
      <4> QED
        BY <2>2, <2>4, <4>2, ContinuesOn
    <3> QED
      BY <3>1, <3>2
  <2>6. ASSUME NEW x \in Elements(M(n + 1)) PROVE Latest(x, n + 1)
    <3>1. CASE x \in Elements(o)
      <4>1. n + 1 \in 1 .. n + 1 /\ \A j \in (n + 1) + 1 .. n + 1 : FALSE
        OBVIOUS
      <4> QED
        BY <3>1, <4>1 DEF o
    <3>2. CASE x \in Elements(M(n)) /\ \A y \in Elements(o) : y.name # x.name
      <4>1. PICK i \in 1 .. n : x \in Elements(dicts[i]) /\ \A j \in i + 1 .. n : x.name \notin NamesIn(dicts[j])
        BY <2>3, <3>2
      <4>2. x.name \notin NamesIn(dicts[n + 1])
        <5>1. x.name \notin NamesIn(o)
          <6> SUFFICES ASSUME NEW k \in DOMAIN o, o[k].name = x.name PROVE FALSE
            BY Zenon DEF NamesIn
          <6>1. o[k] \in Elements(o)
            BY DEF Elements
          <6> QED
            BY <3>2, <6>1
        <5> QED
          BY <5>1 DEF o
      <4>3. i \in 1 .. n + 1 /\ \A j \in i + 1 .. n + 1 : j = n + 1 \/ j \in i + 1 .. n
        OBVIOUS
      <4>4. \A j \in i + 1 .. n + 1 : x.name \notin NamesIn(dicts[j])
        BY <4>1, <4>2, <4>3
      <4> QED
        BY <4>1, <4>3, <4>4
    <3> HIDE DEF M, Latest
    <3> QED
      BY <2>2, <2>4, <3>1, <3>2
  <2>7. \A s \in Seq(E), t \in Seq(E) : Continues(t, s) => NamesIn(s) \subseteq NamesIn(t)
    <3> SUFFICES ASSUME NEW s \in Seq(E), NEW t \in Seq(E), Continues(t, s), NEW i \in DOMAIN s
                 PROVE  s[i].name \in NamesIn(t)
      BY DEF NamesIn
    <3>1. i \in 1 .. Len(s) /\ i \in DOMAIN t
      BY DEF Continues
    <3> QED
      BY <3>1 DEF Continues, NamesIn
  <2>8. ASSUME NEW i \in 1 .. n + 1 PROVE NamesIn(dicts[i]) \subseteq NamesIn(M(n + 1))
    <3>1. CASE i = n + 1
      <4> SUFFICES ASSUME NEW k \in DOMAIN o PROVE o[k].name \in NamesIn(M(n + 1))
        BY <3>1 DEF NamesIn, o
      <4>1. o[k] \in Elements(M(n + 1))
        <5>1. o[k] \in Elements(o)
          BY DEF Elements
        <5> HIDE DEF M
        <5> QED
          BY <2>2, <2>4, <5>1
      <4> HIDE DEF M
      <4> QED
        BY <4>1 DEF Elements, NamesIn
    <3>2. CASE i # n + 1
      <4>1. i \in 1 .. n
        BY <3>2
      <4>2. NamesIn(dicts[i]) \subseteq NamesIn(M(n))
        BY <2>3, <4>1
      <4>3. NamesIn(M(n)) \subseteq NamesIn(M(n + 1))
        <5> HIDE DEF M
        <5> QED
          BY <2>2, <2>4, <2>7
      <4> QED
        BY <4>2, <4>3
    <3> QED
      BY <3>1, <3>2
  <2> HIDE DEF M, Latest
  <2> QED
    BY <2>2, <2>4, <2>5, <2>6, <2>8
<1>5. Nat \subseteq T
  <2> HIDE DEF T
  <2> QED
    BY <1>3, <1>4, InductionOnNat
<1> QED
  BY <1>1, <1>5

LEMMA MergedAlike ==
    ASSUME NEW E, NEW dicts \in Seq(Seq(E)), NEW others \in Seq(Seq(E)), NEW n \in Nat,
           n <= Len(dicts), n <= Len(others), \A i \in 1 .. n : SameNames(dicts[i], others[i])
    PROVE  SameNames(Merged(dicts, n), Merged(others, n))
<1> DEFINE T == {k \in Nat : k <= n => SameNames(Merged(dicts, k), Merged(others, k))}
<1>1. /\ Merged(dicts, 0) = << >>
      /\ \A k \in 1 .. Len(dicts) : Merged(dicts, k) = Updated(Merged(dicts, k - 1), dicts[k])
      /\ \A k \in 0 .. Len(dicts) : Merged(dicts, k) \in Seq(E)
  BY MergedIs
<1>2. /\ Merged(others, 0) = << >>
      /\ \A k \in 1 .. Len(others) : Merged(others, k) = Updated(Merged(others, k - 1), others[k])
      /\ \A k \in 0 .. Len(others) : Merged(others, k) \in Seq(E)
  BY MergedIs
<1>3. 0 \in T
  BY <1>1, <1>2 DEF SameNames
<1>4. ASSUME NEW k \in Nat, k \in T PROVE k + 1 \in T
  <2> SUFFICES ASSUME k + 1 <= n PROVE SameNames(Merged(dicts, k + 1), Merged(others, k + 1))
    OBVIOUS
  <2>1. /\ k + 1 \in 1 .. n /\ k + 1 \in 1 .. Len(dicts) /\ k + 1 \in 1 .. Len(others) /\ (k + 1) - 1 = k
        /\ k \in 0 .. Len(dicts) /\ k \in 0 .. Len(others) /\ k <= n
    OBVIOUS
  <2>2. dicts[k + 1] \in Seq(E) /\ others[k + 1] \in Seq(E)
    BY <2>1
  <2>3. SameNames(Merged(dicts, k), Merged(others, k)) /\ SameNames(dicts[k + 1], others[k + 1])
    BY <1>4, <2>1
  <2>4. Merged(dicts, k) \in Seq(E) /\ Merged(others, k) \in Seq(E)
    BY <1>1, <1>2, <2>1
  <2>5. SameNames(Updated(Merged(dicts, k), dicts[k + 1]), Updated(Merged(others, k), others[k + 1]))
    BY <2>2, <2>3, <2>4, UpdatedAlike
  <2> QED
    BY <1>1, <1>2, <2>1, <2>5
<1>5. Nat \subseteq T
  <2> HIDE DEF T
  <2> QED
    BY <1>3, <1>4, InductionOnNat
<1> QED
  BY <1>5

\* The dictionary on the way through the namespace.
LEMMA WithOwnIs ==
    ASSUME NEW E, NEW s \in Seq(E), NEW asked, NEW c, NEW kind, asked.names \in Seq(Range(asked.names)),
           \A n \in 1 .. Len(asked.names) : OwnEntry(c, asked.names[n], asked) \in E
    PROVE  /\ WithOwn(c, kind, s, asked, 0) = s
           /\ \A n \in 1 .. Len(asked.names) :
                 WithOwn(c, kind, s, asked, n) =
                   IF asked.own[c][asked.names[n]].kind = kind
                   THEN Put(WithOwn(c, kind, s, asked, n - 1), OwnEntry(c, asked.names[n], asked))
                   ELSE WithOwn(c, kind, s, asked, n - 1)
           /\ \A n \in 0 .. Len(asked.names) : WithOwn(c, kind, s, asked, n) \in Seq(E)
<1> DEFINE names == asked.names
           N == Len(names)
           D == Seq(E)
           AfterName(t, n) == IF asked.own[c][names[n]].kind = kind THEN Put(t, OwnEntry(c, names[n], asked)) ELSE t
           Step == [k \in 1 .. N |-> [t \in D |-> AfterName(t, k)]]
           Loop(h) == [n \in 0 .. N |->
                         IF n = 0 THEN s
                         ELSE IF asked.own[c][names[n]].kind = kind
                              THEN Put(h[n - 1], OwnEntry(c, names[n], asked))
                              ELSE h[n - 1]]
<1>1. N \in Nat /\ 0 \in 0 .. N /\ \A k \in 1 .. N : k \in 0 .. N /\ k # 0 /\ k - 1 \in 0 .. N
  OBVIOUS
<1>2. s \in D
  OBVIOUS
<1>3. \A k \in 1 .. N, t \in D : AfterName(t, k) \in D
  BY PutFacts
<1>4. Step \in [1 .. N -> [D -> D]] /\ \A k \in 1 .. N, t \in D : Step[k][t] = AfterName(t, k)
  <2> HIDE DEF AfterName, D, N
  <2> QED
    BY <1>3
<1> HIDE DEF Step
<1>5. PICK f \in [0 .. N -> D] : f[0] = s /\ \A k \in 1 .. N : f[k] = Step[k][f[k - 1]]
  <2> HIDE DEF N, D
  <2>1. Solutions(N, D, s, Step) # {}
    BY <1>1, <1>2, <1>4, SolutionExists
  <2> QED
    BY <2>1 DEF Solutions
<1>6. f = Loop(f)
  <2>1. \A n \in 0 .. N : f[n] = IF n = 0 THEN s ELSE AfterName(f[n - 1], n)
    <3> HIDE DEF D, AfterName, N
    <3>1. \A n \in 1 .. N : f[n - 1] \in D
      BY <1>1, <1>5
    <3>2. \A n \in 1 .. N : f[n] = AfterName(f[n - 1], n)
      BY <1>4, <1>5, <3>1
    <3>3. \A n \in 0 .. N : n # 0 => n \in 1 .. N
      BY <1>1
    <3> QED
      BY <1>5, <3>2, <3>3
  <2>2. f = [n \in 0 .. N |-> f[n]]
    BY <1>5
  <2> HIDE DEF N
  <2> QED
    BY <2>1, <2>2, Zenon
<1> DEFINE g == CHOOSE h : h = Loop(h)
<1>7. g = Loop(g)
  <2> HIDE DEF Loop
  <2> QED
    BY <1>6
<1>8. \A n : WithOwn(c, kind, s, asked, n) = g[n]
  BY DEF WithOwn
<1>9. \A n \in 0 .. N : g[n] = IF n = 0 THEN s ELSE AfterName(g[n - 1], n)
  <2> HIDE DEF g, N
  <2> QED
    BY <1>7
<1> HIDE DEF g, Loop
<1>10. \A n \in 0 .. N : g[n] \in D
  <2> HIDE DEF AfterName, D
  <2> DEFINE T == {n \in Nat : n <= N => g[n] \in D}
  <2>1. 0 \in T
    BY <1>1, <1>2, <1>9
  <2>2. ASSUME NEW n \in Nat, n \in T PROVE n + 1 \in T
    <3> SUFFICES ASSUME n + 1 <= N PROVE g[n + 1] \in D
      OBVIOUS
    <3>1. n + 1 \in 1 .. N /\ n + 1 \in 0 .. N /\ n + 1 # 0 /\ (n + 1) - 1 = n /\ n <= N
      BY <1>1
    <3> HIDE DEF N
    <3>2. g[n + 1] = AfterName(g[n], n + 1) /\ g[n] \in D
      BY <1>9, <2>2, <3>1
    <3> QED
      BY <1>3, <3>1, <3>2
  <2> HIDE DEF T
  <2>3. Nat \subseteq T
    BY <2>1, <2>2, InductionOnNat
  <2> QED
    BY <2>3, <1>1 DEF T
<1> QED
  BY <1>1, <1>8, <1>9, <1>10

OnePerField(entries) == \A x, y \in Elements(entries) : x.field = y.field => x = y

\* What a class decorates itself replaces what it inherits.
OwnReplaces(asked, c, kind, s, n) ==
    LET t == WithOwn(c, kind, s, asked, n)
    IN  /\ NamesApart(t)
        /\ Continues(t, s)
        /\ \A x : x \in Elements(t) <=>
                    \/ \E i \in 1 .. n : asked.own[c][asked.names[i]].kind = kind /\ x = OwnEntry(c, asked.names[i], asked)
                    \/ /\ x \in Elements(s)
                       /\ \A i \in 1 .. n : asked.own[c][asked.names[i]].kind = kind => asked.names[i] # x.name

LEMMA WithOwnFacts ==
    ASSUME NEW E, NEW s \in Seq(E), NEW asked, NEW c, NEW kind, asked.names \in Seq(Range(asked.names)),
           \A n \in 1 .. Len(asked.names) : OwnEntry(c, asked.names[n], asked) \in E,
           \A i, j \in DOMAIN asked.names : asked.names[i] = asked.names[j] => i = j,
           NamesApart(s)
    PROVE  \A n \in 0 .. Len(asked.names) : OwnReplaces(asked, c, kind, s, n)
<1> DEFINE names == asked.names
           N == Len(names)
           W(n) == WithOwn(c, kind, s, asked, n)
           Own(i) == OwnEntry(c, names[i], asked)
           Mine(i) == asked.own[c][names[i]].kind = kind
           From(x, n) == \/ \E i \in 1 .. n : Mine(i) /\ x = Own(i)
                         \/ x \in Elements(s) /\ \A i \in 1 .. n : Mine(i) => names[i] # x.name
           Holds(n) == NamesApart(W(n)) /\ Continues(W(n), s) /\ \A x : x \in Elements(W(n)) <=> From(x, n)
           T == {n \in Nat : n <= N => Holds(n)}
<1>1. N \in Nat /\ DOMAIN names = 1 .. N
  OBVIOUS
<1>2. /\ W(0) = s
      /\ \A n \in 1 .. N : W(n) = IF Mine(n) THEN Put(W(n - 1), Own(n)) ELSE W(n - 1)
      /\ \A n \in 0 .. N : W(n) \in Seq(E)
  BY WithOwnIs
<1>3. \A i \in 1 .. N : Own(i).name = names[i] /\ Own(i) \in E
  BY DEF OwnEntry
<1>4. 0 \in T
  <2>1. Continues(s, s)
    BY DEF Continues
  <2>2. \A i \in 1 .. 0 : FALSE
    OBVIOUS
  <2> HIDE DEF W, Own, Mine
  <2> QED
    BY <1>2, <2>1, <2>2
<1>5. ASSUME NEW n \in Nat, n \in T PROVE n + 1 \in T
  <2> SUFFICES ASSUME n + 1 <= N PROVE Holds(n + 1)
    OBVIOUS
  <2>1. n + 1 \in 1 .. N /\ n \in 0 .. N /\ n + 1 \in 0 .. N /\ (n + 1) - 1 = n /\ n <= N
    BY <1>1
  <2>2. Holds(n)
    BY <1>5, <2>1
  <2>3. W(n) \in Seq(E) /\ W(n + 1) \in Seq(E) /\ W(n + 1) = IF Mine(n + 1) THEN Put(W(n), Own(n + 1)) ELSE W(n)
    <3> HIDE DEF W, Mine, Own, N
    <3> QED
      BY <1>2, <2>1
  <2>4. \A i \in 1 .. n + 1 : i = n + 1 \/ i \in 1 .. n
    OBVIOUS
  <2>5. n + 1 \in 1 .. n + 1 /\ \A i \in 1 .. n : i \in 1 .. n + 1 /\ i \in 1 .. N /\ i # n + 1
    BY <2>1
  <2>6. CASE Mine(n + 1)
    <3> DEFINE e == Own(n + 1)
    <3>1. e \in E /\ e.name = names[n + 1] /\ W(n + 1) = Put(W(n), e)
      BY <1>3, <2>1, <2>3, <2>6
    <3>2. \A i \in 1 .. n : Own(i).name # e.name /\ names[i] # e.name
      BY <1>1, <1>3, <2>1, <2>5, <3>1
    <3>3. NamesApart(W(n)) /\ Continues(W(n), s) /\ \A x : x \in Elements(W(n)) <=> From(x, n)
      BY <2>2
    <3>4. /\ Put(W(n), e) \in Seq(E) /\ Continues(Put(W(n), e), W(n)) /\ NamesApart(Put(W(n), e))
          /\ \A x : x \in Elements(Put(W(n), e)) <=> (x = e \/ (x \in Elements(W(n)) /\ x.name # e.name))
      <4> HIDE DEF e, W
      <4> QED
        BY <2>3, <3>1, <3>3, PutFacts
    <3>5. Continues(W(n + 1), s)
      <4> HIDE DEF e, W
      <4> QED
        BY <2>3, <3>1, <3>3, <3>4, ContinuesOn
    <3>6. ASSUME NEW x, From(x, n), x.name # e.name PROVE From(x, n + 1)
      <4> HIDE DEF W, Own, Mine
      <4> QED
        BY <2>4, <2>5, <3>1, <3>6
    <3>7. From(e, n + 1)
      BY <2>5, <2>6
    <3>8. ASSUME NEW x, From(x, n + 1) PROVE x = e \/ (From(x, n) /\ x.name # e.name)
      <4>1. CASE \E i \in 1 .. n + 1 : Mine(i) /\ x = Own(i)
        <5> HIDE DEF W, Own, Mine
        <5> QED
          BY <2>4, <3>2, <4>1 DEF e
      <4>2. CASE x \in Elements(s) /\ \A i \in 1 .. n + 1 : Mine(i) => names[i] # x.name
        <5> HIDE DEF W, Own, Mine
        <5> QED
          BY <2>5, <2>6, <3>1, <4>2
      <4> QED
        BY Zenon, <3>8, <4>1, <4>2
    <3> HIDE DEF e, W, From
    <3> QED
      BY <3>1, <3>3, <3>4, <3>5, <3>6, <3>7, <3>8
  <2>7. CASE ~Mine(n + 1)
    <3>1. W(n + 1) = W(n)
      BY <2>3, <2>7
    <3>2. \A x : From(x, n) <=> From(x, n + 1)
      <4> HIDE DEF W, Own, Mine
      <4> QED
        BY <2>4, <2>5, <2>7
    <3> HIDE DEF W, From
    <3> QED
      BY <2>2, <3>1, <3>2
  <2> QED
    BY <2>6, <2>7
<1>6. Nat \subseteq T
  <2> HIDE DEF T
  <2> QED
    BY <1>4, <1>5, InductionOnNat
<1>7. \A n \in 0 .. N : Holds(n)
  <2> HIDE DEF Holds
  <2> QED
    BY <1>1, <1>6
<1> QED
  BY <1>7 DEF OwnReplaces

\* The clause of the error: without one, a field keeps one serializer.
LEMMA WithOwnOnePerField ==
    ASSUME NEW E, NEW s \in Seq(E), NEW asked, NEW c, NEW kind, asked.names \in Seq(Range(asked.names)),
           \A n \in 1 .. Len(asked.names) : OwnEntry(c, asked.names[n], asked) \in E,
           NamesApart(s), OnePerField(s),
           \A i, j \in DOMAIN asked.names : asked.names[i] = asked.names[j] => i = j,
           \A n \in 1 .. Len(asked.names) :
              asked.own[c][asked.names[n]].kind = kind =>
                 ~SerializerClash(WithOwn(c, kind, s, asked, n - 1), asked.names[n], asked.own[c][asked.names[n]].field)
    PROVE  OnePerField(WithOwn(c, kind, s, asked, Len(asked.names)))
<1> DEFINE N == Len(asked.names)
           W(n) == WithOwn(c, kind, s, asked, n)
           e(n) == OwnEntry(c, asked.names[n], asked)
           T == {n \in Nat : n <= N => OnePerField(W(n))}
<1>1. N \in Nat
  OBVIOUS
<1>2. /\ W(0) = s
      /\ \A n \in 1 .. N : W(n) = IF asked.own[c][asked.names[n]].kind = kind THEN Put(W(n - 1), e(n)) ELSE W(n - 1)
      /\ \A n \in 0 .. N : W(n) \in Seq(E)
  BY WithOwnIs
<1>3. \A n \in 0 .. N : NamesApart(W(n))
  <2>1. \A n \in 0 .. N : OwnReplaces(asked, c, kind, s, n)
    BY WithOwnFacts
  <2> QED
    BY <2>1 DEF OwnReplaces
<1>4. 0 \in T
  BY <1>2
<1>5. ASSUME NEW n \in Nat, n \in T PROVE n + 1 \in T
  <2> SUFFICES ASSUME n + 1 <= N PROVE OnePerField(W(n + 1))
    OBVIOUS
  <2>1. n + 1 \in 1 .. N /\ n \in 0 .. N /\ (n + 1) - 1 = n /\ n <= N
    BY <1>1
  <2>2. OnePerField(W(n))
    BY <1>5, <2>1
  <2>3. CASE asked.own[c][asked.names[n + 1]].kind = kind
    <3> DEFINE new == e(n + 1)
    <3>1. W(n + 1) = Put(W(n), new) /\ W(n) \in Seq(E) /\ new \in E /\ NamesApart(W(n))
      BY <1>2, <1>3, <2>1, <2>3
    <3>2. new.name = asked.names[n + 1] /\ new.field = asked.own[c][asked.names[n + 1]].field
      BY DEF OwnEntry
    <3>3. \A x \in Elements(W(n)) : x.name # new.name => x.field # new.field
      <4>1. ~SerializerClash(W(n), new.name, new.field)
        <5> HIDE DEF W, new
        <5> QED
          BY <2>1, <2>3, <3>2 DEF W
      <4> HIDE DEF W, new
      <4> QED
        BY <4>1 DEF SerializerClash, Elements
    <3>4. \A x : x \in Elements(Put(W(n), new)) <=> (x = new \/ (x \in Elements(W(n)) /\ x.name # new.name))
      <4> HIDE DEF W, new
      <4> QED
        BY <3>1, PutFacts
    <3> HIDE DEF W, new
    <3> QED
      BY <2>2, <3>1, <3>3, <3>4 DEF OnePerField
  <2>4. CASE asked.own[c][asked.names[n + 1]].kind # kind
    BY <1>2, <2>1, <2>2, <2>4
  <2> QED
    BY <2>3, <2>4
<1>6. Nat \subseteq T
  <2> HIDE DEF T
  <2> QED
    BY <1>4, <1>5, InductionOnNat
<1> QED
  BY <1>1, <1>6

-----------------------------------------------------------------------------
(* Decorators: classes and where they are in the MRO.                      *)

LEMMA MroParts ==
    ASSUME NEW asked \in DecoratorInputs, NEW c \in DOMAIN asked.mro
    PROVE  LET mro == asked.mro[c]
           IN  /\ mro \in Seq(DOMAIN asked.mro) /\ Len(mro) \in Nat \ {0} /\ DOMAIN mro = 1 .. Len(mro)
               /\ mro[1] = c /\ c \in Range(mro) /\ Range(mro) \subseteq DOMAIN asked.mro
               /\ \A i, j \in 1 .. Len(mro) : mro[i] = mro[j] => i = j
               /\ \A d \in Range(mro) : Range(asked.mro[d]) \subseteq Range(mro)
               /\ \A d \in Range(mro) : \A i, j \in DOMAIN asked.mro[d], k, l \in 1 .. Len(mro) :
                     i < j /\ mro[k] = asked.mro[d][i] /\ mro[l] = asked.mro[d][j] => k < l
<1> DEFINE mro == asked.mro[c]
<1>1. Linearized(asked.mro)
  BY DecoratorsAssumption
<1>2. /\ mro \in Seq(DOMAIN asked.mro) /\ mro # <<>> /\ mro[1] = c
      /\ \A i, j \in DOMAIN mro : mro[i] = mro[j] => i = j
      /\ \A d \in Range(mro) :
            /\ Range(asked.mro[d]) \subseteq Range(mro)
            /\ \A i, j \in DOMAIN asked.mro[d], k, l \in DOMAIN mro :
                  i < j /\ mro[k] = asked.mro[d][i] /\ mro[l] = asked.mro[d][j] => k < l
  BY <1>1 DEF Linearized
<1>3. Len(mro) \in Nat \ {0} /\ DOMAIN mro = 1 .. Len(mro) /\ \A i \in 1 .. Len(mro) : mro[i] \in DOMAIN asked.mro
  BY <1>2
<1> HIDE DEF mro
<1>4. c \in Range(mro) /\ Range(mro) \subseteq DOMAIN asked.mro
  BY <1>2, <1>3 DEF Range
<1> QED
  BY <1>2, <1>3, <1>4 DEF mro

LEMMA DecoratorsInputParts ==
    ASSUME NEW asked \in DecoratorInputs
    PROVE  /\ asked.algorithm = "decorators"
           /\ DOMAIN asked.own = DOMAIN asked.mro
           /\ asked.names \in Seq(Range(asked.names))
           /\ Len(asked.names) \in Nat /\ DOMAIN asked.names = 1 .. Len(asked.names)
           /\ \A n : n \in Range(asked.names) <=> \E i \in 1 .. Len(asked.names) : n = asked.names[i]
           /\ \A i, j \in DOMAIN asked.names : asked.names[i] = asked.names[j] => i = j
<1>1. /\ asked.algorithm = "decorators"
      /\ DOMAIN asked.own = DOMAIN asked.mro
      /\ asked.names \in Seq(Range(asked.names))
      /\ \A i, j \in DOMAIN asked.names : asked.names[i] = asked.names[j] => i = j
  BY DecoratorsAssumption
<1>2. Len(asked.names) \in Nat /\ DOMAIN asked.names = 1 .. Len(asked.names)
  BY <1>1
<1>3. \A n : n \in Range(asked.names) <=> \E i \in 1 .. Len(asked.names) : n = asked.names[i]
  BY <1>2 DEF Range
<1> QED
  BY <1>1, <1>2, <1>3

\* What is said of a class is said of those it inherits from.
LEMMA AncestorsAlike ==
    ASSUME NEW asked \in DecoratorInputs, NEW c \in DOMAIN asked.mro, NEW d \in Range(asked.mro[c])
    PROVE  /\ Connected(c, asked) => Connected(d, asked)
           /\ Linear(c, asked) => Linear(d, asked)
<1> DEFINE mro == asked.mro[c]
           own == asked.mro[d]
<1>1. /\ DOMAIN mro = 1 .. Len(mro) /\ Range(mro) \subseteq DOMAIN asked.mro /\ Range(own) \subseteq Range(mro)
      /\ \A i, j \in DOMAIN own, k, l \in 1 .. Len(mro) : i < j /\ mro[k] = own[i] /\ mro[l] = own[j] => k < l
  <2>1. /\ DOMAIN mro = 1 .. Len(mro) /\ Range(mro) \subseteq DOMAIN asked.mro
        /\ \A f \in Range(mro) : Range(asked.mro[f]) \subseteq Range(mro)
        /\ \A f \in Range(mro) : \A i, j \in DOMAIN asked.mro[f], k, l \in 1 .. Len(mro) :
                     i < j /\ mro[k] = asked.mro[f][i] /\ mro[l] = asked.mro[f][j] => k < l
    BY MroParts
  <2> QED
    BY Zenon, <2>1
<1>2. \A i \in DOMAIN own : \E k \in DOMAIN mro : mro[k] = own[i]
  BY <1>1 DEF Range
<1>3. ASSUME Connected(c, asked) PROVE Connected(d, asked)
  <2> SUFFICES ASSUME NEW i \in DOMAIN own, NEW j \in DOMAIN own, NEW k \in DOMAIN own, i < j, j < k,
                      own[k] \in Range(asked.mro[own[i]])
               PROVE  own[j] \in Range(asked.mro[own[i]])
    BY DEF Connected
  <2>1. PICK p \in DOMAIN mro : mro[p] = own[i]
    BY <1>2
  <2>2. PICK q \in DOMAIN mro : mro[q] = own[j]
    BY <1>2
  <2>3. PICK r \in DOMAIN mro : mro[r] = own[k]
    BY <1>2
  <2>4. p < q /\ q < r
    BY <1>1, <2>1, <2>2, <2>3
  <2> QED
    BY <1>3, <2>1, <2>2, <2>3, <2>4 DEF Connected
<1>4. ASSUME Linear(c, asked) PROVE Linear(d, asked)
  <2> SUFFICES ASSUME NEW i \in DOMAIN own, NEW j \in DOMAIN own, i < j
               PROVE  own[j] \in Range(asked.mro[own[i]])
    BY DEF Linear
  <2>1. PICK p \in DOMAIN mro : mro[p] = own[i]
    BY <1>2
  <2>2. PICK q \in DOMAIN mro : mro[q] = own[j]
    BY <1>2
  <2>3. p < q
    BY <1>1, <2>1, <2>2
  <2> QED
    BY <1>4, <2>1, <2>2, <2>3 DEF Linear
<1> QED
  BY <1>3, <1>4

\* The first class of an MRO that is one of some classes.
LEMMA FunctionIs ==
    ASSUME NEW asked \in DecoratorInputs, NEW c \in DOMAIN asked.mro, NEW name,
           \E d \in Range(asked.mro[c]) : asked.own[d][name].kind # "absent"
    PROVE  /\ FunctionOf(name, c, asked) \in DOMAIN asked.mro
           /\ IsClosest(FunctionOf(name, c, asked), c, Having(name, asked), asked)
<1> DEFINE mro == asked.mro[c]
           having == {i \in DOMAIN mro : asked.own[mro[i]][name].kind # "absent"}
           first == CHOOSE i \in having : \A j \in having : i <= j
<1>1. DOMAIN mro = 1 .. Len(mro) /\ Len(mro) \in Nat /\ \A i \in 1 .. Len(mro) : mro[i] \in DOMAIN asked.mro
  BY MroParts
<1>2. having \in SUBSET Nat /\ having # {}
  <2>1. PICK i \in DOMAIN mro : asked.own[mro[i]][name].kind # "absent"
    BY DEF Range
  <2>2. i \in having
    BY <2>1
  <2>3. having \subseteq DOMAIN mro
    OBVIOUS
  <2>4. DOMAIN mro \subseteq Nat
    BY <1>1
  <2> HIDE DEF having, mro
  <2> QED
    BY <2>2, <2>3, <2>4
<1>3. \E i \in having : \A j \in having : i <= j
  <2> HIDE DEF having
  <2> QED
    BY <1>2, LeastNumber
<1>4. first \in having /\ \A j \in having : first <= j
  <2> HIDE DEF having
  <2> QED
    BY <1>3
<1>5. FunctionOf(name, c, asked) = mro[first]
  BY DEF FunctionOf
<1> HIDE DEF first
<1>6. mro[first] \in Having(name, asked)
  BY <1>1, <1>4 DEF Having
<1>7. \A j \in 1 .. first - 1 : mro[j] \notin Having(name, asked)
  BY <1>1, <1>4 DEF Having
<1> QED
  BY <1>1, <1>4, <1>5, <1>6, <1>7 DEF IsClosest

-----------------------------------------------------------------------------
(* Decorators: the tables.                                                 *)

Entries(asked) ==
    [name : Range(asked.names), info : DOMAIN asked.mro, func : DOMAIN asked.mro,
     field : {asked.own[c][n].field : c \in DOMAIN asked.mro, n \in Range(asked.names)}]

\* The decorated names of a class, its own and those it inherits.
Applied(asked, c, kind) == {n \in Range(asked.names) : \E d \in Range(asked.mro[c]) : asked.own[d][n].kind = kind}

EntryFits(asked, c, kind, x) ==
    /\ IsClosest(x.func, c, Having(x.name, asked), asked)
    /\ x.field = asked.own[x.info][x.name].field
    /\ Connected(c, asked) => IsClosest(x.info, c, Decorating(x.name, kind, asked), asked)

\* What a table has of one kind.
EntriesFit(asked, c, kind, entries) ==
    /\ entries \in Seq(Entries(asked))
    /\ NamesApart(entries)
    /\ NamesIn(entries) = Applied(asked, c, kind)
    /\ \A x \in Elements(entries) : EntryFits(asked, c, kind, x)
    /\ kind = "field_serializers" /\ Linear(c, asked) => OnePerField(entries)

LEMMA BoundEntry ==
    ASSUME NEW asked \in DecoratorInputs, NEW kind \in Kinds, NEW c \in DOMAIN asked.mro, NEW d \in Range(asked.mro[c]),
           NEW x \in Entries(asked), x.name \in Applied(asked, d, kind)
    PROVE  LET bound == BindToCls(x, c, asked)
           IN  /\ bound \in Entries(asked)
               /\ bound.name = x.name /\ bound.info = x.info /\ bound.field = x.field
               /\ IsClosest(bound.func, c, Having(x.name, asked), asked)
<1>1. PICK e \in Range(asked.mro[d]) : asked.own[e][x.name].kind = kind
  BY DEF Applied
<1>2. e \in Range(asked.mro[c])
  BY MroParts
<1>3. kind # "absent"
  BY DecoratorsAssumption
<1> DEFINE f == FunctionOf(x.name, c, asked)
<1>4. f \in DOMAIN asked.mro /\ IsClosest(f, c, Having(x.name, asked), asked)
  <2>1. \E a \in Range(asked.mro[c]) : asked.own[a][x.name].kind # "absent"
    BY <1>1, <1>2, <1>3
  <2> QED
    BY <2>1, FunctionIs
<1>5. BindToCls(x, c, asked) = [x EXCEPT !.func = f]
  BY DEF BindToCls
<1> HIDE DEF f
<1>6. x = [name |-> x.name, info |-> x.info, func |-> x.func, field |-> x.field]
  BY DEF Entries
<1> DEFINE b == [x EXCEPT !.func = f]
<1>7. b = [name |-> x.name, info |-> x.info, func |-> f, field |-> x.field]
  BY <1>6
<1>8. b \in Entries(asked)
  BY <1>4, <1>7 DEF Entries
<1> HIDE DEF b
<1> QED
  BY <1>4, <1>5, <1>7, <1>8 DEF b

\* The dictionaries that build() merges; the i-th is of the i-th class from the end of the MRO.
LEMMA BoundTablesFit ==
    ASSUME NEW asked \in DecoratorInputs, NEW kind \in Kinds, NEW c \in DOMAIN asked.mro, NEW tables,
           \A d \in Range(asked.mro[c]) \ {c} : EntriesFit(asked, d, kind, tables[d][kind])
    PROVE  LET dicts == BoundTables(c, kind, asked, tables)
               Of(i) == asked.mro[c][Len(asked.mro[c]) + 1 - i]
           IN  /\ dicts \in Seq(Seq(Entries(asked))) /\ Len(dicts) = Len(asked.mro[c]) - 1
               /\ \A i \in 1 .. Len(dicts) :
                     /\ Of(i) \in Range(asked.mro[c]) \ {c}
                     /\ SameNames(dicts[i], tables[Of(i)][kind])
                     /\ NamesApart(dicts[i]) /\ NamesIn(dicts[i]) = Applied(asked, Of(i), kind)
                     /\ \A x \in Elements(dicts[i]) :
                           /\ IsClosest(x.func, c, Having(x.name, asked), asked)
                           /\ \E y \in Elements(tables[Of(i)][kind]) :
                                 y.name = x.name /\ y.info = x.info /\ y.field = x.field
<1> DEFINE mro == asked.mro[c]
           m == Len(mro)
           Of(i) == mro[m + 1 - i]
           dicts == BoundTables(c, kind, asked, tables)
<1>1. /\ m \in Nat \ {0} /\ DOMAIN mro = 1 .. m /\ mro[1] = c /\ \A i, j \in 1 .. m : mro[i] = mro[j] => i = j
  BY MroParts
<1>2. \A i \in 1 .. m - 1 : m + 1 - i \in 1 .. m /\ m + 1 - i # 1
  BY <1>1
<1>3. ASSUME NEW i \in 1 .. m - 1 PROVE Of(i) \in Range(mro) \ {c}
  <2> DEFINE k == m + 1 - i
  <2>1. k \in 1 .. m /\ k # 1 /\ 1 \in 1 .. m
    BY <1>1, <1>2
  <2> HIDE DEF k
  <2>2. mro[k] \in Range(mro) /\ mro[k] # c
    BY <1>1, <2>1 DEF Range
  <2> QED
    BY <2>2 DEF k
<1> DEFINE Bound(i) == [j \in 1 .. Len(tables[Of(i)][kind]) |-> BindToCls(tables[Of(i)][kind][j], c, asked)]
<1>4. dicts = [i \in 1 .. m - 1 |-> Bound(i)]
  BY DEF BoundTables
<1>5. ASSUME NEW i \in 1 .. m - 1
      PROVE  LET d == Of(i)
                 table == tables[d][kind]
             IN  /\ Bound(i) \in Seq(Entries(asked))
                 /\ SameNames(Bound(i), table)
                 /\ NamesApart(Bound(i)) /\ NamesIn(Bound(i)) = Applied(asked, d, kind)
                 /\ \A x \in Elements(Bound(i)) :
                       /\ IsClosest(x.func, c, Having(x.name, asked), asked)
                       /\ \E y \in Elements(table) : y.name = x.name /\ y.info = x.info /\ y.field = x.field
  <2> DEFINE d == Of(i)
             table == tables[d][kind]
             b == Bound(i)
  <2>1. d \in Range(mro) /\ EntriesFit(asked, d, kind, table)
    BY <1>3
  <2> HIDE DEF d
  <2>2. /\ table \in Seq(Entries(asked)) /\ NamesApart(table) /\ NamesIn(table) = Applied(asked, d, kind)
        /\ Len(table) \in Nat /\ DOMAIN table = 1 .. Len(table) /\ \A j \in 1 .. Len(table) : table[j] \in Entries(asked)
    BY <2>1 DEF EntriesFit
  <2>3. ASSUME NEW j \in 1 .. Len(table)
        PROVE  LET bound == BindToCls(table[j], c, asked)
               IN  /\ bound \in Entries(asked)
                   /\ bound.name = table[j].name /\ bound.info = table[j].info /\ bound.field = table[j].field
                   /\ IsClosest(bound.func, c, Having(table[j].name, asked), asked)
    <3>1. table[j].name \in Applied(asked, d, kind)
      BY <2>2 DEF NamesIn
    <3> HIDE DEF table
    <3> QED
      BY <2>1, <2>2, <3>1, BoundEntry
  <2>4. b = [j \in 1 .. Len(table) |-> BindToCls(table[j], c, asked)]
    BY DEF d
  <2> HIDE DEF table, b
  <2>5. /\ b \in Seq(Entries(asked)) /\ Len(b) = Len(table) /\ DOMAIN b = 1 .. Len(table)
        /\ \A j \in 1 .. Len(table) : b[j] = BindToCls(table[j], c, asked)
    BY <2>2, <2>3, <2>4
  <2>6. \A j \in 1 .. Len(table) : b[j].name = table[j].name
    BY <2>3, <2>5
  <2>7. SameNames(b, table)
    BY <2>5, <2>6 DEF SameNames
  <2>8. NamesApart(b)
    BY <2>2, <2>5, <2>6 DEF NamesApart
  <2>9. NamesIn(b) = Applied(asked, d, kind)
    BY <2>2, <2>5, <2>6 DEF NamesIn
  <2>10. ASSUME NEW x \in Elements(b)
         PROVE  /\ IsClosest(x.func, c, Having(x.name, asked), asked)
                /\ \E y \in Elements(table) : y.name = x.name /\ y.info = x.info /\ y.field = x.field
    <3>1. PICK j \in 1 .. Len(table) : x = BindToCls(table[j], c, asked)
      BY <2>5 DEF Elements
    <3>2. table[j] \in Elements(table)
      BY <2>2 DEF Elements
    <3> QED
      BY <2>3, <3>1, <3>2
  <2> QED
    BY Zenon, <2>5, <2>7, <2>8, <2>9, <2>10 DEF d, table, b
<1> HIDE DEF Bound, dicts
<1>6. dicts \in Seq(Seq(Entries(asked))) /\ Len(dicts) = m - 1 /\ \A i \in 1 .. m - 1 : dicts[i] = Bound(i)
  <2>1. \A i \in 1 .. m - 1 : Bound(i) \in Seq(Entries(asked))
    BY <1>5
  <2>2. m - 1 \in Nat
    BY <1>1
  <2> HIDE DEF m
  <2> QED
    BY <1>4, <2>1, <2>2
<1> QED
  BY <1>3, <1>5, <1>6 DEF dicts

\* An entry of the nearest class that has the name is as the closest class that decorated it says.
LEMMA ClosestInfo ==
    ASSUME NEW asked \in DecoratorInputs, NEW c \in DOMAIN asked.mro, Connected(c, asked),
           NEW classes, NEW e, NEW p \in 2 .. Len(asked.mro[c]),
           IsClosest(e, asked.mro[c][p], classes, asked),
           \A j \in 2 .. p - 1 : asked.mro[c][j] \notin classes
    PROVE  \E i \in 2 .. Len(asked.mro[c]) :
              asked.mro[c][i] = e /\ e \in classes /\ \A j \in 2 .. i - 1 : asked.mro[c][j] \notin classes
<1> DEFINE mro == asked.mro[c]
           d == mro[p]
           own == asked.mro[d]
<1>1. /\ Len(mro) \in Nat \ {0} /\ DOMAIN mro = 1 .. Len(mro) /\ Range(mro) \subseteq DOMAIN asked.mro
      /\ \A i, j \in 1 .. Len(mro) : mro[i] = mro[j] => i = j
      /\ \A f \in Range(mro) : Range(asked.mro[f]) \subseteq Range(mro)
      /\ \A f \in Range(mro) : \A i, j \in DOMAIN asked.mro[f], k, l \in 1 .. Len(mro) :
                     i < j /\ mro[k] = asked.mro[f][i] /\ mro[l] = asked.mro[f][j] => k < l
  BY MroParts
<1>2. p \in 1 .. Len(mro) /\ p \in Nat /\ d \in Range(mro) /\ d \in DOMAIN asked.mro
  BY <1>1 DEF Range
<1>3. Len(own) \in Nat \ {0} /\ DOMAIN own = 1 .. Len(own) /\ own[1] = d
  <2> HIDE DEF d
  <2> QED
    BY <1>2, MroParts
<1>4. PICK q \in 1 .. Len(own) : own[q] = e /\ e \in classes /\ \A j \in 1 .. q - 1 : own[j] \notin classes
  BY <1>3 DEF IsClosest
<1>5. e \in Range(own)
  BY <1>3, <1>4 DEF Range
<1>6. PICK i \in 1 .. Len(mro) : mro[i] = e
  <2>1. e \in Range(mro)
    BY <1>1, <1>2, <1>5
  <2> QED
    BY <1>1, <2>1 DEF Range
<1>7. p <= i
  <2>1. CASE q = 1
    <3>1. mro[p] = mro[i]
      BY <1>3, <1>4, <1>6, <2>1
    <3>2. p = i
      BY <1>1, <1>2, <3>1
    <3> QED
      BY <1>2, <3>2
  <2>2. CASE q # 1
    <3>1. 1 \in DOMAIN own /\ q \in DOMAIN own /\ 1 < q
      BY <1>3, <2>2
    <3>2. p < i
      BY <1>1, <1>2, <1>3, <1>4, <1>6, <3>1
    <3> QED
      BY <1>2, <3>2
  <2> QED
    BY <2>1, <2>2
<1>8. ASSUME NEW j \in 2 .. i - 1 PROVE mro[j] \notin classes
  <2>1. j \in 1 .. Len(mro) /\ j \in Nat
    BY <1>1
  <2>2. CASE j < p
    BY <1>2, <2>2
  <2>3. CASE j = p
    <3>1. q # 1
      BY <1>1, <1>2, <1>3, <1>4, <1>6, <2>1, <2>3
    <3>2. 1 \in 1 .. q - 1
      BY <3>1
    <3> QED
      BY <1>3, <1>4, <2>3, <3>2
  <2>4. CASE p < j
    <3>1. mro[j] \in Range(own)
      <4>1. p \in DOMAIN mro /\ j \in DOMAIN mro /\ i \in DOMAIN mro /\ p < j /\ j < i /\ mro[i] \in Range(asked.mro[mro[p]])
        BY <1>1, <1>2, <1>6, <1>5, <2>1, <2>4
      <4> QED
        BY <4>1 DEF Connected
    <3>2. PICK r \in 1 .. Len(own) : own[r] = mro[j]
      BY <1>3, <3>1 DEF Range
    <3>3. r # q
      BY <1>1, <1>4, <1>6, <2>1, <3>2
    <3>4. ~(q < r)
      <4> SUFFICES ASSUME q < r PROVE FALSE
        OBVIOUS
      <4>1. i < j
        BY <1>1, <1>2, <1>3, <1>4, <1>6, <2>1, <3>2
      <4> QED
        BY <4>1
    <3>5. r \in 1 .. q - 1
      BY <1>3, <3>3, <3>4
    <3> QED
      BY <1>4, <3>2, <3>5
  <2> QED
    BY <1>2, <2>1, <2>2, <2>3, <2>4
<1>9. i \in 2 .. Len(mro)
  BY <1>7
<1> QED
  BY <1>4, <1>6, <1>8, <1>9

InheritedDecoratorsFit(asked, c, kind, entries) ==
    LET mro == asked.mro[c]
    IN  /\ entries \in Seq(Entries(asked))
        /\ NamesApart(entries)
        /\ NamesIn(entries) \subseteq Applied(asked, c, kind)
        /\ \A d \in Range(mro) \ {c} : Applied(asked, d, kind) \subseteq NamesIn(entries)
        /\ \A x \in Elements(entries) :
              /\ IsClosest(x.func, c, Having(x.name, asked), asked)
              /\ x.field = asked.own[x.info][x.name].field
              /\ Connected(c, asked) =>
                    \E i \in 2 .. Len(mro) :
                       /\ mro[i] = x.info /\ x.info \in Decorating(x.name, kind, asked)
                       /\ \A j \in 2 .. i - 1 : mro[j] \notin Decorating(x.name, kind, asked)
        /\ kind = "field_serializers" /\ Linear(c, asked) => OnePerField(entries)

LEMMA WhatIsInherited ==
    ASSUME NEW asked \in DecoratorInputs, NEW kind \in Kinds, NEW c \in DOMAIN asked.mro, NEW tables,
           \A d \in Range(asked.mro[c]) \ {c} : EntriesFit(asked, d, kind, tables[d][kind])
    PROVE  InheritedDecoratorsFit(asked, c, kind, Inherited(c, kind, asked, tables))
<1> DEFINE mro == asked.mro[c]
           m == Len(mro)
           dicts == BoundTables(c, kind, asked, tables)
           N == Len(dicts)
           inh == Merged(dicts, N)
           Of(i) == mro[m + 1 - i]
<1>1. /\ m \in Nat \ {0} /\ DOMAIN mro = 1 .. m /\ mro[1] = c /\ Range(mro) \subseteq DOMAIN asked.mro
      /\ \A d \in Range(mro) : Range(asked.mro[d]) \subseteq Range(mro)
      /\ \A i, j \in 1 .. m : mro[i] = mro[j] => i = j
  BY MroParts
<1>2. /\ dicts \in Seq(Seq(Entries(asked))) /\ N = m - 1
      /\ \A i \in 1 .. N :
            /\ Of(i) \in Range(mro) \ {c}
            /\ NamesApart(dicts[i]) /\ NamesIn(dicts[i]) = Applied(asked, Of(i), kind)
            /\ \A x \in Elements(dicts[i]) :
                  /\ IsClosest(x.func, c, Having(x.name, asked), asked)
                  /\ \E y \in Elements(tables[Of(i)][kind]) : y.name = x.name /\ y.info = x.info /\ y.field = x.field
  BY BoundTablesFit
<1>3. Inherited(c, kind, asked, tables) = inh
  BY <1>2 DEF Inherited
<1> HIDE DEF dicts
<1>4. N \in Nat /\ N \in 0 .. N
  BY <1>1, <1>2
<1>5. inh \in Seq(Entries(asked))
  BY <1>2, <1>4, MergedIs
<1>6. /\ NamesApart(inh)
      /\ \A x \in Elements(inh) :
            \E i \in 1 .. N : x \in Elements(dicts[i]) /\ \A j \in i + 1 .. N : x.name \notin NamesIn(dicts[j])
      /\ \A i \in 1 .. N : NamesIn(dicts[i]) \subseteq NamesIn(inh)
  BY <1>2, <1>4, MergedFacts
<1> HIDE DEF inh, N
<1>7. \A x \in Elements(inh) : x.name \in Range(asked.names) /\ x.name \in NamesIn(inh)
  <2> SUFFICES ASSUME NEW k \in DOMAIN inh PROVE inh[k].name \in Range(asked.names) /\ inh[k].name \in NamesIn(inh)
    BY DEF Elements
  <2>1. inh[k] \in Entries(asked)
    BY <1>5
  <2> QED
    BY <2>1 DEF Entries, NamesIn
<1>8. \A i \in 1 .. N : \A x \in Elements(dicts[i]) : x.name \in NamesIn(dicts[i])
  BY DEF Elements, NamesIn
<1>9. \A d \in Range(mro) : Applied(asked, d, kind) \subseteq Applied(asked, c, kind)
  BY <1>1 DEF Applied
<1>10. NamesIn(inh) \subseteq Applied(asked, c, kind)
  <2> SUFFICES ASSUME NEW k \in DOMAIN inh PROVE inh[k].name \in Applied(asked, c, kind)
    BY DEF NamesIn
  <2>1. PICK i \in 1 .. N : inh[k] \in Elements(dicts[i])
    BY <1>6 DEF Elements
  <2>2. inh[k].name \in NamesIn(dicts[i])
    BY <1>8, <2>1
  <2> HIDE DEF Of
  <2>3. NamesIn(dicts[i]) = Applied(asked, Of(i), kind) /\ Of(i) \in Range(mro)
    BY <1>2
  <2> QED
    BY <1>9, <2>2, <2>3
<1>11. \A q \in 2 .. m : m + 1 - q \in 1 .. N /\ Of(m + 1 - q) = mro[q]
  <2> SUFFICES ASSUME NEW q \in 2 .. m PROVE m + 1 - q \in 1 .. N /\ m + 1 - (m + 1 - q) = q
    BY Zenon
  <2> HIDE DEF m
  <2> QED
    BY <1>1, <1>2
<1>12. \A d \in Range(mro) \ {c} : \E q \in 2 .. m : mro[q] = d
  <2> SUFFICES ASSUME NEW d \in Range(mro), d # c PROVE \E q \in 2 .. m : mro[q] = d
    OBVIOUS
  <2>1. PICK q \in 1 .. m : mro[q] = d
    BY <1>1 DEF Range
  <2>2. q # 1
    BY <1>1, <2>1
  <2> QED
    BY <1>1, <2>1, <2>2
<1>13. ASSUME NEW d \in Range(mro) \ {c} PROVE Applied(asked, d, kind) \subseteq NamesIn(inh)
  <2>1. PICK q \in 2 .. m : mro[q] = d
    BY <1>12
  <2> DEFINE i == m + 1 - q
  <2>2. i \in 1 .. N /\ Of(i) = d
    BY <1>11, <2>1
  <2> HIDE DEF i, Of
  <2> QED
    BY <1>2, <1>6, <2>2
<1>14. ASSUME NEW q \in 2 .. m, NEW x, x.name \in Range(asked.names), x.name \notin NamesIn(dicts[m + 1 - q])
       PROVE  mro[q] \notin Decorating(x.name, kind, asked)
  <2>1. mro[q] \in Range(mro) /\ mro[q] \in DOMAIN asked.mro
    BY <1>1 DEF Range
  <2>2. mro[q] \in Range(asked.mro[mro[q]])
    <3> DEFINE d == mro[q]
    <3> HIDE DEF d
    <3>1. d \in Range(asked.mro[d])
      BY <2>1, MroParts DEF d
    <3> QED
      BY <3>1 DEF d
  <2> DEFINE i == m + 1 - q
  <2>3. i \in 1 .. N /\ Of(i) = mro[q]
    BY <1>11
  <2>4. x.name \notin Applied(asked, mro[q], kind)
    <3>1. NamesIn(dicts[i]) = Applied(asked, Of(i), kind)
      <4> HIDE DEF i, Of
      <4> QED
        BY <1>2, <2>3
    <3> QED
      BY <1>14, <2>3, <3>1, Zenon
  <2> QED
    BY <1>14, <2>2, <2>4 DEF Applied, Decorating
<1>15. ASSUME NEW x \in Elements(inh)
       PROVE  /\ IsClosest(x.func, c, Having(x.name, asked), asked)
              /\ x.field = asked.own[x.info][x.name].field
              /\ Connected(c, asked) =>
                    \E i \in 2 .. m :
                       /\ mro[i] = x.info /\ x.info \in Decorating(x.name, kind, asked)
                       /\ \A j \in 2 .. i - 1 : mro[j] \notin Decorating(x.name, kind, asked)
  <2>1. PICK i \in 1 .. N : x \in Elements(dicts[i]) /\ \A j \in i + 1 .. N : x.name \notin NamesIn(dicts[j])
    BY <1>6
  <2> DEFINE p == m + 1 - i
             d == mro[p]
  <2>2. p \in 2 .. m /\ d \in Range(mro) \ {c}
    <3>1. p \in 2 .. m
      BY <1>1, <1>2
    <3> QED
      BY <1>2, <3>1
  <2> HIDE DEF d
  <2>3. EntriesFit(asked, d, kind, tables[d][kind])
    BY <2>2
  <2>4. PICK y \in Elements(tables[d][kind]) : y.name = x.name /\ y.info = x.info /\ y.field = x.field
    BY <1>2, <2>1 DEF d
  <2>5. EntryFits(asked, d, kind, y)
    BY <2>3, <2>4 DEF EntriesFit
  <2>6. IsClosest(x.func, c, Having(x.name, asked), asked) /\ x.field = asked.own[x.info][x.name].field
    BY <1>2, <2>1, <2>4, <2>5 DEF EntryFits
  <2>7. ASSUME Connected(c, asked)
        PROVE  \E k \in 2 .. m :
                  /\ mro[k] = x.info /\ x.info \in Decorating(x.name, kind, asked)
                  /\ \A j \in 2 .. k - 1 : mro[j] \notin Decorating(x.name, kind, asked)
    <3>1. Connected(d, asked)
      BY <2>2, <2>7, AncestorsAlike
    <3>2. IsClosest(x.info, d, Decorating(x.name, kind, asked), asked)
      BY <2>4, <2>5, <3>1 DEF EntryFits
    <3>3. ASSUME NEW j \in 2 .. p - 1 PROVE mro[j] \notin Decorating(x.name, kind, asked)
      <4>1. j \in 2 .. m /\ m + 1 - j \in i + 1 .. N
        BY <1>1, <1>2, <2>2
      <4>2. x.name \notin NamesIn(dicts[m + 1 - j])
        BY <2>1, <4>1
      <4> QED
        BY <1>7, <1>14, <4>1, <4>2
    <3> DEFINE classes == Decorating(x.name, kind, asked)
    <3> HIDE DEF classes, p
    <3>4. IsClosest(x.info, mro[p], classes, asked) /\ p \in 2 .. Len(mro) /\ \A j \in 2 .. p - 1 : mro[j] \notin classes
      BY <2>2, <3>2, <3>3 DEF d, classes
    <3>5. \E k \in 2 .. Len(mro) : mro[k] = x.info /\ x.info \in classes /\ \A j \in 2 .. k - 1 : mro[j] \notin classes
      BY <2>7, <3>4, ClosestInfo
    <3> QED
      BY <3>5 DEF classes
  <2> QED
    BY <2>6, <2>7
<1>16. ASSUME kind = "field_serializers", Linear(c, asked) PROVE OnePerField(inh)
  <2> SUFFICES ASSUME NEW x \in Elements(inh), NEW z \in Elements(inh), x.field = z.field PROVE x = z
    BY DEF OnePerField
  <2>1. ASSUME NEW w \in Elements(inh) PROVE 2 \in 2 .. m /\ w \in Elements(dicts[m - 1])
    <3>1. PICK i \in 1 .. N : w \in Elements(dicts[i]) /\ \A j \in i + 1 .. N : w.name \notin NamesIn(dicts[j])
      BY <1>6
    <3>2. 2 \in 2 .. m
      BY <1>1, <1>2
    <3>3. CASE i = m - 1
      BY <3>1, <3>2, <3>3
    <3>4. CASE i # m - 1
      <4> DEFINE p == m + 1 - i
                 d == mro[p]
                 b == mro[2]
      <4>1. p \in 1 .. m /\ 2 < p /\ m - 1 \in i + 1 .. N /\ m - 1 \in 1 .. N /\ m + 1 - (m - 1) = 2
        BY <1>1, <1>2, <3>2, <3>4
      <4>2. w.name \in Applied(asked, d, kind)
        BY <1>2, <1>8, <3>1
      <4> HIDE DEF p
      <4>3. d \in Range(asked.mro[b])
        <5>1. 2 \in DOMAIN mro /\ p \in DOMAIN mro /\ 2 < p
          BY <1>1, <3>2, <4>1
        <5> QED
          BY <1>16, <5>1 DEF Linear
      <4>4. b \in DOMAIN asked.mro
        BY <1>1, <3>2 DEF Range
      <4>5. Range(asked.mro[d]) \subseteq Range(asked.mro[b])
        <5> HIDE DEF b, d
        <5> QED
          BY <4>3, <4>4, MroParts
      <4>6. w.name \in Applied(asked, b, kind)
        BY <4>2, <4>5 DEF Applied
      <4>7. NamesIn(dicts[m - 1]) = Applied(asked, b, kind)
        BY <1>2, <4>1
      <4> QED
        BY <3>1, <4>1, <4>6, <4>7
    <3> QED
      BY <3>3, <3>4
  <2> DEFINE b == mro[2]
  <2>2. m - 1 \in 1 .. N /\ Of(m - 1) = b
    <3>1. m - 1 \in 1 .. N /\ m + 1 - (m - 1) = 2
      BY <1>1, <1>2, <2>1
    <3> QED
      BY <3>1
  <2>3. b \in Range(mro) \ {c}
    BY <1>2, <2>2
  <2>4. /\ \E y \in Elements(tables[b][kind]) : y.name = x.name /\ y.field = x.field
        /\ \E y \in Elements(tables[b][kind]) : y.name = z.name /\ y.field = z.field
    <3> HIDE DEF b, Of
    <3> QED
      BY <1>2, <2>1, <2>2
  <2>5. OnePerField(tables[b][kind])
    <3> HIDE DEF b
    <3>1. Linear(b, asked)
      BY <1>16, <2>3, AncestorsAlike
    <3> QED
      BY <1>16, <2>3, <3>1 DEF EntriesFit
  <2>6. x.name = z.name
    BY <2>4, <2>5 DEF OnePerField
  <2> QED
    BY <1>6, <2>6 DEF NamesApart, Elements
<1> QED
  BY <1>3, <1>5, <1>6, <1>10, <1>13, <1>15, <1>16 DEF InheritedDecoratorsFit

LEMMA SuffixAt ==
    ASSUME NEW S, NEW s \in Seq(S), NEW t \in Seq(S), IsSuffix(s, t)
    PROVE  /\ Len(s) <= Len(t)
           /\ \A i \in 1 .. Len(s) : t[Len(t) + 1 - i] = s[Len(s) + 1 - i]
<1> DEFINE u == Reverse(s)
           v == Reverse(t)
<1>1. Len(s) \in Nat /\ Len(t) \in Nat
  OBVIOUS
<1>2. \A i \in 1 .. Len(s) : Len(s) - i + 1 \in 1 .. Len(s) /\ Len(s) - i + 1 = Len(s) + 1 - i
  BY <1>1
<1>3. \A i \in 1 .. Len(t) : Len(t) - i + 1 \in 1 .. Len(t) /\ Len(t) - i + 1 = Len(t) + 1 - i
  BY <1>1
<1>4. u \in Seq(S) /\ Len(u) = Len(s) /\ \A i \in 1 .. Len(s) : u[i] = s[Len(s) + 1 - i]
  BY <1>1, <1>2 DEF Reverse
<1>5. v \in Seq(S) /\ Len(v) = Len(t) /\ \A i \in 1 .. Len(t) : v[i] = t[Len(t) + 1 - i]
  BY <1>1, <1>3 DEF Reverse
<1> HIDE DEF u, v
<1>6. IsPrefix(u, v)
  BY DEF IsSuffix, u, v
<1>7. Len(u) <= Len(v) /\ SubSeq(u, 1, Len(u)) = SubSeq(v, 1, Len(u))
  BY <1>6 DEF IsPrefix
<1>8. \A i \in 1 .. Len(u) : SubSeq(u, 1, Len(u))[i] = u[i] /\ SubSeq(v, 1, Len(u))[i] = v[i]
  BY <1>1, <1>4, <1>5, <1>7
<1>9. Len(s) <= Len(t)
  BY <1>4, <1>5, <1>7
<1>10. ASSUME NEW i \in 1 .. Len(s) PROVE t[Len(t) + 1 - i] = s[Len(s) + 1 - i]
  <2>1. i \in 1 .. Len(t) /\ i \in 1 .. Len(u)
    BY <1>1, <1>4, <1>9
  <2>2. u[i] = v[i]
    BY <1>7, <1>8, <2>1
  <2>3. u[i] = s[Len(s) + 1 - i]
    BY <1>4
  <2>4. v[i] = t[Len(t) + 1 - i]
    BY <1>5, <2>1
  <2> QED
    BY <2>2, <2>3, <2>4
<1> QED
  BY <1>9, <1>10

LEMMA PrefixFrom ==
    ASSUME NEW E, NEW s \in Seq(E), NEW t \in Seq(E), Continues(t, s)
    PROVE  IsPrefix(Positions(s), Positions(t))
<1> DEFINE u == Positions(s)
           v == Positions(t)
           EntryNames == {e.name : e \in E}
<1>1. Len(s) \in Nat /\ Len(t) \in Nat /\ Len(s) <= Len(t) /\ DOMAIN s = 1 .. Len(s) /\ DOMAIN t = 1 .. Len(t)
  BY DEF Continues
<1>2. u \in Seq(EntryNames) /\ Len(u) = Len(s) /\ \A i \in 1 .. Len(s) : u[i] = s[i].name
  BY <1>1 DEF Positions
<1>3. v \in Seq(EntryNames) /\ Len(v) = Len(t) /\ \A i \in 1 .. Len(t) : v[i] = t[i].name
  BY <1>1 DEF Positions
<1> HIDE DEF u, v, EntryNames
<1>4. \A i \in 1 .. Len(s) : u[i] = v[i]
  BY <1>1, <1>2, <1>3 DEF Continues
<1>5. SubSeq(u, 1, Len(u)) = SubSeq(v, 1, Len(u))
  BY <1>1, <1>2, <1>3, <1>4
<1> QED
  BY <1>1, <1>2, <1>3, <1>5 DEF IsPrefix, u, v

\* What a class inherits depends on the tables of the classes it inherits from.
LEMMA InheritedAlike ==
    ASSUME NEW asked \in DecoratorInputs, NEW c \in DOMAIN asked.mro, NEW kind, NEW tables, NEW others,
           \A d \in Range(asked.mro[c]) \ {c} : tables[d] = others[d]
    PROVE  Inherited(c, kind, asked, tables) = Inherited(c, kind, asked, others)
<1> DEFINE mro == asked.mro[c]
           m == Len(mro)
           At(some, i) == [j \in 1 .. Len(some[mro[m + 1 - i]][kind]) |-> BindToCls(some[mro[m + 1 - i]][kind][j], c, asked)]
<1>1. /\ m \in Nat \ {0} /\ DOMAIN mro = 1 .. m /\ mro[1] = c /\ \A i, j \in 1 .. m : mro[i] = mro[j] => i = j
  BY MroParts
<1>2. ASSUME NEW i \in 1 .. m - 1 PROVE At(tables, i) = At(others, i)
  <2> DEFINE k == m + 1 - i
  <2>1. k \in 1 .. m /\ k # 1 /\ 1 \in 1 .. m
    BY <1>1
  <2> HIDE DEF k
  <2>2. mro[k] \in Range(mro) \ {c}
    BY <1>1, <2>1 DEF Range
  <2>3. tables[mro[k]] = others[mro[k]]
    BY <2>2
  <2> QED
    BY <2>3 DEF k
<1>3. BoundTables(c, kind, asked, tables) = [i \in 1 .. m - 1 |-> At(tables, i)]
  BY DEF BoundTables
<1>4. BoundTables(c, kind, asked, others) = [i \in 1 .. m - 1 |-> At(others, i)]
  BY DEF BoundTables
<1> HIDE DEF At
<1>5. BoundTables(c, kind, asked, tables) = BoundTables(c, kind, asked, others)
  BY <1>2, <1>3, <1>4
<1> QED
  BY <1>5 DEF Inherited

ClassFits(asked, c, tables) ==
    /\ Range(asked.mro[c]) \subseteq DOMAIN tables
    /\ \A kind \in Kinds :
          /\ EntriesFit(asked, c, kind, tables[c][kind])
          /\ Continues(tables[c][kind], Inherited(c, kind, asked, tables))
          /\ \A b \in Range(asked.mro[c]) :
                IsSuffix(asked.mro[b], asked.mro[c]) => Continues(tables[c][kind], tables[b][kind])

DecoratorsInv ==
    /\ input \in DecoratorInputs
    /\ \/ answer = Pending
       \/ answer = [type |-> "error"]
       \/ /\ answer = [type |-> "tables", tables |-> answer.tables]
          /\ DOMAIN answer.tables \subseteq DOMAIN input.mro
          /\ \A c \in DOMAIN answer.tables : ClassFits(input, c, answer.tables)

\* What a class has that is built without an error.
LEMMA BuiltEntriesFit ==
    ASSUME NEW asked \in DecoratorInputs, NEW kind \in Kinds, NEW c \in DOMAIN asked.mro, NEW tables,
           \A d \in Range(asked.mro[c]) \ {c} : EntriesFit(asked, d, kind, tables[d][kind]),
           \A n \in DOMAIN asked.names : ~ClashAt(c, n, asked, tables)
    PROVE  LET inherited == Inherited(c, kind, asked, tables)
               built == WithOwn(c, kind, inherited, asked, Len(asked.names))
           IN  /\ inherited \in Seq(Entries(asked))
               /\ EntriesFit(asked, c, kind, built)
               /\ Continues(built, inherited)
<1> DEFINE inh == Inherited(c, kind, asked, tables)
           names == asked.names
           N == Len(names)
           built == WithOwn(c, kind, inh, asked, N)
           own(i) == OwnEntry(c, names[i], asked)
           mro == asked.mro[c]
<1>1. /\ names \in Seq(Range(names)) /\ N \in Nat /\ DOMAIN names = 1 .. N
      /\ \A n : n \in Range(names) <=> \E i \in 1 .. N : n = names[i]
      /\ \A i, j \in DOMAIN names : names[i] = names[j] => i = j
  BY DecoratorsInputParts
<1>2. InheritedDecoratorsFit(asked, c, kind, inh)
  BY WhatIsInherited
<1>3. /\ Len(mro) \in Nat \ {0} /\ DOMAIN mro = 1 .. Len(mro) /\ mro[1] = c /\ c \in Range(mro)
  BY MroParts
<1>4. kind # "absent"
  BY DecoratorsAssumption
<1> HIDE DEF inh
<1>5. inh \in Seq(Entries(asked)) /\ NamesApart(inh)
  BY <1>2 DEF InheritedDecoratorsFit
<1>6. \A i \in 1 .. N : own(i) \in Entries(asked) /\ own(i).name = names[i] /\ own(i).info = c /\ own(i).func = c
                        /\ own(i).field = asked.own[c][names[i]].field
  <2> SUFFICES ASSUME NEW i \in 1 .. N
               PROVE  /\ own(i) \in Entries(asked) /\ own(i).name = names[i] /\ own(i).info = c /\ own(i).func = c
                      /\ own(i).field = asked.own[c][names[i]].field
    BY Zenon
  <2>1. names[i] \in Range(names)
    BY <1>1
  <2>2. own(i) = [name |-> names[i], info |-> c, func |-> c, field |-> asked.own[c][names[i]].field]
    BY DEF OwnEntry
  <2>3. asked.own[c][names[i]].field \in {asked.own[d][n].field : d \in DOMAIN asked.mro, n \in Range(asked.names)}
    BY <2>1
  <2> HIDE DEF own
  <2> QED
    BY <2>1, <2>2, <2>3 DEF Entries
<1>7. built \in Seq(Entries(asked))
  <2>1. N \in 0 .. N
    BY <1>1
  <2> QED
    BY <1>1, <1>5, <1>6, <2>1, WithOwnIs
<1>8. /\ NamesApart(built) /\ Continues(built, inh)
      /\ \A x : x \in Elements(built) <=>
                  \/ \E i \in 1 .. N : asked.own[c][names[i]].kind = kind /\ x = own(i)
                  \/ x \in Elements(inh) /\ \A i \in 1 .. N : asked.own[c][names[i]].kind = kind => names[i] # x.name
  <2>1. N \in 0 .. N
    BY <1>1
  <2>2. \A n \in 1 .. Len(asked.names) : OwnEntry(c, asked.names[n], asked) \in Entries(asked)
    BY <1>6
  <2>3. OwnReplaces(asked, c, kind, inh, N)
    BY <1>1, <1>5, <2>1, <2>2, WithOwnFacts
  <2> QED
    BY <2>3 DEF OwnReplaces
<1> HIDE DEF built
<1>9. \A x \in Elements(built) : x.name \in NamesIn(built) /\ x.name \in Range(names)
  <2> SUFFICES ASSUME NEW k \in DOMAIN built PROVE built[k].name \in NamesIn(built) /\ built[k].name \in Range(names)
    BY DEF Elements
  <2>1. built[k] \in Entries(asked)
    BY <1>7
  <2> QED
    BY <2>1 DEF NamesIn, Entries
<1>10. \A n : n \in NamesIn(built) <=> \E x \in Elements(built) : x.name = n
  BY DEF NamesIn, Elements
<1>11. \A n : n \in NamesIn(inh) <=> \E x \in Elements(inh) : x.name = n
  BY DEF NamesIn, Elements
<1>12. NamesIn(built) = Applied(asked, c, kind)
  <2>1. ASSUME NEW n \in NamesIn(built) PROVE n \in Applied(asked, c, kind)
    <3>1. PICK x \in Elements(built) : x.name = n
      BY <1>10
    <3>2. CASE \E i \in 1 .. N : asked.own[c][names[i]].kind = kind /\ x = own(i)
      <4>1. PICK i \in 1 .. N : asked.own[c][names[i]].kind = kind /\ x = own(i)
        BY <3>2
      <4>2. n = names[i] /\ asked.own[c][n].kind = kind
        BY <1>6, <3>1, <4>1
      <4>3. n \in Range(names)
        BY <1>1, <4>2
      <4> QED
        BY <1>3, <4>2, <4>3 DEF Applied
    <3>3. CASE x \in Elements(inh)
      BY <1>2, <1>11, <3>1, <3>3 DEF InheritedDecoratorsFit
    <3> QED
      BY <1>8, <3>1, <3>2, <3>3
  <2>2. ASSUME NEW n \in Applied(asked, c, kind) PROVE n \in NamesIn(built)
    <3>1. PICK i \in 1 .. N : n = names[i]
      BY <1>1 DEF Applied
    <3>2. CASE asked.own[c][n].kind = kind
      <4>1. own(i) \in Elements(built)
        BY <1>8, <3>1, <3>2
      <4> QED
        BY <1>6, <1>10, <3>1, <4>1
    <3>3. CASE asked.own[c][n].kind # kind
      <4>1. PICK d \in Range(mro) \ {c} : asked.own[d][n].kind = kind
        BY <3>3 DEF Applied
      <4>2. d \in DOMAIN asked.mro /\ d \in Range(asked.mro[d])
        BY <4>1, MroParts
      <4>3. n \in Applied(asked, d, kind)
        BY <4>1, <4>2 DEF Applied
      <4>4. n \in NamesIn(inh)
        BY <1>2, <4>1, <4>3 DEF InheritedDecoratorsFit
      <4>5. PICK x \in Elements(inh) : x.name = n
        BY <1>11, <4>4
      <4>6. \A j \in 1 .. N : asked.own[c][names[j]].kind = kind => names[j] # x.name
        BY <3>3, <4>5
      <4>7. x \in Elements(built)
        BY <1>8, <4>5, <4>6
      <4> QED
        BY <1>10, <4>5, <4>7
    <3> QED
      BY <3>2, <3>3
  <2> QED
    BY <2>1, <2>2
<1>13. ASSUME NEW x \in Elements(built) PROVE EntryFits(asked, c, kind, x)
  <2>1. CASE \E i \in 1 .. N : asked.own[c][names[i]].kind = kind /\ x = own(i)
    <3>1. PICK i \in 1 .. N : asked.own[c][names[i]].kind = kind /\ x = own(i)
      BY <2>1
    <3>2. x.name = names[i] /\ x.info = c /\ x.func = c /\ x.field = asked.own[c][x.name].field
      BY <1>6, <3>1
    <3>3. 1 \in DOMAIN mro /\ \A j \in 1 .. 1 - 1 : FALSE
      BY <1>3
    <3>4. c \in Having(x.name, asked) /\ c \in Decorating(x.name, kind, asked)
      BY <1>4, <3>1, <3>2 DEF Having, Decorating
    <3>5. IsClosest(c, c, Having(x.name, asked), asked) /\ IsClosest(c, c, Decorating(x.name, kind, asked), asked)
      BY <1>3, <3>3, <3>4 DEF IsClosest
    <3> QED
      BY <3>2, <3>5 DEF EntryFits
  <2>2. CASE x \in Elements(inh) /\ \A i \in 1 .. N : asked.own[c][names[i]].kind = kind => names[i] # x.name
    <3> DEFINE classes == Decorating(x.name, kind, asked)
    <3>1. /\ IsClosest(x.func, c, Having(x.name, asked), asked)
          /\ x.field = asked.own[x.info][x.name].field
          /\ Connected(c, asked) =>
                \E i \in 2 .. Len(mro) :
                   mro[i] = x.info /\ x.info \in classes /\ \A j \in 2 .. i - 1 : mro[j] \notin classes
      BY <1>2, <2>2 DEF InheritedDecoratorsFit
    <3>2. c \notin classes
      <4>1. PICK i \in 1 .. N : x.name = names[i]
        BY <1>1, <1>9
      <4> QED
        BY <2>2, <4>1 DEF Decorating
    <3> HIDE DEF classes
    <3>3. ASSUME Connected(c, asked) PROVE IsClosest(x.info, c, classes, asked)
      <4>1. PICK i \in 2 .. Len(mro) :
                 mro[i] = x.info /\ x.info \in classes /\ \A j \in 2 .. i - 1 : mro[j] \notin classes
        BY <3>1, <3>3
      <4>2. \A j \in 1 .. i - 1 : j = 1 \/ j \in 2 .. i - 1
        OBVIOUS
      <4>3. \A j \in 1 .. i - 1 : mro[j] \notin classes
        BY <1>3, <3>2, <4>1, <4>2
      <4> QED
        BY <1>3, <4>1, <4>3 DEF IsClosest
    <3> QED
      BY <3>1, <3>3 DEF EntryFits, classes
  <2> QED
    BY <1>8, <2>1, <2>2
<1>14. ASSUME kind = "field_serializers", Linear(c, asked) PROVE OnePerField(built)
  <2>1. OnePerField(inh)
    BY <1>2, <1>14 DEF InheritedDecoratorsFit
  <2>2. \A n \in 1 .. N :
           asked.own[c][names[n]].kind = kind =>
              ~SerializerClash(WithOwn(c, kind, inh, asked, n - 1), names[n], asked.own[c][names[n]].field)
    BY <1>1, <1>14 DEF ClashAt, inh
  <2> QED
    BY <1>1, <1>5, <1>6, <2>1, <2>2, WithOwnOnePerField DEF built
<1> QED
  BY <1>5, <1>7, <1>8, <1>12, <1>13, <1>14 DEF EntriesFit, built, inh

\* The order of a class whose MRO ends that of another one is kept by it.
LEMMA OrderIsKept ==
    ASSUME NEW asked \in DecoratorInputs, NEW kind \in Kinds, NEW c \in DOMAIN asked.mro, NEW tables,
           Range(asked.mro[c]) \ {c} \subseteq DOMAIN tables, c \notin DOMAIN tables,
           \A d \in DOMAIN tables : ClassFits(asked, d, tables),
           NEW b \in Range(asked.mro[c]) \ {c}, IsSuffix(asked.mro[b], asked.mro[c])
    PROVE  Continues(Inherited(c, kind, asked, tables), tables[b][kind])
<1> DEFINE mro == asked.mro[c]
           own == asked.mro[b]
           m == Len(mro)
           p == Len(own)
           ours == BoundTables(c, kind, asked, tables)
           theirs == BoundTables(b, kind, asked, tables)
           E == Entries(asked)
           table == tables[b][kind]
<1>1. /\ mro \in Seq(DOMAIN asked.mro) /\ m \in Nat \ {0} /\ DOMAIN mro = 1 .. m /\ mro[1] = c
      /\ Range(mro) \subseteq DOMAIN asked.mro
  BY MroParts
<1>2. /\ own \in Seq(DOMAIN asked.mro) /\ p \in Nat \ {0} /\ DOMAIN own = 1 .. p /\ own[1] = b
  BY <1>1, MroParts
<1>3. p <= m /\ \A i \in 1 .. p : mro[m + 1 - i] = own[p + 1 - i]
  <2> DEFINE S == DOMAIN asked.mro
  <2>1. own \in Seq(S) /\ mro \in Seq(S) /\ IsSuffix(own, mro)
    BY <1>1, <1>2
  <2> HIDE DEF own, mro, S
  <2> QED
    BY <2>1, SuffixAt
<1>4. p # m
  <2> SUFFICES ASSUME p = m PROVE FALSE
    OBVIOUS
  <2>1. p \in 1 .. p /\ m + 1 - p = 1 /\ p + 1 - p = 1
    BY <1>2
  <2> QED
    BY <1>1, <1>2, <1>3, <2>1
<1>5. \A d \in DOMAIN tables : EntriesFit(asked, d, kind, tables[d][kind])
  BY DEF ClassFits
<1>6. Range(own) \subseteq DOMAIN tables /\ Continues(table, Inherited(b, kind, asked, tables))
  BY DEF ClassFits
<1>7. table \in Seq(E) /\ NamesApart(table)
  BY <1>5 DEF EntriesFit
<1>8. /\ ours \in Seq(Seq(E)) /\ Len(ours) = m - 1
      /\ \A i \in 1 .. m - 1 : SameNames(ours[i], tables[mro[m + 1 - i]][kind]) /\ NamesApart(ours[i])
  <2>1. \A d \in Range(mro) \ {c} : EntriesFit(asked, d, kind, tables[d][kind])
    BY <1>5
  <2> QED
    BY <2>1, BoundTablesFit
<1>9. /\ theirs \in Seq(Seq(E)) /\ Len(theirs) = p - 1
      /\ \A i \in 1 .. p - 1 : SameNames(theirs[i], tables[own[p + 1 - i]][kind])
  <2>1. \A d \in Range(own) \ {b} : EntriesFit(asked, d, kind, tables[d][kind])
    BY <1>5, <1>6
  <2>2. b \in DOMAIN asked.mro
    BY <1>1
  <2> QED
    BY <2>1, <2>2, BoundTablesFit
<1>10. Inherited(c, kind, asked, tables) = Merged(ours, m - 1) /\ Inherited(b, kind, asked, tables) = Merged(theirs, p - 1)
  BY DEF Inherited
<1> HIDE DEF ours, theirs, E, table
<1>11. /\ p - 1 \in Nat /\ p - 1 <= Len(ours) /\ p - 1 <= Len(theirs)
       /\ p \in 1 .. Len(ours) /\ p \in 0 .. m - 1 /\ p - 1 \in 0 .. m - 1
       /\ m - 1 \in 0 .. m - 1 /\ p \in 1 .. m - 1 /\ p \in 1 .. p
  <2>1. p \in Nat \ {0} /\ m \in Nat /\ p <= m /\ p # m
    BY <1>1, <1>2, <1>3, <1>4
  <2>2. Len(ours) = m - 1 /\ Len(theirs) = p - 1
    BY <1>8, <1>9
  <2> HIDE DEF p, m
  <2> QED
    BY <2>1, <2>2
<1>12. ASSUME NEW i \in 1 .. p - 1 PROVE SameNames(ours[i], theirs[i])
  <2>1. i \in 1 .. m - 1 /\ i \in 1 .. p
    BY <1>11
  <2>2. mro[m + 1 - i] = own[p + 1 - i]
    BY <1>3, <2>1
  <2> DEFINE t == tables[own[p + 1 - i]][kind]
  <2>3. SameNames(ours[i], t) /\ SameNames(theirs[i], t)
    BY <1>8, <1>9, <2>1, <2>2
  <2> HIDE DEF t
  <2> QED
    BY <2>3 DEF SameNames
<1>13. SameNames(Merged(ours, p - 1), Merged(theirs, p - 1))
  <2> DEFINE k == p - 1
  <2> HIDE DEF k
  <2>1. k \in Nat /\ k <= Len(ours) /\ k <= Len(theirs) /\ \A i \in 1 .. k : SameNames(ours[i], theirs[i])
    BY <1>11, <1>12 DEF k
  <2>2. SameNames(Merged(ours, k), Merged(theirs, k))
    BY <1>8, <1>9, <2>1, MergedAlike
  <2> QED
    BY <2>2 DEF k
<1>14. /\ \A n \in 1 .. m - 1 : Merged(ours, n) = Updated(Merged(ours, n - 1), ours[n])
       /\ \A n \in 0 .. m - 1 : Merged(ours, n) \in Seq(E)
  BY <1>8, MergedIs
<1>15. \A n \in 0 .. m - 1 : \A k \in 0 .. n : Continues(Merged(ours, n), Merged(ours, k))
  BY <1>8, MergedFacts
<1>16. SameNames(ours[p], table)
  <2>1. m + 1 - p \in Nat /\ p + 1 - p = 1
    BY <1>1, <1>2, <1>3
  <2> QED
    BY <1>2, <1>3, <1>8, <1>11, <2>1 DEF table
<1>17. ours[p] \in Seq(E)
  BY <1>8, <1>11
<1>18. Continues(ours[p], Merged(ours, p - 1))
  <2> DEFINE s == Merged(ours, p - 1)
             t == Merged(theirs, p - 1)
  <2>1. SameNames(s, t) /\ SameNames(ours[p], table) /\ Continues(table, t)
    BY <1>6, <1>10, <1>13, <1>16 DEF table
  <2>2. s \in Seq(E) /\ ours[p] \in Seq(E) /\ table \in Seq(E)
    BY <1>7, <1>11, <1>14, <1>17
  <2> HIDE DEF s, t
  <2>3. Len(s) \in Nat /\ Len(ours[p]) \in Nat /\ Len(table) \in Nat
    BY <2>2
  <2>4. Len(s) = Len(t) /\ Len(ours[p]) = Len(table) /\ Len(s) <= Len(table)
    BY <2>1 DEF SameNames, Continues
  <2>5. \A i \in 1 .. Len(s) : i \in 1 .. Len(table)
    BY <2>3, <2>4
  <2>6. \A i \in 1 .. Len(s) : ours[p][i].name = s[i].name
    BY <2>1, <2>4, <2>5 DEF SameNames, Continues
  <2> QED
    BY <2>4, <2>6 DEF Continues, s
<1>19. SameNames(Merged(ours, p), ours[p])
  <2>1. Merged(ours, p) = Updated(Merged(ours, p - 1), ours[p]) /\ Merged(ours, p - 1) \in Seq(E)
    BY <1>11, <1>14
  <2>2. SameNames(Updated(Merged(ours, p - 1), ours[p]), ours[p])
    BY <1>8, <1>11, <1>17, <1>18, <2>1, UpdatedOrder
  <2> QED
    BY <2>1, <2>2
<1>20. Continues(Merged(ours, p), table)
  <2>1. Merged(ours, p) \in Seq(E) /\ Len(table) \in Nat
    BY <1>7, <1>11, <1>14
  <2> QED
    BY <1>16, <1>19, <2>1 DEF SameNames, Continues
<1>21. Continues(Merged(ours, m - 1), Merged(ours, p))
  BY <1>11, <1>15
<1>22. Merged(ours, p) \in Seq(E) /\ Merged(ours, m - 1) \in Seq(E)
  BY <1>11, <1>14
<1>23. Continues(Merged(ours, m - 1), table)
  BY <1>7, <1>20, <1>21, <1>22, ContinuesOn
<1> QED
  BY <1>10, <1>23 DEF table

\* What fits a class still fits it when another class is built.
LEMMA StillFits ==
    ASSUME NEW asked \in DecoratorInputs, NEW tables, NEW c, c \notin DOMAIN tables, NEW new,
           DOMAIN tables \subseteq DOMAIN asked.mro, NEW d \in DOMAIN tables, ClassFits(asked, d, tables)
    PROVE  ClassFits(asked, d, WithTable(tables, c, new))
<1> DEFINE after == WithTable(tables, c, new)
<1>1. DOMAIN after = DOMAIN tables \cup {c} /\ \A b \in DOMAIN tables : after[b] = tables[b]
  BY DEF WithTable
<1> HIDE DEF after
<1>2. Range(asked.mro[d]) \subseteq DOMAIN tables
  BY DEF ClassFits
<1>3. \A b \in Range(asked.mro[d]) : after[b] = tables[b]
  BY <1>1, <1>2
<1>4. \A kind : Inherited(d, kind, asked, after) = Inherited(d, kind, asked, tables)
  BY <1>3, InheritedAlike
<1> QED
  BY <1>1, <1>2, <1>3, <1>4 DEF ClassFits, after

\* What a class is built to fits it.
LEMMA BuiltFits ==
    ASSUME NEW asked \in DecoratorInputs, NEW tables, DOMAIN tables \subseteq DOMAIN asked.mro,
           \A d \in DOMAIN tables : ClassFits(asked, d, tables),
           NEW c \in Ready(asked, tables), \A n \in DOMAIN asked.names : ~ClashAt(c, n, asked, tables)
    PROVE  ClassFits(asked, c, WithTable(tables, c, Build(c, asked, tables)))
<1> DEFINE new == Build(c, asked, tables)
           after == WithTable(tables, c, new)
<1>1. c \in DOMAIN asked.mro /\ c \notin DOMAIN tables /\ Range(asked.mro[c]) \subseteq DOMAIN tables \cup {c}
  BY DEF Ready
<1>2. DOMAIN after = DOMAIN tables \cup {c} /\ after[c] = new /\ \A b \in DOMAIN tables : after[b] = tables[b]
  BY <1>1 DEF WithTable
<1>3. \A kind \in Kinds : new[kind] = WithOwn(c, kind, Inherited(c, kind, asked, tables), asked, Len(asked.names))
  BY DEF Build
<1> HIDE DEF after, new
<1>4. ASSUME NEW kind \in Kinds
      PROVE  /\ EntriesFit(asked, c, kind, after[c][kind])
             /\ Continues(after[c][kind], Inherited(c, kind, asked, after))
             /\ \A b \in Range(asked.mro[c]) :
                   IsSuffix(asked.mro[b], asked.mro[c]) => Continues(after[c][kind], after[b][kind])
  <2> DEFINE inh == Inherited(c, kind, asked, tables)
             built == new[kind]
  <2>1. \A d \in Range(asked.mro[c]) \ {c} : EntriesFit(asked, d, kind, tables[d][kind])
    BY <1>1 DEF ClassFits
  <2>2. inh \in Seq(Entries(asked)) /\ EntriesFit(asked, c, kind, built) /\ Continues(built, inh)
    BY <1>1, <1>3, <2>1, BuiltEntriesFit
  <2>3. Inherited(c, kind, asked, after) = inh
    <3>1. \A d \in Range(asked.mro[c]) \ {c} : tables[d] = after[d]
      BY <1>1, <1>2
    <3> QED
      BY <1>1, <3>1, InheritedAlike
  <2>4. built \in Seq(Entries(asked))
    BY <2>2 DEF EntriesFit
  <2> HIDE DEF inh
  <2>5. ASSUME NEW b \in Range(asked.mro[c]), IsSuffix(asked.mro[b], asked.mro[c])
        PROVE  Continues(built, after[b][kind])
    <3>1. CASE b = c
      BY <1>2, <3>1 DEF Continues
    <3>2. CASE b # c
      <4>1. b \in DOMAIN tables /\ after[b] = tables[b] /\ Range(asked.mro[c]) \ {c} \subseteq DOMAIN tables
        BY <1>1, <1>2, <3>2
      <4>2. Continues(inh, tables[b][kind])
        BY <1>1, <2>5, <3>2, <4>1, OrderIsKept DEF inh
      <4>3. tables[b][kind] \in Seq(Entries(asked))
        BY <4>1 DEF ClassFits, EntriesFit
      <4>4. Continues(built, tables[b][kind])
        BY <2>2, <2>4, <4>2, <4>3, ContinuesOn
      <4> QED
        BY <4>1, <4>4
    <3> QED
      BY <3>1, <3>2
  <2> QED
    BY <1>2, <2>2, <2>3, <2>5
<1> QED
  BY <1>1, <1>2, <1>4 DEF ClassFits, after, new

LEMMA DecoratorsInvBegin == DecoratorsInv /\ BeginDecorators => DecoratorsInv'
<1> SUFFICES ASSUME DecoratorsInv, BeginDecorators PROVE DecoratorsInv'
  OBVIOUS
<1>1. input' = input /\ answer' = [type |-> "tables", tables |-> <<>>]
  BY DEF BeginDecorators
<1>2. answer'.tables = << >> /\ DOMAIN << >> = {}
  BY <1>1
<1> QED
  BY <1>1, <1>2 DEF DecoratorsInv

LEMMA DecoratorsInvBuild == DecoratorsInv /\ BuildClass => DecoratorsInv'
<1> SUFFICES ASSUME DecoratorsInv, BuildClass PROVE DecoratorsInv'
  OBVIOUS
<1> DEFINE tables == answer.tables
<1>1. /\ input \in DecoratorInputs /\ answer = [type |-> "tables", tables |-> tables]
      /\ DOMAIN tables \subseteq DOMAIN input.mro /\ \A d \in DOMAIN tables : ClassFits(input, d, tables)
  BY DEF DecoratorsInv, BuildClass, Pending
<1>2. PICK c \in Ready(input, tables) :
         IF \E n \in DOMAIN input.names : ClashAt(c, n, input, tables)
         THEN answer' = [type |-> "error"]
         ELSE answer' = [answer EXCEPT !.tables = WithTable(@, c, Build(c, input, @))]
  BY DEF BuildClass
<1>3. input' = input
  BY DEF BuildClass
<1>4. CASE \E n \in DOMAIN input.names : ClashAt(c, n, input, tables)
  BY <1>1, <1>2, <1>3, <1>4 DEF DecoratorsInv
<1>5. CASE ~ \E n \in DOMAIN input.names : ClashAt(c, n, input, tables)
  <2> DEFINE after == WithTable(tables, c, Build(c, input, tables))
  <2>1. answer' = [answer EXCEPT !.tables = after]
    BY <1>2, <1>5
  <2>2. ClassFits(input, c, after)
    BY <1>1, <1>5, BuiltFits
  <2>3. \A d \in DOMAIN tables : ClassFits(input, d, after)
    <3>1. c \notin DOMAIN tables
      BY DEF Ready
    <3> QED
      BY <1>1, <3>1, StillFits
  <2>4. DOMAIN after = DOMAIN tables \cup {c} /\ c \in DOMAIN input.mro
    BY DEF WithTable, Ready
  <2> HIDE DEF after, tables
  <2>5. answer' = [type |-> "tables", tables |-> after]
    BY <1>1, <2>1
  <2>6. answer'.tables = after
    BY <2>5
  <2> QED
    BY <1>1, <1>3, <2>2, <2>3, <2>4, <2>5, <2>6 DEF DecoratorsInv
<1> QED
  BY <1>4, <1>5

\* Every table is one that fits its class: what it has of each kind, with which functions, for
\* which fields and in which order (DecoratorInfos.build()).
THEOREM DecoratorsInvHolds == DecoratorsSpec => []DecoratorsInv
<1>1. DecoratorsInit => DecoratorsInv
  BY DEF DecoratorsInit, DecoratorsInv
<1>2. DecoratorsInv /\ [DecoratorsNext]_vars => DecoratorsInv'
  <2> SUFFICES ASSUME DecoratorsInv, [DecoratorsNext]_vars PROVE DecoratorsInv'
    OBVIOUS
  <2>1. CASE BeginDecorators
    BY <2>1, DecoratorsInvBegin
  <2>2. CASE BuildClass
    BY <2>2, DecoratorsInvBuild
  <2>3. CASE UNCHANGED vars
    BY <2>3 DEF vars, DecoratorsInv
  <2> QED
    BY <2>1, <2>2, <2>3 DEF DecoratorsNext
<1> QED
  BY <1>1, <1>2, PTL DEF DecoratorsSpec

\* What is said of the tables that are built.
LEMMA BuiltClasses ==
    ASSUME DecoratorsInv, NEW c \in Built
    PROVE  /\ input \in DecoratorInputs /\ c \in DOMAIN input.mro
           /\ ClassFits(input, c, answer.tables)
<1>1. answer.type = "tables" /\ c \in DOMAIN answer.tables
  BY DEF Built
<1> QED
  BY <1>1 DEF DecoratorsInv, Pending

\* The decorators of a class follow the overriding of Python, for any classes and any MRO.
THEOREM DecoratorsFollow == DecoratorsSpec => []DecoratorsFollowOverriding
<1>1. DecoratorsInv => DecoratorsFollowOverriding
  <2> SUFFICES ASSUME DecoratorsInv, NEW c \in Built, NEW kind \in Kinds
               PROVE  LET entries == answer.tables[c][kind]
                          mro == input.mro[c]
                      IN  /\ {entries[i].name : i \in DOMAIN entries} =
                               {n \in Range(input.names) : \E d \in Range(mro) : input.own[d][n].kind = kind}
                          /\ \A i, j \in DOMAIN entries : entries[i].name = entries[j].name => i = j
                          /\ \A i \in DOMAIN entries :
                               /\ IsClosest(entries[i].func, c, Having(entries[i].name, input), input)
                               /\ entries[i].field = input.own[entries[i].info][entries[i].name].field
                               /\ Connected(c, input) =>
                                    IsClosest(entries[i].info, c, Decorating(entries[i].name, kind, input), input)
                          /\ \A b \in Range(mro) :
                               IsSuffix(input.mro[b], mro) => IsPrefix(Positions(answer.tables[b][kind]), Positions(entries))
    BY Zenon DEF DecoratorsFollowOverriding
  <2> DEFINE entries == answer.tables[c][kind]
             mro == input.mro[c]
  <2>1. ClassFits(input, c, answer.tables)
    BY BuiltClasses
  <2>2. EntriesFit(input, c, kind, entries)
    BY <2>1 DEF ClassFits
  <2>3. NamesIn(entries) = Applied(input, c, kind) /\ NamesApart(entries) /\ entries \in Seq(Entries(input))
    BY <2>2 DEF EntriesFit
  <2>4. ASSUME NEW i \in DOMAIN entries
        PROVE  /\ IsClosest(entries[i].func, c, Having(entries[i].name, input), input)
               /\ entries[i].field = input.own[entries[i].info][entries[i].name].field
               /\ Connected(c, input) =>
                    IsClosest(entries[i].info, c, Decorating(entries[i].name, kind, input), input)
    <3>1. \A x \in Elements(entries) : EntryFits(input, c, kind, x)
      BY Zenon, <2>2 DEF EntriesFit
    <3>2. entries[i] \in Elements(entries)
      BY DEF Elements
    <3>3. EntryFits(input, c, kind, entries[i])
      BY Zenon, <3>1, <3>2
    <3> QED
      BY <3>3 DEF EntryFits
  <2>5. ASSUME NEW b \in Range(mro), IsSuffix(input.mro[b], mro)
        PROVE  IsPrefix(Positions(answer.tables[b][kind]), Positions(entries))
    <3>1. b \in Built
      BY <2>1 DEF ClassFits, Built
    <3>2. ClassFits(input, b, answer.tables)
      BY <3>1, BuiltClasses
    <3>3. answer.tables[b][kind] \in Seq(Entries(input))
      BY <3>2 DEF ClassFits, EntriesFit
    <3>4. Continues(entries, answer.tables[b][kind])
      BY <2>1, <2>5 DEF ClassFits
    <3> QED
      BY <2>3, <3>3, <3>4, PrefixFrom
  <2> HIDE DEF entries
  <2>6. {entries[i].name : i \in DOMAIN entries} =
          {n \in Range(input.names) : \E d \in Range(mro) : input.own[d][n].kind = kind}
    BY <2>3 DEF NamesIn, Applied
  <2>7. \A i, j \in DOMAIN entries : entries[i].name = entries[j].name => i = j
    BY <2>3 DEF NamesApart
  <2> QED
    BY Zenon, <2>4, <2>5, <2>6, <2>7 DEF entries
<1> QED
  BY <1>1, DecoratorsInvHolds, PTL

\* A field has one serializer, for any classes that have one base each.
THEOREM SerializersAreOne == DecoratorsSpec => []OneSerializerPerField
<1>1. DecoratorsInv => OneSerializerPerField
  <2> SUFFICES ASSUME DecoratorsInv, NEW c \in Built, Linear(c, input),
                      NEW i \in DOMAIN answer.tables[c]["field_serializers"],
                      NEW j \in DOMAIN answer.tables[c]["field_serializers"],
                      answer.tables[c]["field_serializers"][i].field = answer.tables[c]["field_serializers"][j].field
               PROVE  i = j
    BY DEF OneSerializerPerField
  <2> DEFINE kind == "field_serializers"
             entries == answer.tables[c][kind]
  <2>1. kind \in Kinds
    BY DecoratorsAssumption
  <2>2. EntriesFit(input, c, kind, entries)
    BY <2>1, BuiltClasses DEF ClassFits
  <2>3. entries[i] = entries[j]
    BY <2>2 DEF EntriesFit, OnePerField, Elements
  <2> QED
    BY <2>2, <2>3 DEF EntriesFit, NamesApart
<1> QED
  BY <1>1, DecoratorsInvHolds, PTL

-----------------------------------------------------------------------------
(* References: what is counted, and what is collected.                     *)

LEMMA RangeOfTail ==
    ASSUME NEW S, NEW s \in Seq(S), s # <<>>
    PROVE  /\ Head(s) \in S /\ Tail(s) \in Seq(S)
           /\ Range(s) = {Head(s)} \cup Range(Tail(s))
<1>1. Len(s) \in Nat /\ Len(s) # 0 /\ DOMAIN s = 1 .. Len(s) /\ Head(s) = s[1] /\ \A i \in 1 .. Len(s) : s[i] \in S
  OBVIOUS
<1>2. /\ Tail(s) \in Seq(S) /\ DOMAIN Tail(s) = 1 .. Len(s) - 1
      /\ \A i \in 1 .. Len(s) - 1 : Tail(s)[i] = s[i + 1]
  BY <1>1
<1>3. ASSUME NEW x \in Range(s) PROVE x = Head(s) \/ x \in Range(Tail(s))
  <2>1. PICK i \in 1 .. Len(s) : x = s[i]
    BY <1>1 DEF Range
  <2>2. CASE i = 1
    BY <1>1, <2>1, <2>2
  <2>3. CASE i # 1
    <3>1. i - 1 \in 1 .. Len(s) - 1 /\ (i - 1) + 1 = i
      BY <1>1, <2>3
    <3>2. x = Tail(s)[i - 1]
      BY <1>2, <2>1, <3>1
    <3> QED
      BY <1>2, <3>1, <3>2 DEF Range
  <2> QED
    BY <2>2, <2>3
<1>4. Head(s) \in Range(s)
  BY <1>1 DEF Range
<1>5. ASSUME NEW x \in Range(Tail(s)) PROVE x \in Range(s)
  <2>1. PICK i \in 1 .. Len(s) - 1 : x = Tail(s)[i]
    BY <1>2 DEF Range
  <2>2. i + 1 \in 1 .. Len(s) /\ x = s[i + 1]
    BY <1>1, <1>2, <2>1
  <2> QED
    BY <1>1, <2>2 DEF Range
<1>6. 1 \in 1 .. Len(s)
  BY <1>1
<1> QED
  BY <1>1, <1>2, <1>3, <1>4, <1>5, <1>6

LEMMA RangeOfBoth ==
    ASSUME NEW S, NEW s \in Seq(S), NEW t \in Seq(S)
    PROVE  s \o t \in Seq(S) /\ Range(s \o t) = Range(s) \cup Range(t)
<1> DEFINE u == s \o t
<1>1. /\ Len(s) \in Nat /\ Len(t) \in Nat /\ DOMAIN s = 1 .. Len(s) /\ DOMAIN t = 1 .. Len(t)
      /\ u \in Seq(S) /\ DOMAIN u = 1 .. Len(s) + Len(t)
  OBVIOUS
<1>2. /\ \A i \in 1 .. Len(s) : u[i] = s[i]
      /\ \A i \in 1 .. Len(t) : u[Len(s) + i] = t[i]
  BY <1>1
<1> HIDE DEF u
<1>3. ASSUME NEW x \in Range(u) PROVE x \in Range(s) \/ x \in Range(t)
  <2>1. PICK i \in 1 .. Len(s) + Len(t) : x = u[i]
    BY <1>1 DEF Range
  <2>2. CASE i <= Len(s)
    <3>1. i \in 1 .. Len(s) /\ x = s[i]
      BY <1>1, <1>2, <2>1, <2>2
    <3> QED
      BY <1>1, <3>1 DEF Range
  <2>3. CASE i > Len(s)
    <3>1. i - Len(s) \in 1 .. Len(t) /\ Len(s) + (i - Len(s)) = i
      BY <1>1, <2>3
    <3>2. x = t[i - Len(s)]
      BY <1>2, <2>1, <3>1
    <3> QED
      BY <1>1, <3>1, <3>2 DEF Range
  <2> QED
    BY <1>1, <2>2, <2>3
<1>4. ASSUME NEW x \in Range(s) PROVE x \in Range(u)
  <2>1. PICK i \in 1 .. Len(s) : x = s[i]
    BY <1>1 DEF Range
  <2>2. i \in 1 .. Len(s) + Len(t) /\ x = u[i]
    BY <1>1, <1>2, <2>1
  <2> QED
    BY <1>1, <2>2 DEF Range
<1>5. ASSUME NEW x \in Range(t) PROVE x \in Range(u)
  <2>1. PICK i \in 1 .. Len(t) : x = t[i]
    BY <1>1 DEF Range
  <2>2. Len(s) + i \in 1 .. Len(s) + Len(t) /\ x = u[Len(s) + i]
    BY <1>1, <1>2, <2>1
  <2> QED
    BY <1>1, <2>2 DEF Range
<1> QED
  BY <1>1, <1>3, <1>4, <1>5 DEF u

\* All that a schema and the definitions refer to.
Referenced(whole, definitions) ==
    RefsOf(whole) \cup UNION {RefsOf(definitions[k]) : k \in DOMAIN definitions}

\* What is counted are definitions that can be used; all they refer to is counted or still to do;
\* they are needed; and where the whole schema is a reference, a second one is counted or still to do.
CountFits(whole, definitions, invalid, counts, todo) ==
    /\ Refers(whole) /\ \A k \in DOMAIN definitions : Refers(definitions[k])
    /\ todo \in Seq(Referenced(whole, definitions))
    /\ DOMAIN counts \subseteq DOMAIN definitions \ invalid
    /\ \A k \in DOMAIN counts : counts[k] \in Nat \ {0}
    /\ RefsOf(whole) \subseteq DOMAIN counts \cup Range(todo)
    /\ \A k \in DOMAIN counts : RefsOf(definitions[k]) \subseteq DOMAIN counts \cup Range(todo)
    /\ \A keys \in SUBSET DOMAIN definitions :
          ClosedUnder(keys, whole, definitions) => DOMAIN counts \cup Range(todo) \subseteq keys
    /\ whole.ref # NoRef =>
          \/ DOMAIN counts = {} /\ todo = <<whole.ref>>
          \/ /\ whole.ref \in DOMAIN counts
             /\ \A k \in DOMAIN counts :
                   whole.ref \in RefsOf(definitions[k]) => whole.ref \in Range(todo) \/ counts[whole.ref] # 1

\* What is visited and still to visit has been counted, is needed, and has all it refers to; the
\* definition that was unpacked is not among them.
CollectFits(whole, json, definitions, invalid, counts, visited, unvisited) ==
    /\ DOMAIN counts \subseteq DOMAIN definitions \ invalid
    /\ \A k \in DOMAIN counts : RefsOf(definitions[k]) \subseteq DOMAIN counts
    /\ visited \cup unvisited \subseteq DOMAIN counts
    /\ RefsOf(json) \subseteq visited \cup unvisited
    /\ \A k \in visited : RefsOf(definitions[k]) \subseteq visited \cup unvisited
    /\ \A keys \in SUBSET DOMAIN definitions :
          ClosedUnder(keys, json, definitions) => visited \cup unvisited \subseteq keys
    /\ json # whole =>
          /\ \A k \in DOMAIN counts : whole.ref \notin RefsOf(definitions[k])
          /\ whole.ref \notin visited \cup unvisited

AnswerIs(type, problem, whole, json, definitions, invalid, todo, counts, visited, unvisited) ==
    answer = [type |-> type, problem |-> problem, whole |-> whole, json |-> json,
              definitions |-> definitions, invalid |-> invalid,
              todo |-> todo, counts |-> counts, visited |-> visited, unvisited |-> unvisited]

Whole == AnswerIs(answer.type, answer.problem, answer.whole, answer.json, answer.definitions, answer.invalid,
                  answer.todo, answer.counts, answer.visited, answer.unvisited)

ReferencesInv ==
    /\ input \in ReferenceInputs
    /\ \/ answer = Pending
       \/ /\ answer.type = "count" /\ Whole /\ answer.visited = {}
          /\ CountFits(answer.whole, answer.definitions, answer.invalid, answer.counts, answer.todo)
       \/ /\ answer.type = "collect" /\ Whole
          /\ CollectFits(answer.whole, answer.json, answer.definitions, answer.invalid, answer.counts,
                         answer.visited, answer.unvisited)
       \/ /\ answer.type \in {"schema", "unresolved"}
          /\ JsonSchemaIsClosed

\* The steps of CountFits.
LEMMA CountingFits ==
    ASSUME NEW whole, NEW definitions, NEW invalid, Refers(whole), \A k \in DOMAIN definitions : Refers(definitions[k])
    PROVE  CountFits(whole, definitions, invalid, <<>>, whole.refs)
<1>1. DOMAIN <<>> = {}
  OBVIOUS
<1>2. whole.refs \in Seq(RefsOf(whole))
  BY DEF Refers, RefsOf, Range
<1>3. whole.refs \in Seq(Referenced(whole, definitions))
  <2> DEFINE S == Referenced(whole, definitions)
             R == RefsOf(whole)
             refs == whole.refs
  <2>1. R \subseteq S
    BY DEF Referenced
  <2>2. refs \in Seq(R)
    BY <1>2
  <2> HIDE DEF S, R, refs
  <2>3. refs \in Seq(S)
    BY <2>1, <2>2
  <2> QED
    BY <2>3 DEF S, refs
<1>4. whole.ref # NoRef => whole.refs = <<whole.ref>>
  BY DEF Refers
<1>5. \A keys \in SUBSET DOMAIN definitions : ClosedUnder(keys, whole, definitions) => Range(whole.refs) \subseteq keys
  BY DEF ClosedUnder, RefsOf
<1> QED
  BY <1>1, <1>3, <1>4, <1>5 DEF CountFits, RefsOf

LEMMA CountedAgainFits ==
    ASSUME NEW whole, NEW definitions, NEW invalid, NEW counts, NEW todo,
           CountFits(whole, definitions, invalid, counts, todo), todo # <<>>, Head(todo) \in DOMAIN counts
    PROVE  CountFits(whole, definitions, invalid, [counts EXCEPT ![Head(todo)] = @ + 1], Tail(todo))
<1> DEFINE key == Head(todo)
           rest == Tail(todo)
           more == [counts EXCEPT ![key] = @ + 1]
           S == Referenced(whole, definitions)
<1>1. todo \in Seq(S)
  BY DEF CountFits
<1>2. rest \in Seq(S) /\ Range(todo) = {key} \cup Range(rest)
  <2> HIDE DEF S
  <2> QED
    BY <1>1, RangeOfTail
<1>3. DOMAIN more = DOMAIN counts /\ \A k \in DOMAIN counts : more[k] = IF k = key THEN counts[k] + 1 ELSE counts[k]
  OBVIOUS
<1>4. \A k \in DOMAIN counts : counts[k] \in Nat \ {0}
  BY DEF CountFits
<1>5. \A k \in DOMAIN counts : more[k] \in Nat \ {0} /\ (k = key => more[k] # 1) /\ (counts[k] # 1 => more[k] # 1)
  <2> HIDE DEF more, key
  <2> QED
    BY <1>3, <1>4
<1> HIDE DEF more, key, rest
<1>6. DOMAIN counts \cup Range(rest) = DOMAIN counts \cup Range(todo)
  BY <1>2 DEF key
<1>7. ASSUME whole.ref # NoRef
      PROVE  /\ whole.ref \in DOMAIN counts
             /\ \A k \in DOMAIN counts :
                   whole.ref \in RefsOf(definitions[k]) => whole.ref \in Range(rest) \/ more[whole.ref] # 1
  <2>1. whole.ref \in DOMAIN counts
    BY <1>7 DEF CountFits, key
  <2>2. ASSUME NEW k \in DOMAIN counts, whole.ref \in RefsOf(definitions[k])
        PROVE  whole.ref \in Range(rest) \/ more[whole.ref] # 1
    <3>1. whole.ref \in Range(todo) \/ counts[whole.ref] # 1
      BY <1>7, <2>1, <2>2 DEF CountFits
    <3> QED
      BY <1>2, <1>5, <2>1, <3>1
  <2> QED
    BY <2>1, <2>2
<1>8. CountFits(whole, definitions, invalid, more, rest)
  BY <1>2, <1>3, <1>5, <1>6, <1>7 DEF CountFits
<1> QED
  BY <1>8 DEF more, key, rest

LEMMA CountedFirstFits ==
    ASSUME NEW whole, NEW definitions, NEW invalid, NEW counts, NEW todo,
           CountFits(whole, definitions, invalid, counts, todo), todo # <<>>,
           Head(todo) \notin DOMAIN counts, Head(todo) \in DOMAIN definitions \ invalid
    PROVE  CountFits(whole, definitions, invalid,
                     [k \in DOMAIN counts \cup {Head(todo)} |-> IF k = Head(todo) THEN 1 ELSE counts[k]],
                     definitions[Head(todo)].refs \o Tail(todo))
<1> DEFINE key == Head(todo)
           rest == Tail(todo)
           new == definitions[key].refs
           both == new \o rest
           more == [k \in DOMAIN counts \cup {key} |-> IF k = key THEN 1 ELSE counts[k]]
           S == Referenced(whole, definitions)
<1>1. todo \in Seq(S)
  BY DEF CountFits
<1>2. rest \in Seq(S) /\ Range(todo) = {key} \cup Range(rest)
  <2> HIDE DEF S
  <2> QED
    BY <1>1, RangeOfTail
<1>3. new \in Seq(RefsOf(definitions[key]))
  BY DEF CountFits, Refers, RefsOf, Range
<1>4. RefsOf(definitions[key]) \subseteq S
  BY DEF Referenced
<1>5. both \in Seq(S) /\ Range(both) = RefsOf(definitions[key]) \cup Range(rest)
  <2>1. new \in Seq(S)
    <3> HIDE DEF S, new
    <3> QED
      BY <1>3, <1>4
  <2>2. Range(new) = RefsOf(definitions[key])
    BY DEF RefsOf
  <2> HIDE DEF S, new, rest
  <2> QED
    BY <1>2, <2>1, <2>2, RangeOfBoth
<1>6. DOMAIN more = DOMAIN counts \cup {key} /\ more[key] = 1 /\ \A k \in DOMAIN counts : more[k] = counts[k]
  <2>1. DOMAIN more = DOMAIN counts \cup {key} /\ more[key] = 1
    OBVIOUS
  <2> QED
    BY <2>1
<1>7. /\ DOMAIN counts \subseteq DOMAIN definitions \ invalid
      /\ \A k \in DOMAIN counts : counts[k] \in Nat \ {0}
      /\ RefsOf(whole) \subseteq DOMAIN counts \cup Range(todo)
      /\ \A k \in DOMAIN counts : RefsOf(definitions[k]) \subseteq DOMAIN counts \cup Range(todo)
  BY DEF CountFits
<1>8. ASSUME NEW keys \in SUBSET DOMAIN definitions, ClosedUnder(keys, whole, definitions)
      PROVE  DOMAIN more \cup Range(both) \subseteq keys
  <2>1. DOMAIN counts \cup Range(todo) \subseteq keys
    BY <1>8 DEF CountFits
  <2>2. key \in keys
    BY <1>2, <2>1
  <2>3. RefsOf(definitions[key]) \subseteq keys
    BY <1>8, <2>2 DEF ClosedUnder
  <2> HIDE DEF more, both, key, rest
  <2> QED
    BY <1>2, <1>5, <1>6, <2>1, <2>2, <2>3
<1>9. DOMAIN counts \cup Range(todo) \subseteq DOMAIN more \cup Range(both)
  <2> HIDE DEF more, both, key, rest
  <2> QED
    BY <1>2, <1>5, <1>6
<1>10. ASSUME whole.ref # NoRef
       PROVE  /\ whole.ref \in DOMAIN more
              /\ \A k \in DOMAIN more :
                    whole.ref \in RefsOf(definitions[k]) => whole.ref \in Range(both) \/ more[whole.ref] # 1
  <2>1. CASE DOMAIN counts = {} /\ todo = <<whole.ref>>
    <3>1. key = whole.ref
      BY <2>1
    <3> HIDE DEF more, both, key, rest
    <3> QED
      BY <1>5, <1>6, <2>1, <3>1
  <2>2. CASE /\ whole.ref \in DOMAIN counts
             /\ \A k \in DOMAIN counts :
                   whole.ref \in RefsOf(definitions[k]) => whole.ref \in Range(todo) \/ counts[whole.ref] # 1
    <3>1. whole.ref # key
      BY <2>2
    <3> HIDE DEF more, both, key, rest
    <3> QED
      BY <1>2, <1>5, <1>6, <2>2, <3>1
  <2> QED
    BY <1>10, <2>1, <2>2 DEF CountFits
<1>11. \A k \in DOMAIN more : RefsOf(definitions[k]) \subseteq DOMAIN more \cup Range(both)
  <2> HIDE DEF more, both, key, rest
  <2> QED
    BY <1>5, <1>6, <1>7, <1>9
<1>12. Refers(whole) /\ \A k \in DOMAIN definitions : Refers(definitions[k])
  BY DEF CountFits
<1>13. DOMAIN more \subseteq DOMAIN definitions \ invalid /\ \A k \in DOMAIN more : more[k] \in Nat \ {0}
  <2> HIDE DEF more
  <2> QED
    BY <1>6, <1>7
<1> HIDE DEF more, both, key, rest
<1>14. CountFits(whole, definitions, invalid, more, both)
  BY <1>5, <1>7, <1>8, <1>9, <1>10, <1>11, <1>12, <1>13 DEF CountFits
<1> QED
  BY <1>14 DEF more, both, key, rest

\* All is counted: the collection begins.
LEMMA UnpackedFits ==
    ASSUME NEW whole, NEW definitions, NEW invalid, NEW counts,
           CountFits(whole, definitions, invalid, counts, <<>>)
    PROVE  CollectFits(whole, Unpacked(whole, definitions, counts), definitions, invalid, counts, {},
                       RefsOf(Unpacked(whole, definitions, counts)))
<1>1. Range(<<>>) = {}
  BY DEF Range
<1>2. /\ DOMAIN counts \subseteq DOMAIN definitions \ invalid /\ RefsOf(whole) \subseteq DOMAIN counts
      /\ \A k \in DOMAIN counts : RefsOf(definitions[k]) \subseteq DOMAIN counts
  BY <1>1 DEF CountFits
<1>3. CASE Unpacked(whole, definitions, counts) = whole
  BY <1>2, <1>3 DEF CollectFits, ClosedUnder
<1>4. CASE Unpacked(whole, definitions, counts) # whole
  <2> DEFINE json == definitions[whole.ref]
  <2>1. whole.ref # NoRef /\ counts[whole.ref] = 1 /\ Unpacked(whole, definitions, counts) = json
    BY <1>4 DEF Unpacked
  <2>2. <<>> # <<whole.ref>>
    OBVIOUS
  <2>3. whole.ref \in DOMAIN counts /\ \A k \in DOMAIN counts : whole.ref \notin RefsOf(definitions[k])
    BY <1>1, <2>1, <2>2 DEF CountFits
  <2> HIDE DEF json
  <2>4. RefsOf(json) \subseteq DOMAIN counts /\ whole.ref \notin RefsOf(json)
    BY <1>2, <2>3 DEF json
  <2> QED
    BY <1>2, <2>1, <2>3, <2>4 DEF CollectFits, ClosedUnder
<1> QED
  BY <1>3, <1>4

LEMMA VisitedFits ==
    ASSUME NEW whole, NEW json, NEW definitions, NEW invalid, NEW counts, NEW visited, NEW unvisited,
           CollectFits(whole, json, definitions, invalid, counts, visited, unvisited), NEW key \in unvisited
    PROVE  /\ key \in DOMAIN definitions
           /\ key \in visited => CollectFits(whole, json, definitions, invalid, counts, visited, unvisited \ {key})
           /\ CollectFits(whole, json, definitions, invalid, counts, visited \cup {key},
                          (unvisited \ {key}) \cup RefsOf(definitions[key]))
<1>1. key \in DOMAIN counts /\ key \in DOMAIN definitions
  BY DEF CollectFits
<1>2. ASSUME key \in visited
      PROVE  CollectFits(whole, json, definitions, invalid, counts, visited, unvisited \ {key})
  <2>1. visited \cup (unvisited \ {key}) = visited \cup unvisited
    BY <1>2
  <2> QED
    BY <2>1 DEF CollectFits
<1>3. CollectFits(whole, json, definitions, invalid, counts, visited \cup {key},
                  (unvisited \ {key}) \cup RefsOf(definitions[key]))
  <2> DEFINE all == (visited \cup {key}) \cup ((unvisited \ {key}) \cup RefsOf(definitions[key]))
  <2>1. all = (visited \cup unvisited) \cup RefsOf(definitions[key])
    OBVIOUS
  <2>2. ASSUME NEW keys \in SUBSET DOMAIN definitions, ClosedUnder(keys, json, definitions) PROVE all \subseteq keys
    <3>1. visited \cup unvisited \subseteq keys
      BY <2>2 DEF CollectFits
    <3>2. RefsOf(definitions[key]) \subseteq keys
      BY <2>2, <3>1 DEF ClosedUnder
    <3> QED
      BY <2>1, <3>1, <3>2
  <2> HIDE DEF all
  <2>3. all \subseteq DOMAIN counts /\ RefsOf(json) \subseteq all
    BY <1>1, <2>1 DEF CollectFits
  <2>4. \A k \in visited \cup {key} : RefsOf(definitions[k]) \subseteq all
    BY <2>1 DEF CollectFits
  <2>5. json # whole => whole.ref \notin all
    BY <1>1, <2>1 DEF CollectFits
  <2> QED
    BY <2>2, <2>3, <2>4, <2>5 DEF CollectFits, all
<1> QED
  BY <1>1, <1>2, <1>3

\* What the collection leaves.
LEMMA CollectedFits ==
    ASSUME Whole, answer.type = "collect", answer.unvisited = {},
           CollectFits(answer.whole, answer.json, answer.definitions, answer.invalid, answer.counts,
                       answer.visited, answer.unvisited),
           answer' = [answer EXCEPT !.type = "schema",
                        !.definitions = [k \in DOMAIN @ \cap answer.visited |-> @[k]]]
    PROVE  answer'.type = "schema" /\ JsonSchemaIsClosed'
<1> DEFINE definitions == answer.definitions
           visited == answer.visited
           json == answer.json
           whole == answer.whole
           kept == [k \in DOMAIN definitions \cap visited |-> definitions[k]]
<1>1. /\ answer'.type = "schema" /\ answer'.definitions = kept /\ answer'.json = json /\ answer'.whole = whole
      /\ answer'.invalid = answer.invalid
  BY DEF Whole, AnswerIs
<1>2. /\ DOMAIN answer.counts \subseteq DOMAIN definitions \ answer.invalid /\ visited \subseteq DOMAIN answer.counts
      /\ RefsOf(json) \subseteq visited
      /\ \A k \in visited : RefsOf(definitions[k]) \subseteq visited
      /\ \A keys \in SUBSET DOMAIN definitions : ClosedUnder(keys, json, definitions) => visited \subseteq keys
      /\ json # whole => whole.ref \notin visited
  BY DEF CollectFits
<1>3. DOMAIN kept = visited /\ \A k \in visited : kept[k] = definitions[k]
  BY <1>2
<1> HIDE DEF kept, definitions, visited, json, whole
<1>4. ClosedUnder(DOMAIN kept, json, kept)
  BY <1>2, <1>3 DEF ClosedUnder
<1>5. ASSUME NEW keys \in SUBSET DOMAIN kept, ClosedUnder(keys, json, kept) PROVE keys = DOMAIN kept
  <2>1. ClosedUnder(keys, json, definitions)
    BY <1>2, <1>3, <1>5 DEF ClosedUnder
  <2>2. keys \in SUBSET DOMAIN definitions
    BY <1>2, <1>3
  <2> QED
    BY <1>2, <1>3, <2>1, <2>2
<1>6. (json # whole => whole.ref \notin DOMAIN kept) /\ DOMAIN kept \cap answer.invalid = {}
  BY <1>2, <1>3
<1> QED
  BY <1>1, <1>4, <1>5, <1>6 DEF JsonSchemaIsClosed

LEMMA ReferencesStepKeeps ==
    ASSUME ReferencesInv, ReferencesNext
    PROVE  ReferencesInv'
<1>1. CASE BeginReferences
  <2>1. /\ answer = Pending /\ input \in ReferenceInputs /\ input' = input
        /\ answer' = Counting(input.json, input.definitions, input.invalid)
    BY <1>1 DEF BeginReferences, Asked, ReferencesInv
  <2>2. Refers(input.json) /\ \A k \in DOMAIN input.definitions : Refers(input.definitions[k])
    BY <2>1, ReferencesAssumption
  <2>3. CountFits(input.json, input.definitions, input.invalid, <<>>, input.json.refs)
    BY <2>2, CountingFits
  <2>4. /\ answer'.type = "count" /\ Whole' /\ answer'.visited = {}
        /\ answer'.whole = input.json /\ answer'.definitions = input.definitions
        /\ answer'.invalid = input.invalid /\ answer'.counts = <<>> /\ answer'.todo = input.json.refs
    BY <2>1 DEF Counting, Whole, AnswerIs
  <2> QED
    BY <2>1, <2>3, <2>4 DEF ReferencesInv
<1>2. ASSUME answer.type = "count"
      PROVE  /\ Whole /\ input \in ReferenceInputs /\ answer.visited = {}
             /\ CountFits(answer.whole, answer.definitions, answer.invalid, answer.counts, answer.todo)
  BY <1>2 DEF ReferencesInv, Pending
<1>3. ASSUME answer.type = "collect"
      PROVE  /\ Whole /\ input \in ReferenceInputs
             /\ CollectFits(answer.whole, answer.json, answer.definitions, answer.invalid, answer.counts,
                            answer.visited, answer.unvisited)
  BY <1>3 DEF ReferencesInv, Pending
<1>4. CASE CountAgain
  <2> DEFINE counts == [answer.counts EXCEPT ![Head(answer.todo)] = @ + 1]
  <2>1. /\ answer.type = "count" /\ answer.todo # <<>> /\ Head(answer.todo) \in DOMAIN answer.counts
        /\ answer' = [answer EXCEPT !.counts = counts, !.todo = Tail(@)] /\ input' = input
    BY <1>4 DEF CountAgain
  <2>2. CountFits(answer.whole, answer.definitions, answer.invalid, counts, Tail(answer.todo))
    BY <1>2, <2>1, CountedAgainFits
  <2> HIDE DEF counts
  <2>3. /\ answer'.type = "count" /\ Whole' /\ answer'.visited = {}
        /\ answer'.whole = answer.whole /\ answer'.definitions = answer.definitions
        /\ answer'.invalid = answer.invalid /\ answer'.counts = counts /\ answer'.todo = Tail(answer.todo)
    BY <1>2, <2>1 DEF Whole, AnswerIs
  <2> QED
    BY <1>2, <2>1, <2>2, <2>3 DEF ReferencesInv
<1>5. CASE CountFirst
  <2> DEFINE key == Head(answer.todo)
             counts == [k \in DOMAIN answer.counts \cup {key} |-> IF k = key THEN 1 ELSE answer.counts[k]]
             todo == answer.definitions[key].refs \o Tail(answer.todo)
  <2>1. /\ answer.type = "count" /\ answer.todo # <<>> /\ key \notin DOMAIN answer.counts
        /\ key \in DOMAIN answer.definitions \ answer.invalid
        /\ answer' = [answer EXCEPT !.counts = counts, !.todo = todo] /\ input' = input
    BY <1>5 DEF CountFirst, Resolved
  <2>2. CountFits(answer.whole, answer.definitions, answer.invalid, counts, todo)
    BY <1>2, <2>1, CountedFirstFits
  <2> HIDE DEF counts, todo
  <2>3. /\ answer'.type = "count" /\ Whole' /\ answer'.visited = {}
        /\ answer'.whole = answer.whole /\ answer'.definitions = answer.definitions
        /\ answer'.invalid = answer.invalid /\ answer'.counts = counts /\ answer'.todo = todo
    BY <1>2, <2>1 DEF Whole, AnswerIs
  <2> QED
    BY <1>2, <2>1, <2>2, <2>3 DEF ReferencesInv
<1>6. CASE Refuse
  <2> DEFINE key == Head(answer.todo)
  <2>1. /\ answer.type = "count" /\ answer.todo # <<>> /\ input' = input
        /\ key \notin DOMAIN answer.definitions \ answer.invalid
        /\ answer' = [answer EXCEPT !.type = "unresolved",
                        !.problem = IF key \in answer.invalid THEN "invalid" ELSE "missing"]
    BY <1>6 DEF Refuse, Resolved
  <2>2. /\ answer'.type = "unresolved" /\ answer'.whole = answer.whole /\ answer'.definitions = answer.definitions
        /\ answer'.invalid = answer.invalid
    BY <1>2, <2>1 DEF Whole, AnswerIs
  <2>3. key \in Range(answer.todo)
    <3> DEFINE S == Referenced(answer.whole, answer.definitions)
    <3>1. answer.todo \in Seq(S)
      BY <1>2, <2>1 DEF CountFits
    <3> HIDE DEF S
    <3> QED
      BY <2>1, <3>1, RangeOfTail
  <2> HIDE DEF key
  <2>4. ASSUME NEW keys \in SUBSET (DOMAIN answer.definitions \ answer.invalid),
               ClosedUnder(keys, answer.whole, answer.definitions)
        PROVE  FALSE
    <3>1. keys \in SUBSET DOMAIN answer.definitions
      OBVIOUS
    <3>2. Range(answer.todo) \subseteq keys
      BY <1>2, <2>1, <2>4, <3>1 DEF CountFits
    <3> QED
      BY <2>1, <2>3, <3>2
  <2> QED
    BY <1>2, <2>1, <2>2, <2>4 DEF ReferencesInv, JsonSchemaIsClosed
<1>7. CASE Unpack
  <2> DEFINE json == Unpacked(answer.whole, answer.definitions, answer.counts)
  <2>1. /\ answer.type = "count" /\ answer.todo = <<>> /\ input' = input
        /\ answer' = [answer EXCEPT !.type = "collect", !.json = json, !.unvisited = RefsOf(json)]
    BY <1>7 DEF Unpack
  <2>2. CollectFits(answer.whole, json, answer.definitions, answer.invalid, answer.counts, {}, RefsOf(json))
    BY <1>2, <2>1, UnpackedFits
  <2> HIDE DEF json
  <2>3. /\ answer'.type = "collect" /\ Whole' /\ answer'.visited = {} /\ answer'.unvisited = RefsOf(json)
        /\ answer'.whole = answer.whole /\ answer'.json = json /\ answer'.definitions = answer.definitions
        /\ answer'.invalid = answer.invalid /\ answer'.counts = answer.counts
    BY <1>2, <2>1 DEF Whole, AnswerIs
  <2> QED
    BY <1>2, <2>1, <2>2, <2>3 DEF ReferencesInv
<1>8. CASE SkipVisited
  <2>1. PICK key \in answer.unvisited \cap answer.visited : answer' = [answer EXCEPT !.unvisited = @ \ {key}]
    BY <1>8 DEF SkipVisited
  <2>2. answer.type = "collect" /\ input' = input
    BY <1>8 DEF SkipVisited
  <2>3. CollectFits(answer.whole, answer.json, answer.definitions, answer.invalid, answer.counts,
                    answer.visited, answer.unvisited \ {key})
    BY <1>3, <2>2, VisitedFits
  <2>4. /\ answer'.type = "collect" /\ Whole' /\ answer'.visited = answer.visited
        /\ answer'.unvisited = answer.unvisited \ {key}
        /\ answer'.whole = answer.whole /\ answer'.json = answer.json /\ answer'.definitions = answer.definitions
        /\ answer'.invalid = answer.invalid /\ answer'.counts = answer.counts
    BY <1>3, <2>1, <2>2 DEF Whole, AnswerIs
  <2> QED
    BY <1>3, <2>2, <2>3, <2>4 DEF ReferencesInv
<1>9. CASE Visit
  <2>1. answer.type = "collect" /\ input' = input
    BY <1>9 DEF Visit
  <2>2. \A key \in answer.unvisited : key \in DOMAIN answer.definitions
    BY <1>3, <2>1, VisitedFits
  <2>3. PICK key \in answer.unvisited \ answer.visited :
          answer' = [answer EXCEPT !.visited = @ \cup {key},
                       !.unvisited = (@ \ {key}) \cup RefsOf(answer.definitions[key])]
    BY <1>9, <2>2 DEF Visit, NewRefs
  <2> DEFINE visited == answer.visited \cup {key}
             unvisited == (answer.unvisited \ {key}) \cup RefsOf(answer.definitions[key])
  <2>4. CollectFits(answer.whole, answer.json, answer.definitions, answer.invalid, answer.counts, visited, unvisited)
    BY <1>3, <2>1, VisitedFits
  <2>5. answer' = [answer EXCEPT !.visited = visited, !.unvisited = unvisited]
    BY <2>3
  <2> HIDE DEF visited, unvisited
  <2>6. /\ answer'.type = "collect" /\ Whole' /\ answer'.visited = visited /\ answer'.unvisited = unvisited
        /\ answer'.whole = answer.whole /\ answer'.json = answer.json /\ answer'.definitions = answer.definitions
        /\ answer'.invalid = answer.invalid /\ answer'.counts = answer.counts
    BY <1>3, <2>1, <2>5 DEF Whole, AnswerIs
  <2> QED
    BY <1>3, <2>1, <2>4, <2>6 DEF ReferencesInv
<1>10. CASE Collect
  <2>1. /\ answer.type = "collect" /\ answer.unvisited = {} /\ input' = input
        /\ answer' = [answer EXCEPT !.type = "schema",
                        !.definitions = [k \in DOMAIN @ \cap answer.visited |-> @[k]]]
    BY <1>10 DEF Collect
  <2>2. answer'.type = "schema" /\ JsonSchemaIsClosed'
    BY <1>3, <2>1, CollectedFits
  <2> QED
    BY <1>3, <2>1, <2>2 DEF ReferencesInv
<1> QED
  BY <1>1, <1>4, <1>5, <1>6, <1>7, <1>8, <1>9, <1>10 DEF ReferencesNext, ReferencesStep

\* The inductive invariant of the references.
THEOREM ReferencesInvHolds == ReferencesSpec => []ReferencesInv
<1>1. ReferencesInit => ReferencesInv
  BY DEF ReferencesInit, ReferencesInv
<1>2. ReferencesInv /\ [ReferencesNext]_vars => ReferencesInv'
  <2>1. ASSUME ReferencesInv, UNCHANGED vars PROVE ReferencesInv'
    <3>1. input' = input /\ answer' = answer
      BY <2>1 DEF vars
    <3>2. Whole' = Whole /\ JsonSchemaIsClosed' = JsonSchemaIsClosed
      BY <3>1 DEF Whole, AnswerIs, JsonSchemaIsClosed
    <3> QED
      BY <2>1, <3>1, <3>2 DEF ReferencesInv
  <2> QED
    BY <2>1, ReferencesStepKeeps
<1> QED
  BY <1>1, <1>2, PTL DEF ReferencesSpec

\* The JSON schema of one model is closed and minimal, for any definitions and in whatever
\* order references are collected.
THEOREM ReferencesAreClosed == ReferencesSpec => []JsonSchemaIsClosed
<1>1. ReferencesInv => JsonSchemaIsClosed
  BY DEF ReferencesInv, JsonSchemaIsClosed, Pending
<1> QED
  BY <1>1, ReferencesInvHolds, PTL

=============================================================================
