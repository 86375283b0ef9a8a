--------------------------- MODULE DefinitionNames ---------------------------
(***************************************************************************)
(* What the definitions of a JSON schema are called (json_schema.py).      *)
(* Each has a long name that is no one else's, and five shorter ones.  The *)
(* shorter names that mean the same are used, and replacing them in the    *)
(* references makes more definitions look the same, until nothing changes. *)
(*                                                                         *)
(* A definition is known by its class and its mode.  Of its JSON schema    *)
(* there are left its references, in order, and one value for all the      *)
(* rest.                                                                   *)
(***************************************************************************)
EXTENDS Algorithms, Naturals, Sequences, FiniteSets

CONSTANTS
    NameInputs,     \* [algorithm, definitions, met]: the definitions and the
                    \* classes in the order in which they were met
    MaxIterations,  \* after how many iterations the simplification is given up
    Depth           \* how many references one behind the other are followed
                    \* when two schemas are compared

\* Every definition is of a class that was met, for one of its modes, and its
\* references are to definitions: nothing else is left by generate().
WellDefined(definitions, met) ==
    /\ met \in Seq({met[i] : i \in DOMAIN met})
    /\ \A i, j \in DOMAIN met : met[i] = met[j] => i = j
    /\ IsFiniteSet(DOMAIN definitions)
    /\ \A d \in DOMAIN definitions :
          /\ d = [class |-> d.class, mode |-> d.mode]
          /\ d.class \in {met[i] : i \in DOMAIN met}
          /\ d.mode # ""
          /\ definitions[d] = [content |-> definitions[d].content, refs |-> definitions[d].refs]
          /\ definitions[d].refs \in Seq(DOMAIN definitions)

ASSUME NamingAssumption ==
    /\ \A i \in NameInputs : i.algorithm = "names" /\ WellDefined(i.definitions, i.met)
    /\ MaxIterations \in Nat
    /\ Depth \in Nat

-----------------------------------------------------------------------------
\* get_defs_ref() offers six names for a class and a mode, the best first.  A
\* name is a module, a class name, a mode and a number, each of which may be
\* left out.
Name(module, name, mode, number) == <<module, name, mode, number>>

\* Classes with the same module and name are numbered as they are met.
Number(class, met) ==
    Cardinality({c \in {met[i] : i \in 1 .. (CHOOSE j \in DOMAIN met : met[j] = class)} :
                    c.module = class.module /\ c.name = class.name})

DefsRefChoices(key, met) ==
    LET c == key.class
    IN  << Name("", c.name, "", 0), Name("", c.name, key.mode, 0),
           Name(c.module, c.name, "", 0), Name(c.module, c.name, key.mode, 0),
           Name(c.module, c.name, "", Number(c, met)), Name(c.module, c.name, key.mode, Number(c, met)) >>

Long(choices, d) == choices[d][6]

\* Whether name is one of those that are offered for d.
Offered(name, d, choices) == \E i \in DOMAIN choices[d] : choices[d][i] = name

-----------------------------------------------------------------------------
\* Mutant: two schemas that differ in what they refer to are taken for the same.
SchemasFor_IgnoresReferences(name, choices, copied) ==
    {copied[d].content : d \in {e \in DOMAIN copied : Offered(name, e, choices)}}

\* The schemas a name would stand for.  copied has the definitions with the
\* references that were simplified so far.
SchemasFor(name, choices, copied) ==
    {copied[d] : d \in {e \in DOMAIN copied : Offered(name, e, choices)}}

\* The first name that stands for one schema only.
DefsRemapping(choices, copied) ==
    [d \in DOMAIN copied |->
        LET free == {i \in DOMAIN choices[d] : Cardinality(SchemasFor(choices[d][i], choices, copied)) = 1}
        IN  choices[d][CHOOSE i \in free : \A j \in free : i <= j]]

\* remap_json_schema(): only references under their long name are replaced.
Remapped(schema, remapping, long) ==
    [schema EXCEPT !.refs = [i \in DOMAIN @ |->
        IF @[i] \in DOMAIN long THEN remapping[long[@[i]]] ELSE @[i]]]

ChoicesFor(definitions, met) == [d \in DOMAIN definitions |-> DefsRefChoices(d, met)]

\* The definition a long name belongs to.
LongNames(choices) ==
    [n \in {Long(choices, d) : d \in DOMAIN choices} |-> CHOOSE d \in DOMAIN choices : Long(choices, d) = n]

\* References are written with the long names while the schemas are generated.
Renamed(definitions, choices) ==
    [d \in DOMAIN definitions |->
        [content |-> definitions[d].content,
         refs |-> [i \in DOMAIN definitions[d].refs |-> Long(choices, definitions[d].refs[i])]]]

\* from_prioritized_choices(), one iteration in two steps: pick names for the
\* definitions as they are, then replace the references in them.  When each
\* name stands for what it stood for after the iteration before, the names are
\* final and the definitions themselves are renamed.
StartNaming(definitions, met) ==
    LET choices == ChoicesFor(definitions, met)
        renamed == Renamed(definitions, choices)
    IN  [type |-> "pick", iteration |-> 1, choices |-> choices, definitions |-> renamed, copied |-> renamed,
         long |-> LongNames(choices), before |-> <<>>,
         remapping |-> [d \in DOMAIN definitions |-> Long(choices, d)]]

PickNames(n) ==
    [n EXCEPT !.type = "replace", !.before = n.remapping, !.remapping = DefsRemapping(n.choices, n.copied)]

ReplaceRefs(n) ==
    LET after == [d \in DOMAIN n.copied |-> Remapped(n.copied[d], n.remapping, n.long)]
        StandsFor(names) == {<<names[d], after[d]>> : d \in DOMAIN after}
    IN  IF StandsFor(n.remapping) = StandsFor(n.before)
        THEN [type |-> "names", choices |-> n.choices, remapping |-> n.remapping,
              definitions |-> [d \in DOMAIN n.definitions |-> Remapped(n.definitions[d], n.remapping, n.long)]]
        ELSE IF n.iteration >= MaxIterations THEN [type |-> "failed"]
        ELSE [n EXCEPT !.type = "pick", !.iteration = @ + 1, !.copied = after]

-----------------------------------------------------------------------------
NamesInit == input \in NameInputs /\ answer = Pending

BeginNames ==
    /\ Asked("names")
    /\ answer' = StartNaming(input.definitions, input.met)
    /\ UNCHANGED input

PickAgain ==
    /\ answer.type = "pick"
    /\ answer' = PickNames(answer)
    /\ UNCHANGED input

ReplaceAgain ==
    /\ answer.type = "replace"
    /\ answer' = ReplaceRefs(answer)
    /\ UNCHANGED input

NamesNext == BeginNames \/ PickAgain \/ ReplaceAgain
NamesSpec == NamesInit /\ [][NamesNext]_vars

-----------------------------------------------------------------------------
\* A definition and what is printed for one: nothing else than the references
\* differs, and there are as many of these.
Alike(d, e) ==
    /\ input.definitions[d].content = answer.definitions[e].content
    /\ Len(input.definitions[d].refs) = Len(answer.definitions[e].refs)

\* What one finds behind the ith reference of e: any of the definitions that
\* were given the name that is printed there.
Found(e, i) == {f \in DOMAIN answer.remapping : answer.remapping[f] = answer.definitions[e].refs[i]}

\* The pairs of a definition and a printed one that read the same down to n
\* references one behind the other.
ReadsAs[n \in 0 .. Depth] ==
    LET keys == DOMAIN input.definitions
    IN  IF n = 0 THEN {p \in keys \X keys : Alike(p[1], p[2])}
        ELSE LET before == ReadsAs[n - 1]
             IN  {p \in before : \A i \in DOMAIN input.definitions[p[1]].refs :
                     \A f \in Found(p[2], i) : <<input.definitions[p[1]].refs[i], f>> \in before}

\* Whichever of the definitions with one name is printed under it, and however
\* its references were simplified on the way, what is read from there is what
\* each of them says: "applying the name remapping would result in an
\* equivalent JSON schema" (_DefinitionsRemapping.from_prioritized_choices()).
NamesAreUnambiguous ==
    answer.type = "names" =>
        \A d, e \in DOMAIN input.definitions :
            answer.remapping[d] = answer.remapping[e] => <<d, e>> \in ReadsAs[Depth]
=============================================================================
