---------------------------- MODULE MCAlgorithms ----------------------------
(* The algorithms without a state of their own, each on every input of a    *)
(* bounded set.  The initial states are the inputs; the one step of each is *)
(* the call, and answer then holds what it returns.                         *)
EXTENDS DiscriminatedUnion, JsonSchemaDefinitions, DefinitionNames, DecoratorTables, MethodResolution, FieldInfos, FieldSchema, TLC

-----------------------------------------------------------------------------
(* Discriminated unions: members of seven models (some with a value in      *)
(* common, two with an alias, two with a default, one without literals),    *)
(* None, a list and references, wrapped, united and nested in every way,    *)
(* two levels deep.                                                         *)

Model(values, other, alias, field, default) ==
    [type |-> "model", values |-> values, other |-> other, alias |-> alias, field |-> field,
     default |-> default]
Cat == Model({"c"}, "x", NoAlias, "literal", FALSE)
Dog == Model({"d"}, "y", NoAlias, "literal", TRUE)
Pet == Model({"c", "d"}, "y", NoAlias, "literal", FALSE)
Bee == Model({"b"}, "x", "a", "literal", FALSE)
Fly == Model({"e"}, "x", "a", "literal", TRUE)
Odd == Model({}, "x", NoAlias, "str", FALSE)
Elk == Model({"e"}, "x", NoAlias, "literal", FALSE)

Ref(r) == [type |-> "definition-ref", ref |-> r]
Around(type, s) == [type |-> type, schema |-> s]
Of(type, s, t) == [type |-> type, choices |-> <<s, t>>]
Tagged(field, choices) == [type |-> "tagged-union", discriminator |-> field, choices |-> choices]

MCDefinitions == "Elk" :> Elk @@ "MaybeDog" :> Around("nullable", Dog)

Simple == {Cat, Dog, Pet, Bee, Fly, Odd, Ref("Elk"), Ref("MaybeDog"), [type |-> "none"], [type |-> "list"]}
ByKind(choices) == Tagged(<<Discriminator>>, choices)
ByOther(choices) == Tagged(<<OtherDiscriminator>>, choices)
TaggedUnions ==
    {ByKind("c" :> Cat @@ "d" :> Dog), ByKind("c" :> Pet @@ "d" :> Pet),
     Tagged(<<Discriminator, "a">>, "b" :> Bee @@ "e" :> Fly),
     ByOther("x" :> Cat @@ "y" :> Dog), ByOther("x" :> Cat @@ "y" :> Pet),
     Around("nullable", ByOther("x" :> Around("function", Around("nullable", Cat))))}
Wrapped == {Around(w, s) : w \in Wrappers \cup {"nullable"}, s \in Simple \cup TaggedUnions}
United == {Of(u, s, t) : u \in {"union", "lax-or-strict"}, s \in Simple, t \in Simple}
Deep == Simple \cup TaggedUnions \cup Wrapped \cup United
Roots == {Of("union", s, t) : s \in Simple \cup Wrapped \cup TaggedUnions, t \in Deep} \cup Deep
         \cup {Around(w, Of("union", s, t)) : w \in {"nullable", "definitions"}, s \in Simple, t \in Wrapped}

UnionInputs == {[algorithm |-> "union", schema |-> s, known |-> k] : s \in Roots, k \in BOOLEAN}

Discriminate ==
    /\ Asked("union")
    /\ answer' = ApplyOrDefer(input.schema, IF input.known THEN MCDefinitions ELSE <<>>, MCDefinitions)
    /\ UNCHANGED input

\* None, and values with and without the name and the alias of the discriminator field.
MCValues ==
    {NoneValue} \cup
    UNION {{tags @@ (OtherDiscriminator :> o) : tags \in [keys -> {"b", "c", "d", "e"}], o \in {"x", "y"}} :
           keys \in SUBSET {Discriminator, "a"}}

RECURSIVE Leaves(_), Clear(_, _)
Leaves(schema) ==
    CASE schema.type = "model" -> {schema}
      [] schema.type = "definition-ref" -> Leaves(MCDefinitions[schema.ref])
      [] schema.type \in Wrappers \cup {"nullable"} -> Leaves(schema.schema)
      [] schema.type \in {"union", "tagged-union", "lax-or-strict"} -> UNION {Leaves(s) : s \in Members(schema)}
      [] OTHER -> {}

\* A union that was given a discriminator accepts nothing that no member accepts, and no
\* value without a tag but None (test_optional_union_with_defaults, where a member would
\* accept one by its default).  It still accepts None, and every value that has the tag
\* where the members read it, unless it has another one under the name of the field,
\* where the union looks first (apply_discriminator()).
TaggedUnionAcceptsWhatIsTagged ==
    Answered("union") /\ ~Failed(answer) =>
        LET keys == {KeyOf(m) : m \in Leaves(input.schema)} IN
        \A v \in MCValues :
            LET before == Accepts(input.schema, v, MCDefinitions)
                after == Accepts(answer, v, MCDefinitions)
            IN  /\ after => before /\ (v = NoneValue \/ DOMAIN v \cap (keys \cup {Discriminator}) # {})
                /\ before /\ (\/ v = NoneValue
                              \/ \E k \in keys \cap DOMAIN v :
                                     Discriminator \in DOMAIN v => v[Discriminator] = v[k])
                   => after

LiteralsOf(schema) == UNION {m.values : m \in Leaves(schema)}

\* One value, one member, except in a tagged union that tells them apart by another field.
Clear(schema, top) ==
    CASE schema.type = "model" -> schema.field = "literal"
      [] schema.type = "definition-ref" -> Clear(MCDefinitions[schema.ref], FALSE)
      [] schema.type = "none" -> top
      [] schema.type \in {"nullable", "definitions"} -> Clear(schema.schema, top)
      [] schema.type = "function" -> Clear(schema.schema, FALSE)
      [] schema.type \in {"union", "lax-or-strict"} \/ (schema.type = "tagged-union" /\ Discriminator \in Range(schema.discriminator)) ->
           \A i \in DOMAIN schema.choices :
               /\ Clear(schema.choices[i], top /\ schema.type = "union")
               /\ \A j \in DOMAIN schema.choices \ {i} :
                      LiteralsOf(schema.choices[i]) \cap LiteralsOf(schema.choices[j]) = {}
      [] schema.type = "tagged-union" -> \A t \in DOMAIN schema.choices : Clear(schema.choices[t], FALSE)
      [] OTHER -> FALSE

\* Members with literals of their own, under one alias, can be told apart however they are
\* wrapped, also if their definitions come later (MissingDefinitionForUnionRef).
ClearUnionsAreTagged ==
    Answered("union") /\ Clear(input.schema, TRUE) /\ Cardinality({m.alias : m \in Leaves(input.schema)}) = 1 =>
        ~Failed(answer)

-----------------------------------------------------------------------------
(* JSON schemas of core schemas with three definitions: every way for two of *)
(* them to have a field, for the first to have two, and for a model outside  *)
(* to use them, in either mode and with an override.                         *)

Class(name, override) == [module |-> "m.", name |-> name, id |-> 1, override |-> override]
Define(class, fields) == [type |-> "model", class |-> class, fields |-> fields]
RefField(class) == [type |-> "definition-ref", class |-> class]
Boxed(type, s) == [type |-> type, schema |-> s]
Choice(s, t) == [type |-> "union", choices |-> <<s, t>>]
Callable == [type |-> "callable"]

Overrides == {"no", "serialization"}
A(o) == Class("A", o)
B == Class("B", "no")
C(o) == Class("C", o)
FieldsOf(c, d, o) == {RefField(c), Boxed("list", RefField(d)), Boxed("replaced", RefField(d)), Callable,
                      Choice(RefField(c), Callable), Choice(Define(Class("I", o), <<Callable>>), RefField(d))}
UpToOne(fields) == {<<>>} \cup {<<f>> : f \in fields}

CoreSchemas(o, p) ==
    {[definitions |-> ds, schema |-> root] :
     ds \in UNION {{<<Define(A(o), a), Define(B, b), Define(C(p), c)>>, <<Define(C(p), c), Define(B, b), Define(A(o), a)>>} :
                   a \in UpToOne(FieldsOf(A(o), B, o)) \cup {<<RefField(B), RefField(C(p))>>, <<RefField(A(o)), Callable>>},
                   b \in UpToOne(FieldsOf(C(p), A(o), o)), c \in UpToOne(FieldsOf(B, C(p), o))},
     root \in {RefField(A(o)), Define(Class("D", p), <<RefField(A(o)), Boxed("list", RefField(B))>>)}}

JsonInputs ==
    {[algorithm |-> al, schema |-> s, mode |-> m] :
     al \in {"json", "jsons"}, s \in UNION {CoreSchemas(o, p) : o \in Overrides, p \in Overrides},
     m \in {"validation", "serialization"}}

GenerateJson ==
    /\ Asked("json")
    /\ answer' = Generate(input.schema, input.mode)
    /\ UNCHANGED input

\* models_json_schema() of both modes.
GenerateJsons ==
    /\ Asked("jsons")
    /\ answer' = GenerateAll(<<[schema |-> input.schema, mode |-> input.mode],
                               [schema |-> input.schema, mode |-> "validation"]>>)
    /\ UNCHANGED input

Overridden == \E i \in DOMAIN input.schema.definitions : input.schema.definitions[i].class.override # "no"
                 \/ input.schema.schema.class.override # "no"
Unsupported == \E i \in DOMAIN input.schema.definitions :
                  LET fields == input.schema.definitions[i].fields
                  IN  \E j \in DOMAIN fields : fields[j] = Callable

RECURSIVE Classes(_)
Classes(schema) ==
    CASE schema.type = "model" -> {schema.class} \cup UNION {Classes(schema.fields[i]) : i \in DOMAIN schema.fields}
      [] schema.type = "definition-ref" -> {schema.class}
      [] schema.type \in {"list"} -> Classes(schema.schema)
      [] schema.type = "union" -> UNION {Classes(schema.choices[i]) : i \in DOMAIN schema.choices}
      [] OTHER -> {}

DefinitionOf(class) == LET ds == input.schema.definitions
                       IN  ds[CHOOSE i \in DOMAIN ds : ds[i].class = class]
Defined == {input.schema.definitions[i].class : i \in DOMAIN input.schema.definitions}
RECURSIVE Needed(_)
Needed(classes) ==
    LET more == classes \cup UNION {Classes(DefinitionOf(c)) : c \in classes \cap Defined}
    IN  IF more = classes THEN classes ELSE Needed(more)

Unresolved(problem) == answer.type = "unresolved" /\ answer.problem = problem

\* A type without a JSON schema fails the schema of a model only if the model needs it: not in a
\* definition that nothing refers to, nor as one of the choices of a union
\* (_core_defs_invalid_for_json_schema).  A definition is missing only where a mode is overridden;
\* the schemas of several models have all they refer to (generate_definitions()) unless a type
\* has no JSON schema or a mode is overridden.
OnlyNeededTypesFail ==
    /\ Answered("json") /\ (answer.type = "invalid" \/ Unresolved("invalid")) =>
          \E c \in Needed(Classes(input.schema.schema)) \cap Defined :
              \E i \in DOMAIN DefinitionOf(c).fields : DefinitionOf(c).fields[i] = Callable
    /\ Answered("json") /\ Unresolved("missing") => Overridden
    /\ Answered("jsons") /\ answer.type = "schemas" /\ ~Overridden /\ ~Unsupported =>
          ClosedUnder(DOMAIN answer.definitions, answer.json, answer.definitions)

\* The mode of a configuration is used "regardless of what mode was passed to the function call"
\* (config.py:840): no reference of the schema lacks its definition.
OverriddenModesAreGenerated == Answered("json") => ~Unresolved("missing")

\* Three definitions and a schema that each refer to none, to one, to several of them, to one of
\* them twice, or to one that is missing.
Referring == {Json(<<>>), Json(<<"A", "B">>), Json(<<"B", "B", "C">>)} \cup {RefTo(k) : k \in {"A", "B", "C", "X"}}
MCReferenceInputs ==
    {[algorithm |-> "references", json |-> j, definitions |-> d, invalid |-> i] :
     j \in Referring, d \in [{"A", "B", "C"} -> Referring], i \in {{}, {"C"}, {"X"}}}

-----------------------------------------------------------------------------
(* Names for the definitions of three classes, each in both modes, that     *)
(* refer to one another in every way; with three names, with two in two     *)
(* modules, or with two in one module.  The content of a class may depend   *)
(* on the mode, and two classes may have the same content.  And of five     *)
(* classes, two pairs of which are called alike, one with its own mode,     *)
(* where a name is found to be free after a longer one was used for it.     *)

Named(module, name, id, override) == [module |-> module, name |-> name, id |-> id, override |-> override]
ClassTriples == {<<Named("m.", "X", 1, "no"), Named("m.", "Y", 2, "no"), Named("m.", "Z", 3, "no")>>,
                 <<Named("m.", "X", 1, "no"), Named("n.", "X", 2, "no"), Named("m.", "Z", 3, "no")>>,
                 <<Named("m.", "X", 1, "no"), Named("m.", "X", 2, "no"), Named("", "Z", 3, "no")>>}
FiveClasses(override) ==
    <<Named("m.", "X", 1, override), Named("n.", "X", 2, "no"),
      Named("p.", "Y", 3, "no"), Named("q.", "Y", 4, "no"), Named("m.", "D", 5, "no")>>
Modes == {"validation", "serialization"}

Position(class, classes) == CHOOSE i \in DOMAIN classes : classes[i] = class

Definitions(classes, refs, Content(_, _)) ==
    [k \in {Key(classes[i], m) : i \in DOMAIN classes, m \in Modes} |->
       LET i == Position(k.class, classes)
       IN  [content |-> Content(i, k.mode),
            refs    |-> [j \in DOMAIN refs[i] |-> Key(classes[refs[i][j]], ModeIn(k.class, k.mode))]]]

Naming(classes, refs, Content(_, _)) ==
    [algorithm |-> "names", definitions |-> Definitions(classes, refs, Content), met |-> classes]

MCNameInputs ==
    {Naming(cs, r, LAMBDA i, m : <<IF t /\ i = 2 THEN 1 ELSE i, IF d[i] THEN m ELSE "any">>) :
     cs \in ClassTriples, t \in BOOLEAN, d \in [1..3 -> BOOLEAN],
     r \in [1..3 -> {<<>>, <<1>>, <<2>>, <<3>>, <<1, 2>>, <<2, 3>>}]}
    \cup {Naming(FiveClasses(o), <<<<3>>, <<n>>, <<>>, <<>>, <<1>>>>,
                LAMBDA i, m : <<(i + 1) \div 2, IF d[i] THEN m ELSE "any">>) :
         o \in {"no", "validation"}, n \in 3..4, d \in [1..5 -> BOOLEAN]}

-----------------------------------------------------------------------------
(* Decorators: four classes, in a chain, with two bases, or in a diamond,   *)
(* and two names that validate or serialize the fields f and g, or are      *)
(* overridden without a decorator, in every way.  The classes are built one *)
(* after the other, as class statements are.                                *)

Chain == "A" :> <<>> @@ "B" :> <<"A">> @@ "C" :> <<"B">> @@ "D" :> <<"C">>
TwoBases == "A" :> <<>> @@ "B" :> <<"A">> @@ "C" :> <<>> @@ "D" :> <<"B", "C">>
Diamond == "A" :> <<>> @@ "B" :> <<"A">> @@ "C" :> <<"A">> @@ "D" :> <<"B", "C">>

Validates(f) == [kind |-> "field_validators", field |-> f]
Serializes(f) == [kind |-> "field_serializers", field |-> f]
Plain == [kind |-> "plain"]

Decorators == {<<{Absent, Plain, Validates("f"), Serializes("f")}, {Absent, Validates("f")}>>,
               <<{Absent, Serializes("f"), Serializes("g")}, {Absent, Serializes("f")}>>}

Mros == {[c \in DOMAIN b |-> Mro(c, b)] : b \in {Chain, TwoBases, Diamond}}

MCDecoratorInputs ==
    {[algorithm |-> "decorators", mro |-> m, names |-> n, own |-> [c \in DOMAIN m |-> "v" :> o[1][c] @@ "w" :> o[2][c]]] :
     m \in Mros, n \in {<<"v", "w">>, <<"w", "v">>},
     o \in UNION {[{"A", "B", "C", "D"} -> d[1]] \X {w \in [{"A", "B", "C", "D"} -> d[2]] : w["C"] = Absent} : d \in Decorators}}

-----------------------------------------------------------------------------
(* Fields: one field of three classes in a chain.  The first annotates it,  *)
(* the others may; each has a configuration.                                *)

Body(annotation, assigned, docstring) ==
    [annotated |-> TRUE, forward |-> TRUE, annotation |-> annotation, assigned |-> assigned, docstring |-> docstring]
Annotated == {<<>>, <<Constraint("c"), Field("title" :> "t" @@ "alias" :> "a", <<"m">>)>>,
              <<Field("validation_alias" :> "v", <<"m">>), Field("alias" :> "b", <<>>), Constraint("c")>>}
Assigned == {None, [meta |-> "value", value |-> "d"], Field("default" :> "e" @@ "serialization_alias" :> "s", <<"n">>),
             Field("alias" :> "a" @@ "alias_priority" :> 1 @@ "description" :> "x", <<>>)}
FirstBodies == {Body(n, a, d) : n \in Annotated, a \in Assigned, d \in {None, "doc"}}
                \cup {[Body(n, a, None) EXCEPT !.forward = FALSE] : n \in Annotated, a \in Assigned}
Inherits == [annotated |-> FALSE, forward |-> FALSE, annotation |-> <<>>, assigned |-> None, docstring |-> None]
Again == [Body(<<>>, None, None) EXCEPT !.forward = FALSE]
Otherwise == Body(<<>>, Field("alias" :> "z", <<>>), "other")

Calls(name) == "alias" :> name @@ "validation_alias" :> None @@ "serialization_alias" :> None
Only(name) == [Calls(None) EXCEPT !["validation_alias"] = name]
Config(generator, title) == [aliasGenerator |-> generator, title |-> title]
FirstConfigs == {Config(None, None), Config(Calls("A"), "A"), Config(Only("A"), None)}
NextConfigs(own, inherited) == {inherited, Config(None, None), Config(Calls(own), own), Config(Only(own), own)}

ConfigTriples == UNION {{<<x, y, z>> : z \in NextConfigs("C", y)} :
                        <<x, y>> \in UNION {{<<v, w>> : w \in NextConfigs("B", v)} : v \in FirstConfigs}}
MCFieldInputs ==
    {[algorithm |-> "fields", bodies |-> <<a, b, c>>, configs |-> t] :
     a \in FirstBodies, b \in {Inherits, Again, Otherwise}, c \in {Inherits, Otherwise}, t \in ConfigTriples}

-----------------------------------------------------------------------------
(* The schema of a field: int or str, optional or not, by itself or by the  *)
(* name of an alias; up to three annotations; or up to two, with a          *)
(* decorated validator, one of version 1 and a default.  Every number and   *)
(* text that the constraints tell apart is validated, and None.             *)

Type(name) == [type |-> name, constraints |-> <<>>]
Optional(t) == [type |-> "nullable", schema |-> t]
Alias(t) == [type |-> "definition-ref", definition |-> t]
Types == {Type("int"), Type("str")}
FieldTypes == Types \cup {Optional(t) : t \in Types} \cup {Alias(t) : t \in Types} \cup {Alias(Optional(t)) : t \in Types}

Limit(name, value) == [kind |-> "constraints", constraints |-> <<[name |-> name, value |-> value]>>]
StripAndMatch == [kind |-> "constraints", constraints |-> <<[name |-> "strip_whitespace", value |-> TRUE],
                                                            [name |-> "pattern", value |-> TRUE]>>]
Calling(kind, id) == [kind |-> kind, id |-> id]
Annotations == {Limit("gt", 1), Limit("gt", 2), Limit("max_length", 2), Limit("strict", TRUE), StripAndMatch,
                [kind |-> "predicate"], [kind |-> "unknown"]}
\* Each function says by its number where it was written.
Written(position) == Annotations \cup {Calling(k, position) : k \in Validators}
UpToTwo == {<<>>} \cup {<<a>> : a \in Written(1)} \cup {<<a, b>> : a \in Written(1), b \in Written(2)}
UpToThree == UpToTwo \cup {Append(as, c) : as \in UpToTwo \ {<<>>}, c \in Written(3)}

Texts == {[kind |-> "str", n |-> n, spaces |-> b, ran |-> <<>>] : n \in 1..3, b \in 0..1}
Numbers == {[kind |-> "int", n |-> n, spaces |-> 0, ran |-> <<>>] : n \in 1..3}
NoneInput == [kind |-> "none", n |-> 0, spaces |-> 0, ran |-> <<>>]
FieldValues == Texts \cup Numbers \cup {NoneInput}
ADefault == [kind |-> "str", n |-> 2, spaces |-> 1, ran |-> <<>>]

FieldWith(t, as, decorated, validators, required, validateDefault) ==
    [type |-> t, annotations |-> as, decorated |-> decorated, validators |-> validators, required |-> required,
     default |-> ADefault, validateDefault |-> validateDefault]
VersionOne == {<<>>} \cup {<<[kind |-> k, id |-> 5, always |-> a]>> : k \in {"before", "after"}, a \in BOOLEAN}

FieldInput ==
    \E t \in FieldTypes :
        \/ \E as \in UpToThree :
               input = [algorithm |-> "field", field |-> FieldWith(t, as, <<>>, <<>>, TRUE, FALSE)]
        \/ \E as \in UpToTwo, d \in {<<>>} \cup {<<Calling(k, 4)>> : k \in Validators}, v \in VersionOne, val \in BOOLEAN :
               input = [algorithm |-> "field", field |-> FieldWith(t, as, d, v, FALSE, val)]

BuildField ==
    /\ Asked("field")
    /\ answer' = CommonFieldSchema(input.field)
    /\ UNCHANGED input

\* All that was written, in its order.
Steps == input.field.annotations \o input.field.decorated \o input.field.validators
Before(position, kinds) == SelectSeq(SubSeq(Steps, 1, position - 1), LAMBDA a : a.kind \in kinds) # <<>>
IsStrict(a) == a.kind = "constraints" /\ a.constraints[1].name = "strict"

\* What is written between the type and the first function.
FirstFunction == SelectInSeq(Steps, LAMBDA a : a.kind \in Validators)
Direct == IF FirstFunction = 0 THEN Steps ELSE SubSeq(Steps, 1, FirstFunction - 1)
Fitting(a, t) == a.kind = "unknown" \/ (a.kind = "constraints" /\ \A i \in DOMAIN a.constraints :
                                            t.type \in AllowedSchemas[a.constraints[i].name])
CheckAll(a, v) == CASE a.kind = "constraints" /\ ~IsStrict(a) -> FoldLeft(LAMBDA x, c : Check(c, x), v, a.constraints)
                    [] a.kind = "predicate" -> Check([name |-> "predicate"], v)
                    [] OTHER -> v

\* The type t and the annotations as written at it.  Those that fit are the type's own, the last of
\* each name; from the first that does not fit on, each is checked after the other.
Typed(t, as, v) ==
    LET misfit == SelectInSeq(as, LAMBDA a : ~IsStrict(a) /\ ~Fitting(a, t))
        own == SelectSeq(IF misfit = 0 THEN as ELSE SubSeq(as, 1, misfit - 1), LAMBDA a : a.kind = "constraints")
        later == IF misfit = 0 THEN <<>> ELSE SubSeq(as, misfit, Len(as))
        constraints == FoldLeft(LAMBDA set, c : (c.name :> c.value) @@ set, <<>>,
                                FlattenSeq([i \in DOMAIN own |-> own[i].constraints]))
        strict == IF \E i \in DOMAIN Steps : IsStrict(Steps[i]) THEN "strict" :> TRUE ELSE <<>>
    IN  FoldLeft(LAMBDA x, a : CheckAll(a, x), ValidateType(t.type, strict @@ constraints, v), later)

\* None satisfies an optional type, constraints included, except those on an alias of it.
AtType(v) ==
    LET t == input.field.type
    IN  CASE t.type \in {"int", "str"} -> Typed(t, Direct, v)
          [] t.type = "nullable" -> IF v.kind = "none" THEN v ELSE Typed(t.schema, Direct, v)
          [] t.type = "definition-ref" /\ t.definition.type # "nullable" -> Typed(t.definition, Direct, v)
          [] OTHER -> FoldLeft(LAMBDA x, a : CheckAll(a, x),
                               IF v.kind = "none" THEN v ELSE Typed(t.definition.schema, <<>>, v), Direct)

\* What the documentation says of validators, and constraints among them.
InOrder(v) ==
    LET plain == SelectLastInSeq(Steps, LAMBDA a : a.kind = "plain")
        from == IF plain # 0 THEN plain ELSE Len(Direct)
        inwards == FoldRight(LAMBDA a, x : IF a.kind \in {"before", "wrap"} THEN Run(a, x) ELSE x,
                             SubSeq(Steps, from + 1, Len(Steps)), v)
        middle == IF plain # 0 THEN Run(Steps[plain], inwards) ELSE AtType(inwards)
    IN  FoldLeft(LAMBDA x, a : IF a.kind \in {"after", "wrap"} THEN Run(a, x) ELSE CheckAll(a, x),
                 middle, SubSeq(Steps, from + 1, Len(Steps)))

\* "before and wrap validators are run from right to left, and after validators are then run from
\* left to right" (docs/concepts/validators.md:723), constraints where they are written among them
\* if not at the type, and decorated validators after the annotations (apply_known_metadata()).  A
\* default is itself valid, or goes the same way if that is asked for.  Only strictness, written
\* after what hides the type, is refused.
ValidatorsRunInOrder ==
    Answered("field") =>
        LET always == \E i \in DOMAIN input.field.validators : input.field.validators[i].always
        IN  IF answer.type = "error"
            THEN \E i \in DOMAIN Steps :
                     /\ IsStrict(Steps[i])
                     /\ Before(i, Validators \cup {"constraints"}) \/ input.field.type.type = "definition-ref"
            ELSE /\ \A v \in FieldValues : Validate(answer, v) = InOrder(v)
                 /\ ~input.field.required =>
                        Validate(answer, Missing) =
                            IF input.field.validateDefault \/ always THEN InOrder(ADefault) ELSE ADefault

-----------------------------------------------------------------------------
Init ==
    \/ NamesInit
    \/ DecoratorsInit
    \/ FieldsInit
    \/ ReferencesInit
    \/ /\ input \in UnionInputs \/ input \in JsonInputs \/ FieldInput
       /\ answer = Pending
Next == Discriminate \/ GenerateJson \/ GenerateJsons \/ ReferencesNext \/ NamesNext
        \/ DecoratorsNext \/ FieldsNext
        \/ BuildField
Spec == Init /\ [][Next]_vars
=============================================================================
