---------------------------- MODULE FieldSchema ----------------------------
(* What is built around the schema of a type for the annotations,           *)
(* validators and default of a field (_generate_schema.py): constraints are *)
(* set on the schema where its type knows them, and wrap it otherwise       *)
(* (_known_annotated_metadata.py); validators wrap what there is so far.    *)
(*                                                                          *)
(* A schema is a record with a type; int and str have the constraints that  *)
(* were set, functions what they run.  Values are numbers, texts or None,   *)
(* and remember which functions they went through.  A text of n digits      *)
(* stands for the number n; spaces is the blanks around it.                 *)
EXTENDS Naturals, Sequences, SequencesExt, TLC

BuildError == [type |-> "error"]
Function(type, run, schema) == [type |-> type, run |-> run, schema |-> schema]
AfterFunction(run, schema) == Function("function-after", run, schema)

-----------------------------------------------------------------------------
(* Constraints.  An annotation of kind "constraints" has one or more that   *)
(* were grouped; "predicate" and "unknown" are other metadata.              *)

AllowedSchemas == [gt |-> {"int"}, max_length |-> {"str"}, strict |-> {"int", "str"},
                   strip_whitespace |-> {"str"}, pattern |-> {"str"}]
ChainConstraints == {"strip_whitespace", "pattern"}
NumericConstraints == {"gt", "max_length"}
FunctionSchemas == {"function-before", "function-wrap", "function-after"}

\* One round of the loop over the constraints: set, left for the chain, or checked afterwards.
ApplyConstraint(type, schema, c) ==
  CASE type \in AllowedSchemas[c.name]  -> [schema EXCEPT !.constraints = (c.name :> c.value) @@ @]
    [] type \notin AllowedSchemas[c.name] /\ c.name \in ChainConstraints   -> schema
    [] type \notin AllowedSchemas[c.name] /\ c.name \in NumericConstraints -> AfterFunction(c, schema)
    [] OTHER -> BuildError

\* apply_known_metadata(); what it does not know leaves the schema as it is.
RECURSIVE ApplyKnownMetadata(_, _)
ApplyKnownMetadata(annotation, schema) ==
  LET applied == FoldLeft(LAMBDA s, c : ApplyConstraint(schema.type, s, c), schema, annotation.constraints)
      steps == SelectSeq(annotation.constraints,
                         LAMBDA c : c.name \in ChainConstraints /\ schema.type \notin AllowedSchemas[c.name])
  IN  CASE annotation.kind = "unknown" -> schema
        [] annotation.kind = "predicate" -> AfterFunction([name |-> "predicate"], schema)
        [] annotation.kind = "constraints" /\ annotation.constraints[1].name = "strict" /\ schema.type \in FunctionSchemas ->
             LET inner == ApplyKnownMetadata(annotation, schema.schema)
             IN  IF inner.type = "error" THEN BuildError ELSE [schema EXCEPT !.schema = inner]
        [] OTHER -> IF steps = <<>> THEN applied ELSE [type |-> "chain", schema |-> applied, steps |-> steps]

\* Mutant: a reference to an alias of an optional type is treated like the optional type.
RECURSIVE ApplySingleAnnotation_Optional(_, _)
ApplySingleAnnotation_Optional(schema, annotation) ==
  CASE schema.type = "nullable" ->
         LET inner == ApplySingleAnnotation_Optional(schema.schema, annotation)
         IN  IF inner.type = "error" THEN BuildError ELSE [schema EXCEPT !.schema = inner]
    [] schema.type = "definition-ref" -> ApplySingleAnnotation_Optional(schema.definition, annotation)
    [] OTHER -> ApplyKnownMetadata(annotation, schema)

\* _apply_single_annotation(): inside of what is optional, and to a copy of what is referred to.
RECURSIVE ApplySingleAnnotation(_, _)
ApplySingleAnnotation(schema, annotation) ==
  CASE schema.type = "nullable" ->
         LET inner == ApplySingleAnnotation(schema.schema, annotation)
         IN  IF inner.type = "error" THEN BuildError ELSE [schema EXCEPT !.schema = inner]
    [] schema.type = "definition-ref" ->
         IF annotation.kind = "unknown" THEN schema ELSE ApplyKnownMetadata(annotation, schema.definition)
    [] OTHER -> ApplyKnownMetadata(annotation, schema)

-----------------------------------------------------------------------------
(* Validators and the field.                                                *)

\* PlainValidator replaces the schema, the others go around it.
BeforeFunction(validator, schema) == Function("function-before", validator, schema)
WrapFunction(validator, schema)   == Function("function-wrap", validator, schema)
PlainFunction(validator)          == [type |-> "function-plain", run |-> validator]

ValidatorSchema(validator, schema) ==
  CASE schema.type = "error"      -> BuildError
    [] validator.kind = "after"   -> AfterFunction(validator, schema)
    [] validator.kind = "before"  -> BeforeFunction(validator, schema)
    [] validator.kind = "wrap"    -> WrapFunction(validator, schema)
    [] validator.kind = "plain"   -> PlainFunction(validator)

Validators == {"after", "before", "wrap", "plain"}

\* _get_wrapped_inner_schema(): an annotation has a schema method, or is metadata.
WrapInner(schema, annotation) ==
  IF schema.type = "error" THEN BuildError
  ELSE IF annotation.kind \in Validators THEN ValidatorSchema(annotation, schema)
  ELSE ApplySingleAnnotation(schema, annotation)

\* _apply_annotations(): the first is the innermost.
ApplyAnnotations(schema, annotations) == FoldLeft(WrapInner, schema, annotations)

\* apply_validators(), of the validators of version 1.
ApplyValidators(schema, validators) == FoldLeft(LAMBDA s, v : ValidatorSchema(v, s), schema, validators)

WrapDefault(field, validateDefault, schema) ==
  IF schema.type = "error" THEN BuildError
  ELSE [type |-> "default", default |-> field.default, validate |-> validateDefault, schema |-> schema]

\* _common_field_schema(): decorated validators come after the annotations, the default is outermost.
\* A validator of version 1 may ask for the default to be validated.
CommonFieldSchema(field) ==
  LET annotated == ApplyAnnotations(field.type, field.annotations \o field.decorated)
      schema == ApplyValidators(annotated, field.validators)
      always == \E i \in DOMAIN field.validators : field.validators[i].always
  IN  IF field.required THEN schema ELSE WrapDefault(field, field.validateDefault \/ always, schema)

-----------------------------------------------------------------------------
(* Validation, by pydantic-core.                                            *)

Invalid == [kind |-> "invalid"]
TypeError == [kind |-> "TypeError"]
Missing == [kind |-> "missing"]
Raised(v) == v.kind \in {"invalid", "TypeError"}

\* A function of the user: it counts up and goes on with whatever it gets.
Run(function, v) ==
  IF Raised(v) THEN v
  ELSE [v EXCEPT !.ran = Append(@, function.id), !.n = IF v.kind = "none" THEN @ ELSE @ + 1]

\* The functions of _validators.py, and those of a chain: the wrong type of value is no validation error.
Check(c, v) ==
  LET If(ok) == IF ok THEN v ELSE Invalid
      text == v.kind = "str"
      number == v.kind = "int"
  IN  CASE Raised(v)                               -> v
        [] c.name = "gt" /\ number                 -> If(v.n > c.value)
        [] c.name = "predicate" /\ (number \/ text) -> If(v.n # 2)
        [] c.name = "max_length" /\ text           -> If(v.n + v.spaces <= c.value)
        [] c.name = "strip_whitespace" /\ text     -> [v EXCEPT !.spaces = 0]
        [] c.name = "pattern" /\ text              -> If(v.spaces = 0)
        [] OTHER                                   -> TypeError

Apply(run, v) == IF "id" \in DOMAIN run THEN Run(run, v) ELSE Check(run, v)

\* int and str: the type first, and for texts blanks before length and pattern.
ValidateType(type, constraints, v) ==
  LET CheckOf(name, x) == IF name \in DOMAIN constraints
                          THEN Check([name |-> name, value |-> constraints[name]], x) ELSE x
      numeric == v.kind = "int" \/ (v.kind = "str" /\ "strict" \notin DOMAIN constraints)
  IN  IF Raised(v) THEN v
      ELSE IF type = "int"
      THEN (IF numeric THEN CheckOf("gt", [v EXCEPT !.kind = "int", !.spaces = 0]) ELSE Invalid)
      ELSE (IF v.kind = "str" THEN CheckOf("pattern", CheckOf("max_length", CheckOf("strip_whitespace", v))) ELSE Invalid)

RECURSIVE Validate(_, _)
Validate(schema, v) ==
  CASE schema.type \in {"int", "str"}   -> ValidateType(schema.type, schema.constraints, v)
    [] schema.type = "nullable"         -> IF v.kind = "none" THEN v ELSE Validate(schema.schema, v)
    [] schema.type = "definition-ref"   -> Validate(schema.definition, v)
    [] schema.type = "function-after"   -> Apply(schema.run, Validate(schema.schema, v))
    [] schema.type = "function-before"  ->
         LET before == Run(schema.run, v) IN IF Raised(before) THEN before ELSE Validate(schema.schema, before)
    [] schema.type = "function-wrap"    -> Run(schema.run, Validate(schema.schema, Run(schema.run, v)))
    [] schema.type = "function-plain"   -> Run(schema.run, v)
    [] schema.type = "chain"            -> FoldLeft(LAMBDA x, c : Check(c, x), Validate(schema.schema, v), schema.steps)
    [] schema.type = "default"          ->
         IF v.kind # "missing" THEN Validate(schema.schema, v)
         ELSE IF schema.validate THEN Validate(schema.schema, schema.default) ELSE schema.default
=============================================================================
