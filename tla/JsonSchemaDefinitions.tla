----------------------- MODULE JsonSchemaDefinitions -----------------------
(***************************************************************************)
(* Which definitions a JSON schema has (json_schema.py).  Models become    *)
(* definitions as they are met; some fail and are remembered until someone *)
(* needs them.  JsonSchemaReferences has what becomes of them at the end,  *)
(* and DefinitionNames what they are called.                               *)
(*                                                                         *)
(* Of a core schema there is left what makes references: models with their *)
(* fields, references to definitions, containers, unions, types that have  *)
(* no JSON schema, and annotations that replace the JSON schema of a type. *)
(***************************************************************************)
EXTENDS JsonSchemaReferences, Integers, FiniteSets

\* A model is [type, class, fields]; its class is [module, name, id, override], where
\* override is json_schema_mode_override of its configuration, or "no".
Key(class, mode) == [class |-> class, mode |-> mode]

\* The property mode: the configuration of the innermost model being generated decides
\* before what the caller asked for.
ModeIn(class, asked) == IF class.override # "no" THEN class.override ELSE asked

-----------------------------------------------------------------------------
(* The traversal.  A generator g has definitions, those that are invalid,   *)
(* and the mode asked for.  A call returns the generator, the JSON schema,  *)
(* and whether PydanticInvalidForJsonSchema was raised.                     *)

Generator(asked) == [definitions |-> <<>>, invalid |-> {}, asked |-> asked]
Returns(g, json) == [g |-> g, json |-> json, raised |-> FALSE]
Raises(g) == [g |-> g, json |-> Json(<<>>), raised |-> TRUE]

\* populate_defs()
PopulateDefs(r, key) ==
  IF r.raised THEN r
  ELSE Returns([r.g EXCEPT !.definitions = [k \in DOMAIN @ \cup {key} |-> IF k = key THEN r.json ELSE @[k]],
                           !.invalid = @ \ {key}], RefTo(key))

\* handle_ref_overrides() looks a field that is only a reference up, and so raises what was stored.
HandleRefOverrides(r) == IF ~r.raised /\ r.json.ref \in r.g.invalid THEN Raises(r.g) ELSE r

RECURSIVE GenerateInner(_, _, _), FieldsSchema(_, _, _), UnionSchema(_, _, _)

GenerateInner(schema, mode, g) ==
  CASE schema.type \in {"any", "replaced"} -> Returns(g, Json(<<>>))
    [] schema.type = "callable" -> Raises(g)
    [] schema.type = "definition-ref" -> Returns(g, RefTo(Key(schema.class, mode)))
    [] schema.type = "list" -> LET r == GenerateInner(schema.schema, mode, g)
                               IN  [r EXCEPT !.json = Json(r.json.refs)]
    [] schema.type = "union" ->
         LET r == UnionSchema(schema.choices, mode, g)
         IN  Returns(r.g, IF Len(r.generated) = 1 THEN r.generated[1]
                          ELSE Json(FlattenSeq([i \in DOMAIN r.generated |-> r.generated[i].refs])))
    [] schema.type = "model" ->
         LET key == Key(schema.class, mode)
         IN  IF key \in DOMAIN g.definitions THEN Returns(g, RefTo(key))
             ELSE PopulateDefs(FieldsSchema(schema.fields, ModeIn(schema.class, g.asked), g), key)

\* _named_required_fields_schema(): one field after the other, the first error ends it.
FieldsSchema(fields, mode, g) ==
  IF fields = <<>> THEN Returns(g, Json(<<>>))
  ELSE LET before == FieldsSchema(Front(fields), mode, g)
           field == HandleRefOverrides(GenerateInner(Last(fields), mode, before.g))
       IN  IF before.raised THEN before
           ELSE IF field.raised THEN field
           ELSE Returns(field.g, Json(before.json.refs \o field.json.refs))

\* union_schema(): a choice without a JSON schema is skipped, with a warning.
UnionSchema(choices, mode, g) ==
  IF choices = <<>> THEN [g |-> g, generated |-> <<>>]
  ELSE LET before == UnionSchema(Front(choices), mode, g)
           choice == GenerateInner(Last(choices), mode, before.g)
       IN  [g |-> choice.g,
            generated |-> IF choice.raised THEN before.generated ELSE Append(before.generated, choice.json)]

\* definitions_schema(): every definition is tried first; one that fails is remembered.
RECURSIVE GenerateDefinitions(_, _, _)
GenerateDefinitions(definitions, mode, g) ==
  IF definitions = <<>> THEN Returns(g, Json(<<>>))
  ELSE LET before == GenerateDefinitions(Front(definitions), mode, g)
           r == GenerateInner(Last(definitions), mode, before.g)
           key == Key(Last(definitions).class, mode)
       IN  Returns(IF r.raised THEN [r.g EXCEPT !.invalid = @ \cup {key}] ELSE r.g, Json(<<>>))

\* Mutant: the error of a definition is raised at once, whether or not it is needed.
DefinitionsSchema_RaisesAtOnce(schema, g) ==
  LET r == GenerateDefinitions(schema.definitions, g.asked, g)
  IN  IF r.g.invalid # {} THEN Raises(r.g) ELSE GenerateInner(schema.schema, g.asked, r.g)

DefinitionsSchema(schema, g) ==
  GenerateInner(schema.schema, g.asked, GenerateDefinitions(schema.definitions, g.asked, g).g)

-----------------------------------------------------------------------------
NoJsonSchema == [type |-> "invalid"]

\* generate(), as far as the references of the schema.
Generate(schema, asked) ==
  LET r == DefinitionsSchema(schema, Generator(asked))
  IN  IF r.raised THEN NoJsonSchema ELSE Counting(r.json, r.g.definitions, r.g.invalid)

\* generate_definitions(): one generator for several schemas, each in its mode.  The
\* schemas are generated once for the definitions and once more for what refers to them.
RECURSIVE GenerateEach(_, _)
GenerateEach(inputs, g) ==
  IF inputs = <<>> THEN [g |-> g, jsons |-> <<>>, raised |-> FALSE]
  ELSE LET before == GenerateEach(Front(inputs), g)
           r == DefinitionsSchema(Last(inputs).schema, [before.g EXCEPT !.asked = Last(inputs).mode])
       IN  [g |-> r.g, jsons |-> Append(before.jsons, r.json), raised |-> before.raised \/ r.raised]

GenerateAll(inputs) ==
  LET first == GenerateEach(inputs, Generator("validation"))
      second == GenerateEach(inputs, first.g)
  IN  IF first.raised THEN NoJsonSchema
      ELSE [type |-> "schemas", json |-> Json(FlattenSeq([i \in DOMAIN inputs |-> second.jsons[i].refs])),
            definitions |-> second.g.definitions]
=============================================================================
