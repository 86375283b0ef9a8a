------------------------- MODULE DiscriminatedUnion -------------------------
(* apply_discriminator() (_internal/_discriminated_union.py): a union whose *)
(* members all have a field with literal values becomes a tagged union that *)
(* looks the member up by the value of that field.  Optional members, inner *)
(* unions, functions around members, references and tagged unions on the    *)
(* same or on another field are unwrapped on the way.                       *)
(*                                                                          *)
(* A core schema is a record with a type.  What a member says about the     *)
(* discriminator is all that is kept of it: the literal values of the field *)
(* (none when it is missing, or not a literal), its alias, whether it has a *)
(* default, and, for tagged unions nested in it, the value of a second      *)
(* field.  The order in which members are visited decides only which of     *)
(* several errors is raised, so that the work list is a set of found        *)
(* <<value, member>> pairs.                                                 *)
EXTENDS Integers, FiniteSets, Sequences

CONSTANTS Discriminator, OtherDiscriminator, NoAlias, NoneValue

Wrappers == {"definitions", "function"}

\* What walking a schema finds: which members each value would select, the
\* aliases of the discriminator fields, whether None is accepted, whether an
\* error is raised, and whether a definition was not available.
Nothing == [pairs |-> {}, aliases |-> {}, nullable |-> FALSE, error |-> FALSE, missing |-> FALSE]
Error == [Nothing EXCEPT !.error = TRUE]

Together(found) ==
  [pairs    |-> UNION {f.pairs : f \in found},
   aliases  |-> UNION {f.aliases : f \in found},
   nullable |-> \E f \in found : f.nullable,
   error    |-> \E f \in found : f.error,
   missing  |-> \E f \in found : f.missing]

Members(schema) == {schema.choices[i] : i \in DOMAIN schema.choices}

-----------------------------------------------------------------------------
(* The values of the discriminator field of a member, whatever is around it. *)
(* A default of the field is ignored.                                        *)

InferField(member) ==
  IF member.field = "literal"
  THEN [Nothing EXCEPT !.pairs = {<<v, member>> : v \in member.values}, !.aliases = {member.alias}]
  ELSE Error

RECURSIVE InferValues(_, _)
InferValues(schema, definitions) ==
  CASE schema.type \in Wrappers -> InferValues(schema.schema, definitions)
    [] schema.type = "nullable" ->
         [InferValues(schema.schema, definitions) EXCEPT !.nullable = TRUE]
    [] schema.type \in {"union", "tagged-union", "lax-or-strict"} ->
         Together({InferValues(s, definitions) : s \in Members(schema)})
    [] schema.type = "model" -> InferField(schema)
    [] schema.type = "definition-ref" ->
         IF schema.ref \in DOMAIN definitions THEN InferValues(definitions[schema.ref], definitions)
         ELSE [Nothing EXCEPT !.missing = TRUE]
    [] OTHER -> Error

\* Mutant: any inner tagged union is dissolved into the outer one.
IsDiscriminatorShared_Always(schema) == TRUE

\* _is_discriminator_shared(): an inner tagged union on the same field is dissolved.
IsDiscriminatorShared(schema) ==
  \E i \in DOMAIN schema.discriminator : schema.discriminator[i] = Discriminator

RECURSIVE HandleChoice(_, _)
HandleChoice(choice, definitions) ==
  CASE choice.type = "none" -> [Nothing EXCEPT !.nullable = TRUE]
    [] choice.type = "definitions" -> HandleChoice(choice.schema, definitions)
    [] choice.type = "nullable" -> [HandleChoice(choice.schema, definitions) EXCEPT !.nullable = TRUE]
    [] choice.type = "union" \/ (choice.type = "tagged-union" /\ IsDiscriminatorShared(choice)) ->
         Together({HandleChoice(s, definitions) : s \in Members(choice)})
    [] OTHER ->
         LET inferred == InferValues(choice, definitions)
         IN  [inferred EXCEPT !.pairs = {<<p[1], choice>> : p \in inferred.pairs}]

-----------------------------------------------------------------------------

\* _set_unique_choice_for_values(): no value may select two different members.
Ambiguous(found) == \E p, q \in found.pairs : p[1] = q[1] /\ p[2] # q[2]

Values(found) == {p[1] : p \in found.pairs}

\* Mutant: the tag is not looked up under the alias.
TaggedUnion_NameOnly(found) ==
  [type |-> "tagged-union", discriminator |-> <<Discriminator>>,
   choices |-> [v \in Values(found) |-> (CHOOSE p \in found.pairs : p[1] = v)[2]]]

\* The tag is looked up under the name of the field and, when there is none, under
\* its alias.
TaggedUnion(found) ==
  [type |-> "tagged-union",
   discriminator |-> IF found.aliases \subseteq {NoAlias} THEN <<Discriminator>>
                     ELSE <<Discriminator, CHOOSE a \in found.aliases : a # NoAlias>>,
   choices |-> [v \in Values(found) |-> (CHOOSE p \in found.pairs : p[1] = v)[2]]]

Nullable(schema) == [type |-> "nullable", schema |-> schema]

Failure(type) == [type |-> type]

RECURSIVE ApplyToRoot(_, _)
ApplyToRoot(schema, definitions) ==
  IF schema.type \in {"nullable", "definitions"}
  THEN LET inner == ApplyToRoot(schema.schema, definitions)
       IN  [inner EXCEPT !.schema = [type |-> schema.type, schema |-> inner.schema],
                         !.isNullable = @ \/ schema.type = "nullable"]
  ELSE LET found == HandleChoice(IF schema.type = "union" THEN schema
                                 ELSE [type |-> "union", choices |-> <<schema>>], definitions)
       IN  [shouldBeNullable |-> found.nullable, isNullable |-> FALSE,
            schema |-> TaggedUnion(found),
            outcome |-> IF found.missing THEN "missing"
                        ELSE IF found.error \/ Cardinality(found.aliases) > 1 \/ Ambiguous(found) THEN "error"
                        ELSE "applied"]

\* Mutant: a union that met None among its members is not made nullable.
ApplyDiscriminator_NeverNullable(schema, definitions) ==
  LET root == ApplyToRoot(schema, definitions)
  IN  IF root.outcome # "applied" THEN Failure(root.outcome) ELSE root.schema

ApplyDiscriminator(schema, definitions) ==
  LET root == ApplyToRoot(schema, definitions)
  IN  IF root.outcome # "applied" THEN Failure(root.outcome)
      ELSE IF root.shouldBeNullable /\ ~root.isNullable THEN Nullable(root.schema)
      ELSE root.schema

Failed(schema) == schema.type \in {"missing", "error"}

\* GenerateSchema._apply_discriminator_to_union() keeps the union when a
\* definition is missing; finalize_schema() applies the discriminator again,
\* with every definition.
ApplyOrDefer(schema, known, all) ==
  LET first == ApplyDiscriminator(schema, known)
  IN  IF first.type = "missing" THEN ApplyDiscriminator(schema, all) ELSE first

-----------------------------------------------------------------------------
(* What a schema accepts, for None and for values, functions from the keys   *)
(* they have.  A function hands its value to what it wraps.  A member reads  *)
(* its field under the alias, if it has one (validate_by_name is not set),   *)
(* and goes without it if it has a default.  A tagged union takes the tag    *)
(* from the first of its keys that is there, and so never accepts None.      *)

KeyOf(model) == IF model.alias = NoAlias THEN Discriminator ELSE model.alias

RECURSIVE Accepts(_, _, _)
Accepts(schema, value, definitions) ==
  CASE schema.type = "none" -> value = NoneValue
    [] schema.type \in Wrappers -> Accepts(schema.schema, value, definitions)
    [] schema.type = "nullable" -> value = NoneValue \/ Accepts(schema.schema, value, definitions)
    [] schema.type \in {"union", "lax-or-strict"} -> \E s \in Members(schema) : Accepts(s, value, definitions)
    [] schema.type = "tagged-union" ->
         /\ value # NoneValue
         /\ LET keys == SelectSeq(schema.discriminator, LAMBDA k : k \in DOMAIN value)
            IN  /\ keys # <<>>
                /\ value[keys[1]] \in DOMAIN schema.choices
                /\ Accepts(schema.choices[value[keys[1]]], value, definitions)
    [] schema.type = "model" ->
         /\ value # NoneValue
         /\ IF KeyOf(schema) \in DOMAIN value THEN value[KeyOf(schema)] \in schema.values
            ELSE schema.default
         /\ value[OtherDiscriminator] = schema.other
    [] schema.type = "definition-ref" -> Accepts(definitions[schema.ref], value, definitions)
    [] OTHER -> FALSE
=============================================================================
