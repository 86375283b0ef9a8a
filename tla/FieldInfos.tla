----------------------------- MODULE FieldInfos -----------------------------
(* The FieldInfo of a field: how it is merged from an annotation and what   *)
(* is assigned to the name (fields.py), how the configuration of the class  *)
(* completes it, and how a class inherits it, collects it before its        *)
(* annotation can be evaluated, and rebuilds it later (_fields.py).         *)
(*                                                                          *)
(* set has the attributes that somebody wrote, attr all of them.  Metadata, *)
(* such as constraints, is a sequence.  What Annotated[...] holds is a      *)
(* sequence of constraints and calls of Field(); a field whose annotation   *)
(* could not be evaluated keeps the annotation and what was assigned.       *)
EXTENDS Algorithms, Naturals, Sequences, SequencesExt

CONSTANTS
    None,         \* Python's None
    FieldInputs   \* [algorithm, bodies, configs]: a chain of classes, what the
                  \* body of each says of the field, and its configuration

Aliases == {"alias", "validation_alias", "serialization_alias"}
Attributes == Aliases \cup {"alias_priority", "default", "title", "description"}

\* What a class inherits if no base has the field.
NoField == [type |-> "no field"]

\* The first class annotates the field.  What is assigned to the name is
\* nothing, a value, or a call of Field().
WellFormed(bodies, configs) ==
    /\ Len(bodies) \in Nat /\ DOMAIN bodies = 1 .. Len(bodies) /\ DOMAIN configs = DOMAIN bodies
    /\ bodies # <<>> => bodies[1].annotated
    /\ \A c \in DOMAIN bodies :
          LET body == bodies[c]
          IN  /\ {body.annotated, body.forward} \subseteq BOOLEAN
              /\ body.annotation \in Seq({body.annotation[i] : i \in DOMAIN body.annotation})
              /\ \/ body.assigned = None
                 \/ body.assigned.meta = "value"
                 \/ body.assigned = [meta |-> "field", set |-> body.assigned.set, metadata |-> body.assigned.metadata]

ASSUME FieldsAssumption ==
    \A i \in FieldInputs : i.algorithm = "fields" /\ WellFormed(i.bodies, i.configs)

-----------------------------------------------------------------------------
(* Making a FieldInfo.                                                      *)

\* dict.update()
DictUpdate(dict, with) ==
  [k \in DOMAIN dict \cup DOMAIN with |-> IF k \in DOMAIN with THEN with[k] ELSE dict[k]]

\* Field(): an alias stands for the two others too.
Field(given, metadata) ==
  [meta     |-> "field",
   set      |-> IF "alias" \in DOMAIN given THEN DictUpdate([k \in Aliases |-> given["alias"]], given) ELSE given,
   metadata |-> metadata]

Constraint(c) == [meta |-> "constraint", metadata |-> <<c>>]

\* FieldInfo.__init__(): any alias gets priority 2, unless another one is given.
FieldInfo(set, metadata) ==
  LET Given(k) == IF k \in DOMAIN set THEN set[k] ELSE None
      aliased == \E k \in Aliases : Given(k) # None
      priority == IF ~aliased THEN None ELSE IF Given("alias_priority") = None THEN 2 ELSE Given("alias_priority")
  IN  [set |-> set, metadata |-> metadata, complete |-> TRUE, annotation |-> None, assigned |-> None,
       attr |-> [k \in Attributes |-> IF k = "alias_priority" THEN priority ELSE Given(k)]]

\* FieldInfo._construct(): attributes written later win, metadata is strung together.
Writers(k, metas) == {i \in DOMAIN metas : metas[i].meta = "field" /\ k \in DOMAIN metas[i].set}

Construct(metas, overrides) ==
  LET written == [k \in {a \in Attributes : Writers(a, metas) # {}} |-> metas[Max(Writers(k, metas))].set[k]]
  IN  FieldInfo(DictUpdate(written, overrides), FlattenSeq([i \in DOMAIN metas |-> metas[i].metadata]))

FromAnnotation(annotation) == Construct(annotation, <<>>)

\* FieldInfo.from_annotated_attribute(): the metadata of an assigned Field() comes first.
FromAnnotatedAttribute(annotation, assigned) ==
  IF assigned.meta = "field"
  THEN Construct(<<Field(<<>>, assigned.metadata)>> \o annotation \o <<[assigned EXCEPT !.metadata = <<>>]>>, <<>>)
  ELSE Construct(annotation, [default |-> assigned.value])

Make(annotation, assigned) ==
  IF assigned = None THEN FromAnnotation(annotation) ELSE FromAnnotatedAttribute(annotation, assigned)

-----------------------------------------------------------------------------
(* The configuration.  A title generator gives a title.  An alias generator *)
(* gives up to three aliases; a callable gives only the first.              *)

FirstNotNone(a, b) == IF a # None THEN a ELSE b

\* _apply_field_title_generator_to_field_info()
ApplyTitleGenerator(title, attr) ==
  IF title # None /\ attr["title"] = None THEN [attr EXCEPT !["title"] = title] ELSE attr

\* _apply_alias_generator_to_field_info(): all aliases of priority 1, and those that are missing.
ApplyAliasGenerator(generator, attr) ==
  LET low == attr["alias_priority"] \in {None, 1}
      Generated(k) == IF k = "alias" THEN generator[k] ELSE FirstNotNone(generator[k], generator["alias"])
  IN  IF generator = None \/ (~low /\ \A k \in Aliases : attr[k] # None) THEN attr
      ELSE [k \in Attributes |->
              IF k \in Aliases THEN (IF low \/ attr[k] = None THEN Generated(k) ELSE attr[k])
              ELSE IF k = "alias_priority" /\ low THEN 1 ELSE attr[k]]

\* update_field_from_config()
UpdateFromConfig(config, info) ==
  [info EXCEPT !.attr = ApplyAliasGenerator(config.aliasGenerator, ApplyTitleGenerator(config.title, @))]

-----------------------------------------------------------------------------
(* Collecting and rebuilding.  body is what a class says of the field:      *)
(* whether it annotates it, with what and as a forward reference or not,    *)
(* what it assigns, and the docstring under it.                             *)

\* collect_model_fields(), of one field; inherited is the field of the first base that has it.
CollectField(body, config, inherited, known) ==
  LET evaluated == known \/ ~body.forward
      own == IF evaluated THEN Make(body.annotation, body.assigned)
             ELSE [Make(<<>>, body.assigned) EXCEPT
                      !.complete = FALSE, !.annotation = body.annotation, !.assigned = body.assigned]
      collected == IF body.annotated THEN own ELSE inherited
      updated == IF collected # NoField /\ collected.complete THEN UpdateFromConfig(config, collected) ELSE collected
  IN  IF updated = NoField THEN NoField
      ELSE [updated EXCEPT !.attr["description"] =
              IF @ = None /\ body.annotated THEN body.docstring ELSE @]

\* Mutant: what was assigned is forgotten until the field is rebuilt.
RebuildField_NoAssignment(config, info) ==
  IF info.complete THEN info
  ELSE UpdateFromConfig(config, [Make(info.annotation, None) EXCEPT
          !.attr["description"] = FirstNotNone(@, info.attr["description"])])

\* rebuild_model_fields(), of one field whose annotation can be evaluated now.
RebuildField(config, info) ==
  IF info.complete THEN info
  ELSE UpdateFromConfig(config, [Make(info.annotation, info.assigned) EXCEPT
          !.attr["description"] = FirstNotNone(@, info.attr["description"])])

\* The class statement: complete_model_class() rebuilds at once what it can.
DefineField(body, config, inherited, known) ==
  LET collected == CollectField(body, config, inherited, known)
  IN  IF collected # NoField /\ known THEN RebuildField(config, collected) ELSE collected

-----------------------------------------------------------------------------
(* The classes are defined one after the other, each the base of the next.  *)
(* The name that annotations need is defined at any time between the class  *)
(* statements; each class is rebuilt at any time after it.  Beside the      *)
(* fields that come about so, the answer holds those of classes whose names *)
(* were defined from the start.                                             *)

FieldsInit == input \in FieldInputs /\ answer = Pending

BeginFields ==
  /\ Asked("fields")
  /\ answer' = [type |-> "fields", known |-> FALSE, late |-> <<>>, eager |-> <<>>]
  /\ UNCHANGED input

\* The field of the next class, after those in table.
NextField(table, known) ==
  LET c == Len(table) + 1
  IN  DefineField(input.bodies[c], input.configs[c], IF c = 1 THEN NoField ELSE table[c - 1], known)

DefineNextClass ==
  /\ answer.type = "fields"
  /\ Len(answer.late) < Len(input.bodies)
  /\ answer' = [answer EXCEPT !.late = Append(@, NextField(@, answer.known)), !.eager = Append(@, NextField(@, TRUE))]
  /\ UNCHANGED input

DefineName ==
  /\ answer.type = "fields"
  /\ ~answer.known
  /\ answer' = [answer EXCEPT !.known = TRUE]
  /\ UNCHANGED input

RebuildClass ==
  /\ answer.type = "fields"
  /\ answer.known
  /\ \E c \in DOMAIN answer.late :
         /\ ~answer.late[c].complete
         /\ answer' = [answer EXCEPT !.late[c] = RebuildField(input.configs[c], @)]
  /\ UNCHANGED input

FieldsNext == BeginFields \/ DefineNextClass \/ DefineName \/ RebuildClass
FieldsSpec == FieldsInit /\ [][FieldsNext]_vars

-----------------------------------------------------------------------------
\* The class that annotates the field of c, and the configurations it went through since.
Annotates(asked, c) ==
  CHOOSE d \in 1 .. c : asked.bodies[d].annotated /\ \A e \in (d + 1) .. c : ~asked.bodies[e].annotated
OneConfig(asked, c) == \A d \in Annotates(asked, c) .. c : asked.configs[d] = asked.configs[c]

\* A field whose annotation is evaluated late is the one it would have been at once: the same
\* constraints in the same order, default and description, and, unless the configuration changed
\* on the way, the same title and aliases (rebuild_model_fields()).  Generated aliases are those
\* of the class itself, also for a field that it inherits (_apply_alias_generator_to_field_info()).
FieldsDoNotDependOnTime ==
  answer.type = "fields" =>
    \A c \in DOMAIN answer.late :
      LET late == answer.late[c]
          eager == answer.eager[c]
          generator == input.configs[c].aliasGenerator
      IN  late.complete =>
            /\ late.metadata = eager.metadata
            /\ \A k \in {"default", "description"} : late.attr[k] = eager.attr[k]
            /\ OneConfig(input, c) => late.attr = eager.attr
            /\ generator # None => \A info \in {late, eager} :
                 info.attr["alias_priority"] = 1 => info.attr["alias"] = generator["alias"]
=============================================================================
