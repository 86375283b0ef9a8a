---------------------------- MODULE ModelInstance ----------------------------
(***************************************************************************)
(* The instances of one model class: how they are made, assigned to,       *)
(* deleted from, copied and compared.                                      *)
(*                                                                         *)
(* An instance keeps its attributes in four places (the slots of           *)
(* BaseModel): __dict__, __pydantic_extra__, __pydantic_private__ and      *)
(* __pydantic_fields_set__.  Which of them an assignment writes is decided *)
(* by _setattr_handler(), whose answer the class remembers; which of them  *)
(* a read finds first is decided by Python and __getattr__().  Sets and    *)
(* private dictionaries are objects that two instances may share, so they  *)
(* live on a heap, indexed by the instance they were made for.             *)
(*                                                                         *)
(* An absent dictionary (None) is the empty one: no operation tells them   *)
(* apart.  Values are not converted; an assignment or a validation that    *)
(* raises changes nothing and is a stuttering step.                        *)
(***************************************************************************)
EXTENDS Naturals, Sequences, FiniteSets, Functions

CONSTANTS
    Instances,    \* the objects the program may create
    Names,        \* attribute names
    Underscored,  \* the names that start with an underscore
    Values,
    NoValue,      \* an AttributeError
    ClassValue,   \* what an attribute of the class holds
    Models        \* the classes to look at, one of which is the class

ASSUME NamesAssumption ==
    /\ Underscored \subseteq Names
    /\ NoValue \notin Values /\ ClassValue \notin Values

\* A model class.  `keys` lists, for each field, the keys model_construct()
\* looks for in turn: alias, validation aliases, name; `path` says that the key
\* is the first step of an AliasPath.
Model ==
    [ fields : Seq(Names), required : SUBSET Names,
      keys : [Names -> Seq([name : Names, path : BOOLEAN])],
      frozen : SUBSET Names,       \* fields known to be frozen from the start
      lateFrozen : SUBSET Names,   \* those whose Field() is in an unresolved annotation
      privates : SUBSET Names, cached : SUBSET Names, classVars : SUBSET Names,
      default : [Names -> Values],
      extra : {"ignore", "forbid", "allow"},    \* model_config
      configFrozen : BOOLEAN, validateAssignment : BOOLEAN,
      root : BOOLEAN,              \* a RootModel
      uses : SUBSET Names ]        \* the names the program uses

\* inspect_namespace() and collect_model_fields() give a name with an underscore
\* to a private attribute and any other to a field.  Not covered: a field that
\* shadows a cached property of a parent, of which pydantic warns.
ASSUME ModelsAssumption ==
    /\ Models \subseteq Model
    /\ \A m \in Models :
          /\ m.privates \subseteq Underscored
          /\ Range(m.fields) \cap (Underscored \cup m.cached) = {}
          /\ m.lateFrozen \subseteq Range(m.fields)

Object == UNION {[S -> Values] : S \in SUBSET Names}
Empty == << >>

VARIABLES
    model,       \* the class: a member of Models, see Model below
    attributes,  \* the names bound to a plain object in the class namespace
    resolved,    \* every annotation was evaluated, all of each FieldInfo is known
    handlers,    \* __pydantic_setattr_handlers__
    made,        \* the instances that exist
    dict,        \* __dict__
    extra,       \* __pydantic_extra__
    fieldsSet,   \* the sets the program holds, by the instance each was made for
    setOf,       \* which of them is __pydantic_fields_set__
    private,     \* the private dictionaries, by the instance each was made for
    privateOf,   \* which of them is __pydantic_private__
    borrowed     \* history: the set was given by the caller of model_construct(),
                 \* or copied from such a one

class == <<model, attributes, resolved>>
objects == <<made, dict, extra, fieldsSet, setOf, private, privateOf, borrowed>>
vars == <<class, handlers, objects>>

Fields == Range(model.fields)

Put(f, n, v) == [m \in DOMAIN f \cup {n} |-> IF m = n THEN v ELSE f[m]]
Update(f, g) == [n \in DOMAIN f \cup DOMAIN g |-> IF n \in DOMAIN g THEN g[n] ELSE f[n]]
Without(f, S) == [n \in DOMAIN f \ S |-> f[n]]
Only(f, S) == [n \in DOMAIN f \cap S |-> f[n]]

Inputs(S) == UNION {[T -> Values] : T \in SUBSET S}

NoHandler == "none"

\* The handlers that are remembered; the others write the attribute on the spot.
Memoized == {"private", "cached_property", "validate_assignment", "extra_known",
             "model_field"}

TypeOK ==
    /\ resolved \in BOOLEAN /\ attributes \subseteq Names /\ made \subseteq Instances
    /\ handlers \in [Names -> Memoized \cup {NoHandler}]
    /\ dict \in [Instances -> Object] /\ extra \in [Instances -> Object]
    /\ fieldsSet \in [Instances -> SUBSET Names] /\ setOf \in [Instances -> Instances]
    /\ private \in [Instances -> Object] /\ privateOf \in [Instances -> Instances]
    /\ borrowed \in [Instances -> BOOLEAN]

-----------------------------------------------------------------------------
(* Reading and comparing.                                                  *)

Private(i) == private[privateOf[i]]
FieldsSet(i) == fieldsSet[setOf[i]]

\* m.n: the instance dictionary, the class, then BaseModel.__getattr__().  A
\* cached property that is not cached is computed, see ReadCached.
GetAttr(i, n) ==
    CASE n \in DOMAIN dict[i] -> dict[i][n]
      [] n \notin DOMAIN dict[i] /\ n \in attributes \cup model.classVars -> ClassValue
      [] n \notin DOMAIN dict[i] /\ n \notin attributes \cup model.classVars ->
            LET place == IF n \in model.privates THEN Private(i) ELSE extra[i]
            IN  IF n \in DOMAIN place THEN place[n] ELSE NoValue

\* Mutant: the early return when no key has to be ignored is taken whatever
\* the keys are.
PyEq_NoFallback(i, j) ==
    /\ Private(i) = Private(j) /\ extra[i] = extra[j] /\ dict[i] = dict[j]

\* BaseModel.__eq__() of two instances of the class.
PyEq(i, j) ==
    /\ Private(i) = Private(j)
    /\ extra[i] = extra[j]
    /\ \/ dict[i] = dict[j]
       \/ /\ ~(DOMAIN dict[i] \subseteq Fields /\ DOMAIN dict[j] \subseteq Fields)
          /\ Only(dict[i], Fields) = Only(dict[j], Fields)

\* The hash of an instance of a frozen class: of the values of its fields.
Hash(i) == [f \in Fields |-> IF f \in DOMAIN dict[i] THEN dict[i][f] ELSE NoValue]

-----------------------------------------------------------------------------
(* Assigning and deleting.                                                 *)

\* _check_frozen() raises.  A field whose Field() was not evaluated is not
\* known to be frozen.
Frozen(n) ==
    \/ model.configFrozen
    \/ n \in model.frozen
    \/ resolved /\ n \in model.lateFrozen

\* Mutant: whatever is not a field goes to __pydantic_extra__.
SetattrHandler_IgnoresAttributes(n) ==
    CASE n \in Underscored -> IF n \in model.privates THEN "private" ELSE "direct"
      [] n \in model.cached -> "cached_property"
      [] n \notin Underscored \cup model.cached ->
            IF n \in model.classVars \/ Frozen(n) THEN "error"
            ELSE IF model.validateAssignment THEN "validate_assignment"
            ELSE IF n \in Fields THEN "model_field"
            ELSE IF model.extra = "allow" THEN "extra" ELSE "error"

\* _setattr_handler().
SetattrHandler(n) ==
    IF n \in model.classVars THEN "error"
    ELSE IF n \in Underscored THEN IF n \in model.privates THEN "private" ELSE "direct"
    ELSE IF n \in model.cached THEN "cached_property"
    ELSE IF Frozen(n) THEN "error"
    ELSE IF model.validateAssignment THEN "validate_assignment"
    ELSE IF n \in Fields THEN "model_field"
    ELSE IF model.extra # "allow" THEN "error"
    ELSE IF n \in attributes THEN "extra_known"
    ELSE "extra"

AddToSet(i, S) == fieldsSet' = [fieldsSet EXCEPT ![setOf[i]] = @ \cup S]

SetInDict(i, n, v) ==
    /\ dict' = [dict EXCEPT ![i] = Put(@, n, v)]
    /\ UNCHANGED <<extra, private>>

SetInExtra(i, n, v) ==
    /\ extra' = [extra EXCEPT ![i] = Put(@, n, v)]
    /\ UNCHANGED <<dict, private>>

SetInPrivate(i, n, v) ==
    /\ private' = [private EXCEPT ![privateOf[i]] = Put(@, n, v)]
    /\ UNCHANGED <<dict, extra>>

\* SchemaValidator.validate_assignment(): it knows the fields once the class is
\* resolved, and a class that is not has a mock in its place.
ValidateAssignment(i, n, v) ==
    /\ resolved /\ ~Frozen(n)
    /\ \/ n \in Fields /\ SetInDict(i, n, v)
       \/ n \notin Fields /\ model.extra = "allow" /\ SetInExtra(i, n, v)
    /\ AddToSet(i, {n})

\* The simple handlers, and the assignments _setattr_handler() makes itself.
Handle(h, i, n, v) ==
    \/ h = "model_field" /\ SetInDict(i, n, v) /\ AddToSet(i, {n})
    \/ h = "validate_assignment" /\ ValidateAssignment(i, n, v)
    \/ h \in {"cached_property", "extra_known", "direct"}
         /\ SetInDict(i, n, v) /\ UNCHANGED fieldsSet
    \/ h = "extra" /\ SetInExtra(i, n, v) /\ UNCHANGED fieldsSet
    \/ h = "private" /\ SetInPrivate(i, n, v) /\ UNCHANGED fieldsSet

\* Mutant: the decision to put a name into __pydantic_extra__ is remembered.
Remember_Everything(h, n) == handlers' = [handlers EXCEPT ![n] = h]

Remember(h, n) ==
    handlers' = IF h \in Memoized THEN [handlers EXCEPT ![n] = h] ELSE handlers

\* BaseModel.__setattr__()
SetAttr(i, n, v) ==
    /\ i \in made
    /\ LET h == IF handlers[n] # NoHandler THEN handlers[n] ELSE SetattrHandler(n)
       IN  Handle(h, i, n, v) /\ Remember(h, n)
    /\ UNCHANGED <<class, made, setOf, privateOf, borrowed>>

\* BaseModel.__delattr__().  The name stays in __pydantic_fields_set__.
DelAttr(i, n) ==
    /\ i \in made
    /\ \/ /\ n \in model.privates /\ n \in DOMAIN Private(i)
          /\ private' = [private EXCEPT ![privateOf[i]] = Without(@, {n})]
          /\ UNCHANGED <<dict, extra>>
       \/ /\ n \notin model.privates
          /\ n \in model.cached \/ ~Frozen(n)
          /\ \/ /\ n \in Fields \cup model.cached \/ n \notin DOMAIN extra[i]
                /\ n \in DOMAIN dict[i]
                /\ dict' = [dict EXCEPT ![i] = Without(@, {n})]
                /\ UNCHANGED extra
             \/ /\ n \notin Fields \cup model.cached /\ n \in DOMAIN extra[i]
                /\ extra' = [extra EXCEPT ![i] = Without(@, {n})]
                /\ UNCHANGED dict
          /\ UNCHANGED private
    /\ UNCHANGED <<class, handlers, made, fieldsSet, setOf, privateOf, borrowed>>

\* Reading a cached property stores what the user's function returned.
ReadCached(i, n, v) ==
    /\ i \in made /\ n \in model.cached /\ n \notin DOMAIN dict[i]
    /\ SetInDict(i, n, v)
    /\ UNCHANGED <<class, handlers, made, fieldsSet, setOf, privateOf, borrowed>>

-----------------------------------------------------------------------------
(* Making instances.                                                       *)

\* init_private_attributes()
PrivateDefaults == [n \in model.privates \ model.required |-> model.default[n]]

Defaults(S) == [n \in S \ model.required |-> model.default[n]]

\* A new instance with a private dictionary of its own.
Make(i, d, x, p) ==
    /\ made' = made \cup {i}
    /\ dict' = [dict EXCEPT ![i] = d]
    /\ extra' = [extra EXCEPT ![i] = x]
    /\ private' = [private EXCEPT ![i] = p]
    /\ privateOf' = [privateOf EXCEPT ![i] = i]

\* Its own set of the names in S.
OwnSet(i, S, b) ==
    /\ fieldsSet' = [fieldsSet EXCEPT ![i] = S]
    /\ setOf' = [setOf EXCEPT ![i] = i]
    /\ borrowed' = [borrowed EXCEPT ![i] = b]

\* __init__() with valid data, keyed by field name.  What is not a field
\* becomes extra, is dropped, or is refused.
ModelInit(i, data) ==
    /\ i \notin made /\ resolved
    /\ model.required \cap Fields \subseteq DOMAIN data
    /\ model.extra = "forbid" => DOMAIN data \subseteq Fields
    /\ Make(i, Update(Defaults(Fields), Only(data, Fields)),
            IF model.extra = "allow" THEN Without(data, Fields) ELSE Empty,
            PrivateDefaults)
    /\ OwnSet(i, DOMAIN data \cap Fields, FALSE)
    /\ UNCHANGED <<class, handlers>>

\* One turn of the loop of model_construct(): field f takes what is under the
\* first of its keys that is there.
TakeField(before, f) ==
    LET keys == model.keys[f]
        hits == {j \in 1 .. Len(keys) : keys[j].name \in DOMAIN before.left}
        key == keys[CHOOSE j \in hits : \A l \in hits : j <= l]
    IN  IF hits = {} THEN before
        ELSE [got |-> Put(before.got, f, before.left[key.name]),
              left |-> IF key.path THEN before.left ELSE Without(before.left, {key.name})]

\* The loop: what the fields took, and what they left.
Taken(data) ==
    LET take[k \in 0 .. Len(model.fields)] ==
            IF k = 0 THEN [got |-> Empty, left |-> data]
            ELSE TakeField(take[k - 1], model.fields[k])
    IN  take[Len(model.fields)]

\* model_construct(_fields_set, **data); `lender` is the instance whose
\* model_fields_set is passed, i itself when none is.
ModelConstruct(i, data, lender) ==
    /\ i \notin made /\ lender \in made \cup {i}
    /\ model.root => DOMAIN data = Fields
    /\ LET taken == Taken(data) IN
       /\ Make(i, Update(Defaults(Fields), taken.got),
               IF model.extra = "allow" THEN taken.left ELSE Empty,
               Update(PrivateDefaults, Only(taken.left, model.privates)))
       /\ \/ lender = i /\ OwnSet(i, DOMAIN taken.got, FALSE)
          \/ /\ lender # i
             /\ setOf' = [setOf EXCEPT ![i] = setOf[lender]]
             /\ borrowed' = [borrowed EXCEPT ![i] = TRUE]
             /\ UNCHANGED fieldsSet
    /\ UNCHANGED <<class, handlers>>

\* Mutant: the copy keeps the set of the original.
CopySet_Shared(i, j, update) ==
    /\ setOf' = [setOf EXCEPT ![j] = setOf[i]]
    /\ borrowed' = [borrowed EXCEPT ![j] = borrowed[i]]
    /\ AddToSet(i, DOMAIN update)

\* Mutant: what update= gives does not count as set.
CopySet_WithoutUpdate(i, j, update) == OwnSet(j, FieldsSet(i), borrowed[i])

CopySet(i, j, update) == OwnSet(j, FieldsSet(i) \cup DOMAIN update, borrowed[i])

\* The private dictionary of a copy.  A RootModel keeps it in __dict__, which a
\* shallow copy copies one level deep.
CopyPrivate(i, j, deep) ==
    \/ /\ model.root /\ ~deep
       /\ privateOf' = [privateOf EXCEPT ![j] = privateOf[i]]
       /\ UNCHANGED private
    \/ /\ ~(model.root /\ ~deep)
       /\ privateOf' = [privateOf EXCEPT ![j] = j]
       /\ private' = [private EXCEPT ![j] = Private(i)]

\* model_copy(): __copy__() or __deepcopy__(), then `update`.
ModelCopy(i, j, deep, update) ==
    /\ i \in made /\ j \notin made
    /\ made' = made \cup {j}
    /\ LET inDict == IF model.extra = "allow" THEN Only(update, Fields) ELSE update
           inExtra == IF model.extra = "allow" THEN Without(update, Fields) ELSE Empty
       IN  /\ dict' = [dict EXCEPT ![j] = Update(dict[i], inDict)]
           /\ extra' = [extra EXCEPT ![j] = Update(extra[i], inExtra)]
    /\ CopyPrivate(i, j, deep)
    /\ CopySet(i, j, update)
    /\ UNCHANGED <<class, handlers>>

\* __getstate__(), the pickle, __setstate__()
Unpickle(i, j) == ModelCopy(i, j, TRUE, Empty)

-----------------------------------------------------------------------------
(* The class.                                                              *)

\* model_rebuild() with every name defined.  The handlers stay.
Rebuild ==
    /\ ~resolved
    /\ resolved' = TRUE
    /\ UNCHANGED <<model, attributes, handlers, objects>>

\* Model.n = <a plain object>
SetClassAttribute(n) ==
    /\ n \notin Fields \cup Underscored \cup attributes
    /\ attributes' = attributes \cup {n}
    /\ UNCHANGED <<model, resolved, handlers, objects>>

Init ==
    /\ model \in Models
    /\ attributes = {}
    /\ resolved \in (IF model.lateFrozen = {} THEN {TRUE} ELSE {FALSE})
    /\ handlers = [n \in Names |-> NoHandler]
    /\ made = {}
    /\ dict = [i \in Instances |-> Empty] /\ extra = dict /\ private = dict
    /\ fieldsSet = [i \in Instances |-> {}]
    /\ setOf = [i \in Instances |-> i] /\ privateOf = setOf
    /\ borrowed = [i \in Instances |-> FALSE]

\* The program passes at most one entry as `update`.
Updates == {Empty} \cup {Put(Empty, n, v) : n \in model.uses, v \in Values}

Next ==
    \/ \E i \in Instances :
        \/ \E data \in Inputs(model.uses) :
            \/ ModelInit(i, data)
            \/ \E lender \in Instances : ModelConstruct(i, data, lender)
        \/ \E j \in Instances, deep \in BOOLEAN, update \in Updates :
              ModelCopy(i, j, deep, update)
        \/ \E j \in Instances : Unpickle(i, j)
        \/ \E n \in model.uses :
            \/ \E v \in Values : SetAttr(i, n, v) \/ ReadCached(i, n, v)
            \/ DelAttr(i, n)
    \/ Rebuild
    \/ \E n \in model.uses : SetClassAttribute(n)

Spec == Init /\ [][Next]_vars

-----------------------------------------------------------------------------
(* Properties.                                                             *)

\* What the program can see of an instance.
Seen(i) == <<dict[i], extra[i], Private(i), FieldsSet(i)>>

\* Whatever is done to one instance leaves the others as they were.  Two
\* instances change together only when model_construct() was handed the set of
\* one of them, or when both are RootModels that share a private dictionary.
InstancesIndependent ==
    [][\A i, j \in made :
        i # j /\ Seen(i)' # Seen(i) /\ Seen(j)' # Seen(j) =>
            \/ borrowed[i] \/ borrowed[j]
            \/ model.root /\ privateOf[i] = privateOf[j]]_vars

\* The places that hide an assigned attribute from a read: an entry of __dict__
\* that model_copy(update=) made under the name of a private attribute, and an
\* attribute of the class whose name validate_assignment puts into extra.
Shadowed(i, n) ==
    \/ n \in model.privates /\ n \in DOMAIN dict[i]
    \/ model.validateAssignment /\ n \in attributes

\* An attribute reads as what was last assigned to it, and an assignment
\* changes no other attribute of that instance.
AssignmentReadsBack ==
    [][\A i \in made, n \in model.uses, v \in Values :
        SetAttr(i, n, v) /\ ~Shadowed(i, n) =>
            /\ GetAttr(i, n)' = v
            /\ \A m \in model.uses \ {n} : GetAttr(i, m)' = GetAttr(i, m)]_vars

\* A remembered handler is the one _setattr_handler() would choose now.  Only a
\* field that turned out to be frozen after its first assignment differs.
HandlersUpToDate ==
    \A n \in Names : handlers[n] # NoHandler =>
        \/ handlers[n] = SetattrHandler(n)
        \/ n \in model.lateFrozen /\ resolved

\* A field that is not in model_fields_set holds its default, so exclude_unset
\* drops nothing a program stored; an instance that was given somebody else's
\* set is not covered.
UnsetFieldsHoldDefaults ==
    \A i \in made : ~borrowed[i] =>
        \A f \in (DOMAIN dict[i] \cap Fields) \ FieldsSet(i) :
            f \notin model.required /\ dict[i][f] = model.default[f]

\* __eq__() compares the fields, the extra and the private values, and nothing
\* else an instance holds; equal instances of a frozen class have equal hashes.
EqualityIsOfTheModel ==
    \A i, j \in made :
        /\ PyEq(i, j) <=> /\ Hash(i) = Hash(j)
                          /\ extra[i] = extra[j] /\ Private(i) = Private(j)
        /\ PyEq(i, j) <=> PyEq(j, i)

=============================================================================
