# A TLA+ model of pydantic

This directory is a verification project for the Python package in `src/pydantic`. It models the
parts of pydantic that keep state from one call to the next, checks them with TLC on small
instances, and proves the results that matter most with TLAPS for all instances.

Validation itself happens in `pydantic-core`, a Rust library that is not in the repository. What is
left in Python is a machine with a lot of state on classes: model classes are half built when they
are created, repaired when names become known, reused inside each other's schemas, parametrized
and cached, from several threads and with failures at every step. That machine is the subject here.

## 1. Inventory

| Component | State | Operations | Interacts with | Hard behaviour | Correct when |
|---|---|---|---|---|---|
| Model class build (`main.py`, `_model_construction.py`, `_mock_val_ser.py`) | `__pydantic_complete__`, core schema, validator, serializer of each class; completeness of each field | class statement, `model_rebuild`, use of a mock, `model_json_schema` | schema generation reads other classes' core schemas and fields; namespaces of the caller | partial failure, retries, fallback to the parent's attributes, reuse of nested schemas | the attributes agree, mocks end, stored schemas are closed, classes heal when used |
| The same, under threads | per-thread progress through `model_rebuild` | the single attribute assignments | other threads in the same class | check-then-delete, completion of one thread seen or undone by another | a class reported complete can be used |
| Type adapter (`type_adapter.py`) | `core_schema`, `validator`, `serializer`, `pydantic_complete` of an instance | constructor, `rebuild`, use of a mock | borrows the attributes of a model class, or builds its own | forced rebuild that fails after a success | `pydantic_complete` tells the truth, mocks end |
| Generic parametrization (`_generics.py`, `main.py.__class_getitem__`) | the weak cache of parametrized classes, the recursion guard | `Model[args]` | creates classes, which generate schemas, which parametrize | re-entrance, garbage collection, two keys per class, context variables | one class per parametrization, the guard is empty at the end |
| Model instances (`main.py`) | `__dict__`, fields set, extra, private; memoized `__setattr__` handlers of the class | construct, set, delete, copy, pickle, compare | handlers are shared by all instances of a class | memoized decisions, failing assignments, frozen fields | instances of a class behave alike, fields set is a subset of what exists |
| Schema definitions (`_generate_schema.py`, `_schema_gather.py`) | definitions being built, recursion set, reference counts | get-or-reference, create reference, finalize | every schema of a class | recursion, inlining of a definition used once, alias chains | no dangling reference, recursive definitions are kept, metadata survives |
| Stacks of the generator (`_generate_schema.py`, `_namespace_utils.py`, `_config.py`) | stacks of types, fields, configs | push, pop | schema generation | exceptions between push and pop | what is pushed is popped |
| Discriminated unions (`_discriminated_union.py`) | the choices inferred so far, the work list | apply | definitions | nesting, nullable, references | every tag leads to one choice, and to the one that reads it |
| Dataclasses (`dataclasses.py`, `_dataclasses.py`) | as for model classes, plus `__init__` | decorator, `rebuild_dataclass` | schema generation | as for model classes; the original `__init__` on a rebuild | as for model classes |
| Validated calls (`_validate_call.py`) | the deferred validator of a wrapper | first call | schema generation | failing first call | built once, retried when it failed |
| Decorators (`_decorators.py`) | decorator tables per class | build along the MRO | model and dataclass build | overriding along the MRO, positions | the closest definition wins, a field has one serializer |
| Field infos (`fields.py`, `_fields.py`) | the `FieldInfo`s of each class | merge, complete from the configuration, inherit, rebuild | model class build | annotations that are evaluated late, generators of subclasses | a late field is the one it would have been at once |
| Field schemas (`_generate_schema.py`, `_known_annotated_metadata.py`, `functional_validators.py`) | none | apply annotations, validators and the default around the schema of a type | field infos give the annotations, decorators the validators | what one annotation does depends on those before it | constraints and validators run in the order the documentation gives |
| JSON schema (`json_schema.py`) | references, definitions, name choices | generate | finished core schemas | collisions of names, recursion | references resolve, names are unique and stable |
| Plugins (`plugin/`) | loaded plugins, the loading flag; handlers of a call | load, validate | every validator that is built | re-entrance, threads, a failing entry point | all plugins or a visible error |
| Types and networks (`types.py`, `networks.py`, `color.py`) | none | pure functions | core schemas | parsing, checksums | round trips |
| `v1/`, `deprecated/`, `mypy.py`, `experimental/`, `_migration.py` | legacy or tooling | | | | not in scope |

The arrows between the modelled parts:

```
LazyBuild  <--implements--  ModelBuild  <--EXTENDS--  TypeAdapterBuild
                            |           <--EXTENDS--  DataclassBuild
                            |  same handlers, one attribute access per step
                            ModelRebuildThreads
GenericParametrization      makes the classes ModelBuild builds (placeholders <-> type refs)
SchemaDefinitions           what "core schema" is made of, dict by dict
ModelInstance               the instances of a class that is built
PluginLoader <--EXTENDS--   ValidateCall      every validator that is built asks for the plugins
JsonSchemaDefinitions EXTENDS JsonSchemaReferences
MCAlgorithms EXTENDS        DiscriminatedUnion, JsonSchemaDefinitions, DefinitionNames, DecoratorTables,
                            MethodResolution, FieldInfos, FieldSchema; the four with steps of their own
                            (references, names, decorators, fields) EXTEND Algorithms
```

## 2. Plan

Done, in this order:

1. `ModelBuild`, with `LazyBuild` as its abstract specification and `ModelBuildProofs`.
2. `TypeAdapterBuild`: the same life for an adapter that borrows from a class.
3. `ModelRebuildThreads` and `ModelRebuildThreadsProofs`: the same handlers, one attribute access per
   step.
4. `GenericParametrization`: the cache, its two keys and the recursion guard.
5. `SchemaDefinitions`: definitions, gathering and finalizing, on shared dicts.
6. `ModelInstance`: instances, memoized `__setattr__` handlers, copies and pickles.
7. `DataclassBuild`: complete_dataclass() and rebuild_dataclass(); `PluginLoader` and `ValidateCall`:
   two lazily built pieces of module and wrapper state, with threads and re-entrance.
8. Pure algorithms, each next to a reference definition: discriminated unions, the definitions and
   names of a JSON schema, decorator tables along the MRO, field infos, the schemas of fields.

9. Proofs for every module without RECURSIVE operators: of each safety property and action property that
   the runs check about model classes, adapters, dataclasses, instances, generics, plugins and validated
   calls (section 6).
10. The algorithms whose laws need no induction over a schema, as modules of their own without RECURSIVE
    operators, with their proofs: the names of definitions, field infos, decorator tables, the references of
    a JSON schema.

Left:

11. `SchemaDefinitions` with its traversals as recursive functions or folds, so that `CircularAliasesFound`
    and `SchemaIsOfItsClass` can be proved about.

## 3. The models

Every module starts with a comment that says what its state is; the definitions keep the names of
the code, and a definition whose name ends in `_Something` below a `Mutant:` comment is a wrong
version of the one that follows it, kept to show that the properties notice it.

### ModelBuild

One action is one call: `DefineClass` is the class statement (`ModelMetaclass.__new__`), `Rebuild`
is `model_rebuild(force, raise_errors)`, `Use` is the lookup of `__pydantic_validator__` or
`__pydantic_serializer__` by any method that validates or serializes, with the mock it may find,
`JsonSchema` is `model_json_schema()`, and `Bind`/`Unbind` are names that appear in and disappear from
the namespaces a rebuild looks in. `cls[c]` has the class attributes as they are in the `__dict__` of
the class itself: `absent` means that the lookup goes on to the parent (`Nearest`). `ModelRebuild`
and `CompleteModelClass` are operators that give the states and outcomes a call may end with, in the
order of the code: reset the flag, delete what is not a `MockValSer` (`DropReal`), evaluate the
fields again, generate (`GenerationErrors`: a type that raises, a name that does not resolve in any
class that has no stored schema), clean, store the core schema, build the validator, set the flag,
call the hook. A core schema that is stored is not looked into again, which is what makes
`StoredSchemasClosed` more than a restatement.

Types other than classes stand for how their schema fails (`Kind`): not at all, in
`generate_schema()`, in `clean_schema()`, or when the validator is built.

`LazyBuild` is what a program may rely on: a class is undefined, pending, ready or spoiled;
validating with it makes it ready; only a spoiled one is served by another class. `LazySpec` maps
`Phase(c)` and the last answer to it.

### TypeAdapterBuild

EXTENDS `ModelBuild` and interleaves its calls with those of the adapters: `MakeAdapter`,
`RebuildAdapter`, `AdapterLookUp` (all methods that validate or serialize, and `json_schema`). `Borrow` is the three
assignments of `_init_core_attrs()` from the `__dict__` of the class, stopping at the first attribute
that is missing, exactly where `_getattr_no_parents()` raises AttributeError. A mock is either the
adapter's own or the one of the class: they rebuild different objects, which is
what two observations of section 5 are about.

### ModelRebuildThreads

One class, any number of threads in `Use` (a validation) or `Rebuild`. A step is one read, deletion
or assignment of a class attribute: `ReadComplete`, `ResetComplete`, `CheckAttr` (the `isinstance`
test), `DeleteAttr`, `BuildFields`, `RecheckFields` (the flag of the fields, which another thread may have
completed since), `Generate`, `MockAttr`, `SetAttr`, `Finish`, `Reread` (the handler of the mock).
These are the points between which CPython may switch threads. What is missing is an
annotation of the class itself, which `BuildFields` finds, one of a nested class, which `Generate`
finds, or nothing; it may be resolved at any time.

### GenericParametrization

`Ask` is `Model[arg]` written in the program, `AskNested` the same from `replace_types()`
while a class is made, `Create` and `Fail` the two ends of the creation, `Collect` the garbage
collector. `stack` are the calls in progress; a nested model is answered from the cache (`EarlyKey`,
then `LateKey`), with a placeholder if the guard has its type ref, or by a further call. Arguments
are plain types, unions in order, written `Union[int, str]` or `int | str` (`pipe`), and lists of unions; equal arguments may be different objects
because type refs contain `id()`. `KeepsAlive` says which references hold a class; the cache is weak.

Three of its properties are as they are because their proofs asked for it. A class with a placeholder need
not contain the class that is awaited: with three models that contain one another, a
class made again after a call that failed can get one from the cache that still waits for a lost one. What holds is that an awaited class which is self-contained contains it
(`SelfContained`, `AwaitedClassContainsIt`). `AnswersTheQuestion` leaves the order of a union in a list
open, as the docstring of `_union_orderings_key()` does (`_generics.py:504-505`), and that of a union written
with `|`, which the docstring does not (section 5). `OneClassPerParametrization` is about all classes that exist, and not only those
the program holds.

### SchemaDefinitions

`heap` is the dicts of core schemas; an id stored in two places is a shared dict. One action,
`Build`, is the part of `complete_model_class()` from `generate_schema()` to the stored core schema: `GenerateModel`,
`GenerateAlias`, `Reuse` (the stored schema of a nested class, whose `definitions` are unpacked and
whose inner dict is used as it is), `Mark` (a serializer set on the dict), then `Gather` and
`FinalizeSchema` with `Inlinable` and `ResolveDefinition`, each of which changes dicts in place as
the code does. A schema that contains itself is a state of the heap, not an error of the model.

### ModelInstance

The instances of one class. An instance is what it has in `__dict__` (`dict`), `__pydantic_extra__`,
`__pydantic_private__` and `__pydantic_fields_set__`; the last two are objects that two instances may
share and therefore live on a heap (`private`/`privateOf`, `fieldsSet`/`setOf`). `SetAttr` is
`__setattr__` with the handler that `SetattrHandler` chooses once and `Remember` keeps for the class;
`DelAttr`, `ModelInit`, `ModelConstruct` (with the loop over aliases in `Taken`), `ModelCopy` (shallow,
deep, with `update`), `Unpickle`, `ReadCached` are the other operations; `Rebuild` and
`SetClassAttribute` change the class under its instances. `PyEq` is `__eq__` with its fast paths. Which models
there are is a constant; `ModelsAssumption` says what `inspect_namespace()` and `collect_model_fields()` make
sure of (private names have an underscore and fields do not), and leaves out a field that shadows a
cached property of a parent.

### DataclassBuild

EXTENDS `ModelBuild` and takes from it the attributes, the lookup along the MRO and the errors of a
generation. `Decorate` is the decorator with `complete_dataclass()`, `CallRebuild` is
`rebuild_dataclass()`, `UseDataclass` finds an attribute that is real or a mock. What differs from
models is in `CollectFields` (all fields, each time), `Deleted` (mocks go too) and `signature` (which
`__init__` it was made from).

### PluginLoader and ValidateCall

`PluginLoader` is `get_plugins()` and the use `create_schema_validator()` makes of its answer, one
access to a module global or one entry point per action: `ReadFlag`, `ReadGlobal`, `SetEmpty`, `Mark`,
`Scan`, `Load` (or `Import`, when the plugin module builds a model itself and calls `get_plugins()`
again), `Reset` in the `finally` clause, `Choose`, `Iterate`. An entry point may load, fail with an
error that is caught, or crash. `ValidateCall` EXTENDS it with one wrapped function: `Decorate`, `Call`
and the steps of `_create_validators()`, each of which may be interrupted by another thread; whether
an annotation can be evaluated is given by `bound`.

### The algorithms

`Algorithms` says how an algorithm is a specification: `input` is what it is given, `answer` what it has
come to so far. `MCAlgorithms` is the module that TLC runs; it bounds the inputs and joins the steps of the
algorithms, which are in eight modules.

- `DiscriminatedUnion`: `ApplyDiscriminator` is `_ApplyInferredDiscriminator.apply()`, `InferValues` the
  values of the discriminator of a member, `ApplyOrDefer` the call of `GenerateSchema` and the second
  one at the end, when the definitions that were missing exist. The reference definition is `Accepts`:
  which values a schema accepts, before and after. A value may have the tag under the name of the
  discriminator field, under its alias, under both or not at all, and a member reads it under the
  alias if it has one (`KeyOf`) and may have a default for it.
- `JsonSchemaDefinitions`: `GenerateInner` is the traversal, which makes definitions (`PopulateDefs`) and
  raises for types without a JSON schema; `DefinitionsSchema` stores such errors and `HandleRefOverrides`
  raises them; `Generate` hands what it made over to the references (`Counting`); `GenerateAll` is
  `generate_definitions()`.
- `JsonSchemaReferences` (`ReferencesSpec`): how `generate()` ends. `CountAgain`, `CountFirst` and `Refuse` are
  `get_json_ref_counts()`, one reference after the other and depth first; `Unpack` puts a definition in the place of its
  only reference; `SkipVisited`, `Visit` and `Collect` are `_garbage_collect_definitions()`, which takes the
  references out of a Python set, that is, in any order.
- `DefinitionNames` (`NamesSpec`): what the definitions are called. `DefsRefChoices` has the six names that are
  offered, `StartNaming` is `_build_definitions_remapping()`, and `PickAgain` and `ReplaceAgain` are the two halves of an
  iteration of `_DefinitionsRemapping`: `PickNames` takes the shortest name that means the same for all,
  `ReplaceRefs` replaces the references inside the definitions, until nothing changes or `MaxIterations` is reached.
- `DecoratorTables` (`DecoratorsSpec`): `Build` is `DecoratorInfos.build()` of one class, from the tables of the
  classes in its MRO (`BoundTables`, `BindToCls`, `Merged`) and its own namespace (`WithOwn`); `ClashAt` is the error
  for a second serializer. The classes are built in any order, each after those it inherits from
  (`BuildClass`). The MRO is part of the input; `MethodResolution` computes it for TLC as `mro()` does.
- `FieldInfos` (`FieldsSpec`): `Construct`, `FromAnnotation` and `FromAnnotatedAttribute` merge, `UpdateFromConfig` applies
  the generators, `CollectField` is `collect_model_fields()` of one field and `RebuildField` is
  `rebuild_model_fields()`. In `FieldsSpec` the class statements, the definition of the name the
  annotations need and the rebuilds come in any order, next to a table (`eager`) for which the name
  was always there.
- `FieldSchema`: `CommonFieldSchema` is `GenerateSchema._common_field_schema()`; `ApplyKnownMetadata` sets a
  constraint on the schema, follows a function schema inwards for strictness, or puts a check or a chain
  around the schema. `Validate` says what the schema does to a value, with the validators of
  `pydantic-core` that this needs; `InOrder` in `MCAlgorithms` is the reference definition, which reads the
  annotations in the order the documentation gives, without any schema.

## 4. The runs

| Run | Instance | Shows |
|---|---|---|
| `build` | a parent that names its child, the child names a third, deferred class, which names the child and another type; all values of `force` and `raise_errors` | stored schemas are closed, every healthy class can be repaired, refinement of `LazyBuild`, used classes heal |
| `build_failing` | three classes, three types, one failing at each stage | the attributes agree and validators are lost only to forced rebuilds that raise, when builds fail half way |
| `adapter` | an adapter of a deferred class that names a class and a type | adapters tell the truth until their own forced rebuild fails; used adapters heal |
| `threads` | two threads with all kinds of calls, three ways to start | deleted attributes come back, the class is consistent when quiet, calls end unless the class keeps the flag of one thread and the mock of the other |
| `threads_parent_validator` (violation) | two validations of a deferred class | the parent's validator answers |
| `generics` | three models that contain one another, unions in both orders and both spellings, lists in both orders | the guard holds the calls in progress and nothing else, a self-contained class that is awaited contains the one that waits, one class per parametrization, answers fit the question, calls end |
| `definitions` | see below | stored schemas are finite, describe their classes, are closed when built; serializers survive; the error for circular aliases is raised for those and, but for one known case, no others |
| `instances` | two instances of each of seven classes, which differ in extra, private, cached, frozen, aliased and root | handlers stay right, unset fields hold their defaults, equality is of the model, instances do not change each other, an assignment reads back |
| `calls` | two threads, one wrapper (deferred or not, with and without a return value), two plugins, of which one may fail or crash, all settings | the loader settles, plugins are missed only while they load, a call finds its validators, a wrapper that is called heals |
| `dataclasses` | a dataclass that names its child, and one that names it and a type without a schema | the attributes agree, the validator is lost only to a build that raised, used dataclasses heal |
| `algorithms` | see below | the reference definitions and laws of the algorithms |
| `json_override` (violation) | the JSON schema inputs of `algorithms` | a model that overrides the mode has no JSON schema |

Bounds and why they are enough:

- Three classes are the fewest with a parent, a cycle and a class reached only through another one.
  The two instances of `ModelBuild` divide the failures: missing names in one, failing types in the
  other, so that a property that fails says which kind it depends on. Nothing is counted: the state
  space is finite without a bound. The same holds for `DataclassBuild`.
- One adapter, since adapters share nothing but the class.
- Two threads already give all the races of one test with one deletion; three threads of
  all kinds, and five that force, were explored once without a violation of the safety properties,
  and the proofs of section 6 are for any number.
- `Copies` and `Objects` of 2 in `GenericParametrization` tell a class from the one that was
  collected before it and an argument from an equal one; a third would only repeat the difference.
  Three models are the fewest in which a class can be answered from the cache with one that waits for
  another. The programs are six: a model and its part; a union and its swapped form through a partial
  class; `Union[int, str]`, `int | str` and, of the part, `str | int`; lists, given and through a class that contains `T`; lists in both orders; and a list of a union as
  part and whole.
- `definitions`: all programs of two classes with at most two fields among the first, the second and
  an alias, in which the fields carry the serializers, and a third class with both, built in every
  order, the two classes twice (rebuilt); all graphs of three classes with at most two fields;
  programs in which two classes use an alias, or an alias of it, of a class that refers to itself, each
  built twice (`MCAliased`); and one
  program of nine classes in which definitions of the same ref come from four stored schemas.
  **Precondition** (`DefinitionsAssumption`): no alias leads to a class that leads to that alias (see section 5).
- `instances`: what goes wrong between instances goes wrong between two of them, which are
  interchangeable (`SYMMETRY`, used without liveness). Each class is given the two or three names that
  make its case happen and two values, a default and another.
- `calls`: two threads, for the reason given above; two entry points, so that one can be loaded when
  the other crashes or a second thread looks.
- `algorithms`: unions of two members out of ten simple ones, of which some have a default or an alias for the
  discriminator, each wrapped, united and tagged, two levels
  deep; three definitions with every choice of fields for the JSON schemas; three definitions
  that refer to none, one or several of each other, to one twice, or to one that does not exist, for the references; three classes in both modes
  that refer to each other in every way for the names, and five classes in which shorter names become free
  one after another, one of them with its own mode; four classes in a chain, with two bases and in
  a diamond, with two names; one field of three classes in a chain; fields of eight types with up to three
  of eleven annotations, or up to two with a decorated validator, one of version 1 and a default. Names and discriminators clash
  pairwise, and a third class or member is what a pair is reached through. Names are compared by following
  five references (`Depth`), the longest chain that five classes have; the simplification stops by
  itself long before the hundredth iteration (`MaxIterations`, the code's own limit).
- `CHECK_DEADLOCK FALSE` is used for `SchemaDefinitions`, where a program ends when all its classes
  are built as often as it says, for `ModelInstance`, where nothing may be left to do once all
  instances exist and are frozen, and for `MCAlgorithms`, where an algorithm returns.

Fairness:

- `ModelBuild`, `TypeAdapterBuild`, `DataclassBuild`: weak fairness of `Use` (of each class, of each
  adapter, of each dataclass), which says that the program goes on validating. Nothing is assumed of
  rebuilds or of names; that names stay bound is the premise of the properties that say that classes,
  adapters and dataclasses heal.
- `ModelRebuildThreads`: weak fairness of each thread's `Advance`: the interpreter runs every thread
  that can run, and no thread of the model ever waits.
- `GenericParametrization`: weak fairness of the step of the call in progress: a call goes on. Asking
  and collecting are never forced.
- `ValidateCall`: weak fairness of the step of each thread, as for `ModelRebuildThreads`, and of
  `Call`: the program keeps calling the wrapper. Nothing is assumed of decorating and of names.

## 5. Findings

Each is shown by a run that violates one property; PROJECT.json quotes the lines.

- `threads_parent_validator`: the parent's validator is still used under threads, against the comment
  in `model_rebuild()`.
- `json_override`: `json_schema_mode_override` is said to decide the mode whatever the caller asked for
  (`config.py:840`). Definitions are generated first, outside of any model and so in the mode of the
  call (`json_schema.py:2010-2017`); the model with the override then refers to them in its own mode,
  in which nobody generated them, and `get_json_ref_counts()` raises `KeyError`.

Violations that TLC found and that no run repeats; they delimit the properties named with them.

- *Threads.* A build that fails in one thread may set its mocks after one that succeeded in another has
  set the validator, and the other then sets the flag: the class is complete with a mock, and using it
  recurses up to the interpreter's limit. `CallsEnd` has this as its one exception, and TLC refutes it
  without.
- *Type adapters.* A forced rebuild that fails leaves `pydantic_complete` True next to mocks, and using
  such a mock recurses without end (`TruthLostOnlyToFailedForce` says that nothing else does this).
  `TypeAdapter.json_schema()` fails its own "this is a bug!" assertion when the adapter kept the mock
  core schema of its class; `model_json_schema()` has the same assertion (`json_schema.py:2465`).
- *Models.* `model_rebuild()` keeps mocks by `isinstance(attr, MockValSer)` (`main.py:626`);
  `MockCoreSchema` is not one, so the mock core schema is deleted (`DropReal`).
- *Generics.* The inner class of two mutually recursive generic models stays unusable when the outer
  one was asked for first. A placeholder names an argument by `id()` and is not valid for an equal
  argument. `_union_orderings_key()` looks at `typing.get_origin()`, which for `int | str` is `types.UnionType` and
  no union for it (`_generics.py:519`, before Python 3.14): `Model[int | str]` and `Model[str | int]` are one
  class, the one asked for first, against the docstring ("you _can_ distinguish between (top-level)
  `Union[int, float]` vs. `Union[float, int]`", `_generics.py:508`). The late key has the order of a union given
  as the argument but not of one in a list, so a union in a list may have two classes, and a question for a list may be answered with the class for
  the other order; `OneClassPerParametrization` and `AnswersTheQuestion` have the exception.
- *Definitions.* A class with an alias of itself gets a core schema that contains itself, hence the
  precondition of `definitions`. The inner dict of a stored `definitions` schema is handed out as it
  is (`_generate_schema.py:747`): `Annotated[A, PlainSerializer(f)]` in a class B sets `f` on it
  (`functional_serializers.py:79`), and a class C with a plain field of type A then serializes with
  `f`; the comment at `_generate_schema.py:924-925` has the suspicion. `SerializersKept` therefore
  says that a serializer is never lost, and nothing says that none appears. The same dict gets the
  `ref` of a type alias of a recursive class at the first use of the alias, and the second class
  that uses it ends with a circular reference error that is not true: `CircularAliasesFound` has this
  as its one exception (`UsedBefore`), and TLC refutes the property without it. In the program of nine classes
  a reference in the stored schema of one class is replaced in place while another one is built, by
  a definition whose own references the first class does not have; `BuiltIsClosed` is for that reason
  about the class just built and no other.
- *Instances.* A field whose `Field(frozen=True)` is in an annotation that is resolved late stays
  assignable if it was assigned before: the handler was memoized (`HandlersUpToDate` has the
  exception). Shallow copies of a `RootModel` share the private dictionary. `model_copy(update=)` can
  put a private name into `__dict__`, which hides the private attribute (`Shadowed`).
- *Dataclasses.* After a rebuild the signature is made from the `__init__` that pydantic put in place,
  without the parameters of the dataclass (`Resigned`). A rebuild that raises leaves a dataclass
  without the mocks it had.
- *Discriminators.* A tagged union accepts less than its members do: a value without a tag is refused
  although a member has a default for it (`tests/test_discriminated_union.py:592`), and a value with the alias is
  refused if it also has something else under the name of the field, where the tagged union looks
  first. `TaggedUnionAcceptsWhatIsTagged` is about the values that are left. A union skips a choice without discriminator values if it is given inline, and
  fails if it is given by reference. Two choices with one `Tag` under a callable discriminator
  silently overwrite each other (read, not modelled).
- *JSON schema.* Two definitions under one name are not always the same text: among five classes, of which one has
  its own mode, a shorter name becomes free only after a longer one was printed for the same definition, so
  that one reference says `X-Input` and the other `m__X`; both lead to the same schema. That is what the
  comment promises ("equivalent"), and `NamesAreUnambiguous` compares what is read (`ReadsAs`) and not the text. Names are not always as simple as the comment at `json_schema.py:150-153` promises:
  with three nested levels in both modes some stay `X-Input` and `X-Output`. `generate_definitions()`
  never raises what `_core_defs_invalid_for_json_schema` has stored, so that `models_json_schema()` may
  return dangling references to types without a JSON schema (`OnlyNeededTypesFail` does not ask it of that call, where an invalid type is concerned). The loop of `generate()` that "may need to unpack multiple levels"
  (`json_schema.py:403`) runs once: `ref = None` ends it after the first level (`Unpacked`).
- *Decorators.* In a diamond D(B, C) in which C overrides a validator of A and B does not, the table of
  D has the function of C with what the decorator said on A: the last base wins, not the MRO.
  `DecoratorsFollowOverriding` has the right function in every case, and what the decorator said only for a class
  whose MRO puts no stranger between a class and its bases (`Connected`). Two bases can give one field two
  serializers unnoticed; `OneSerializerPerField` is about classes with one base each (`Linear`).
- *Fields.* A field that is inherited before its annotation could be evaluated gets the title
  generator of the subclass, and one that was evaluated keeps that of the parent;
  `FieldsDoNotDependOnTime` compares titles and aliases only where the configuration did not change.
- *Field schemas.* Of a constraint written twice at the type the last one counts
  (`Annotated[int, Gt(5), Gt(3)]` accepts 4), after a function both do. A constraint at an optional type
  lets None pass; after a function, or at a type alias of an optional type, it meets None and raises a
  TypeError. `Strict` after a function around an optional type, an alias or a chain is a RuntimeError.
  `InOrder` says all of this, so that `ValidatorsRunInOrder` has no exceptions but the last.

## 6. What is proved

For all values of the constants that satisfy the assumptions of the modules, by TLAPS:

| Module | Theorem | States |
|---|---|---|
| `ModelBuildProofs` | `TypeCorrect` | `TypeOK` |
| | `AttributesBuiltTogether` | `BuiltTogether`: complete, validator, serializer, core schema, fields and hook agree |
| | `MocksEnd` | `MockRebuildEnds` |
| | `CompletenessKept` | `CompletenessLostOnlyToFailedForce` |
| | `ValidatorKept` | `ValidatorLostOnlyToRaisingForce` |
| | `SchemasClosed` | `StoredSchemasClosed`: what a stored schema reaches is defined and can be generated |
| | `Repairable` | `AlwaysRepairable` |
| | `ImplementsLazyBuild` | `LazySpec`, the refinement |
| `DataclassAndAdapterProofs` | `AdapterInvHolds`, `AdapterTypeCorrect` | the inductive invariant, `AdapterTypeOK` |
| | `AdaptersKeepClassesTogether` | `BuiltTogether`, with adapters and classes interleaved |
| | `AdapterTruthKept` | `TruthLostOnlyToFailedForce` |
| | `DataclassesBuiltTogether` | `DataclassTogether` |
| | `DataclassValidatorKept` | `LostOnlyToRaisingBuild` |
| `ModelRebuildThreadsProofs` | `ThreadsTypeCorrect` | `TypeOK` |
| | `DeletedAttributesAreOwed` | `DeletedAttributeIsOwed` |
| | `QuietClassesAreTogether` | `QuietClassIsTogether` |
| `GenericParametrizationProofs` | `GenericInvHolds`, `TypeCorrect` | the inductive invariant, `TypeOK` |
| | `OneClassEach` | `OneClassPerParametrization` |
| | `AwaitedIsWhole` | `AwaitedClassContainsIt`, `GuardIsStack` with it |
| | `QuestionsAnswered` | `AnswersTheQuestion` |
| `ModelInstanceProofs` | `TypeCorrect` | `TypeOK` |
| | `HandlersStayRight` | `HandlersUpToDate` |
| | `UnsetFieldsAreDefaults` | `UnsetFieldsHoldDefaults` |
| | `EqualityOfTheModel` | `EqualityIsOfTheModel` |
| | `InstancesStayIndependent` | `InstancesIndependent` |
| | `AssignmentsReadBack` | `AssignmentReadsBack` |
| `ValidateCallProofs` | `TypeCorrect` | `TypeOK` of the wrapper and `LoaderTypeOK` of the loader |
| | `LoadingSettles` | `LoaderSettles` |
| | `PluginsFoundWhenAlone` | `PluginsMissedOnlyWhileLoading` |
| | `ValidatorsFound` | `CallsFindValidators` |
| `AlgorithmProofs` | `NamesInvHolds` | the inductive invariant of the names |
| | `NamesReadUnambiguously` | `NamesAreUnambiguous` |
| | `FieldsInvHolds` | the inductive invariant of the fields |
| | `FieldsAreTimeless` | `FieldsDoNotDependOnTime` |
| | `DecoratorsInvHolds` | the inductive invariant of the decorators |
| | `DecoratorsFollow` | `DecoratorsFollowOverriding` |
| | `SerializersAreOne` | `OneSerializerPerField` |
| | `ReferencesInvHolds` | the inductive invariant of the references |
| | `ReferencesAreClosed` | `JsonSchemaIsClosed` |

`InductionLemmas` holds what several of them rest on. The library's induction theorems take an operator
as a parameter, which the installed provers cannot instantiate; over the natural numbers this is no
loss, because the property can be given as a set: a set of numbers that is not empty has a least element
(`LeastNumber`, from the well-foundedness of `<`), so one that has 0 and all successors has all
(`InductionOnNat`). `SolutionExists` gives a function with its recursive equation, and the two together say
what a set that grows in finitely many steps ends with, or a fold over a sequence. This is how reachability
(`Reach` in `ModelBuild`, `From` in `GenericParametrization`) is shown to be the least closed set, and how
the dictionaries of `DecoratorTables` and the depth of `ReadsAs` are followed.

Assumptions on the constants. All are named, in the module that declares the constants, and evaluated
by the runs: there are finitely many classes, which are no other types, with parents among them
(`ConstantsAssumption`); entry points are a sequence (`PluginAssumption`); model classes are as their
collection makes them (`ModelsAssumption`, section 3); arguments are what `typing` makes of a union
(no member twice, at least one), and a type variable or a placeholder is no class
(`GenericAssumption`, `DistinctAssumption`); definitions are of classes that were met and refer to definitions
(`NamingAssumption`); a JSON schema that is a reference has that one only (`ReferencesAssumption`); the first class of a chain annotates the field, and what is assigned to it is nothing, a
value or a call of `Field()` (`FieldsAssumption`); an MRO is what every linearization gives: the class itself first, then all that its bases
inherit from, once each and in the order of their own MROs (`DecoratorsAssumption`). Classes, threads, instances, models, names, values and arguments
are otherwise arbitrary, and so is how classes refer to one another.

TLC finds every inductive invariant to hold on the instance of its run, which is how they were tried
before they were proved.

`ModelBuildProofs`. The invariant is `Inv == TypeOK /\ BuiltTogether /\ MockRebuildEnds`: that a mock
ends is only inductive together with the agreement of the attributes, for the handler of a mock
reads the validator and trusts the flag. The lemmas follow the code from the inside: what a failed and
a successful build leave (`BuildSchema`, `CompleteModelClass`), what `model_rebuild()` gives for any
class state that is `Together`, then one lemma per action. The two action properties follow from the
invariant and the lemma on `ModelRebuild`, since every action but a rebuild changes a class only
through an unforced one. `StoredSchemasClosed` is not about one class: a build does not look into the schemas
it reuses. `SchemaInv` adds `FieldsKnown`, that what a complete field names was defined when the field was
evaluated, and the proof splits what the new schema reaches into what this build walked and what is
reached through a reused schema, which the invariant covers. The refinement needs one more invariant, `UndefinedUnbuilt`: a class whose
statement has not run has no attributes; each action maps to `Create`, `Complete`, `Fail`, `Serve` or
`Idle`.

`ModelRebuildThreadsProofs`. `DeletedAttributeIsOwed` is not inductive: a thread that owes an
attribute may be about to get an AttributeError and leave (`Doomed`). The invariant `IInv` says that
an absent attribute is owed by a thread that is not doomed. It is kept because a thread is doomed
only by another one that has just deleted the same attribute, which is then further in the loop
and owes all the doomed one owed (`DeleteAttrKeeps`). For the flag, `MocksAreOld` says that without
failures mocks are those the class was created with and only ever replaced from the front, and
`FlagIsOwed` that a flag which is not set is either that of a class never built or will be set by a
thread that is not doomed.

`DataclassAndAdapterProofs` uses the lemmas about `ModelRebuild` and the lookup along the
MRO. An adapter is not consistent by itself: its flag may be wrong after a failed forced rebuild, so
`AdapterInv` only has what survives that (`AdapterFits`: the validator and the serializer are of a kind, a
real one comes with the flag, and the mock of a class is found only on an adapter of one), and the action property
is a lemma about one attempt to build. `DataclassInv` says of all classes what
`DataclassTogether` says of the defined ones: a class statement inherits attributes before it is defined.

`GenericParametrizationProofs`. What a key stands for must be said without the state in which it was
stored, for the classes it was made from may be gone: `EarlyKeyFits` and `LateKeyFits` say it by the
arguments alone. `FieldsFit` is the part that makes placeholders right: every field of a class has a type,
which is still found under its early key because the class keeps it alive, or a placeholder; and one for
another class names a model that leads to the model of this class. `StackFits` says the same of the
classes being made, where a field may also still be to do or be what the call above is asking, and that the
classes being made are not in the cache. A class for what is awaited that is self-contained is then followed
field by field along the models to the class that waits: each field has a type, unless a placeholder says
that the class is made of what it stands for. The hard steps are `Collect`, because what is freed must take
nothing with it that a class still found needs, and `Create`, whose class becomes a field of the class
below while the placeholders in it may stand for any of the classes still being made.

`ModelInstanceProofs`. `ClassInv` is about the handlers: `HandlersFit` says for what kind of name each handler
is ever remembered, and a name does not change its kind while it has a handler, except a field that
turns out to be frozen. `ObjectInv` adds to `UnsetFieldsHoldDefaults` who owns the sets and private dictionaries
(`Owned`: they are shared by a loan or between root models only) and, for classes with extra
attributes, which names `__dict__` may have (`Placed`). The two action properties follow action by action.

`ValidateCallProofs`. With any number of threads loading at the same time, what is in the dictionary in use is
owed to the thread that made it: `Covered` says that all it has passed is in, whoever took the others'
plugins; `FlagComesDown` that a raised flag has a thread that will lower it, and `Undisturbed` that a
thread nobody overlapped is answered the dictionary in use and sees it whole. For the wrapper, `Wrapped`
says which of the two validators exist at each place of `_create_validators()`.

`AlgorithmProofs`, names. That a long name is nobody else's, which the comment at `json_schema.py:2149-2151` claims,
is a lemma about the numbers of the classes (`LongNameIsItsOwn`). `NamesInv` relates each copied definition to
the one it was made of: a reference is replaced only by a name on which all definitions offering it
agree (`Simplified`, `Standing`), and they go on agreeing, because definitions that look the same are simplified
in the same way. So two definitions with one name at the end have references that read alike again
(`ReadAlike`), and induction on the depth gives the property. That the iteration ends is not needed: after
`MaxIterations` the code raises.

`AlgorithmProofs`, fields. The two tables of `FieldsSpec` cannot be compared step by step, since one has been
through other calls than the other; `FieldsInv` says of each by itself what a field is: if it is complete, what
the body of the class that annotates it says, finished by the configuration of the class where it did not change
on the way (`CompleteFits`), and if not, what is needed to become that (`WaitingFits`). The lemmas are that a configuration applied twice is applied
once (`ConfiguredAgain`), that one does not undo the other beyond titles and aliases, and that a
docstring is a description only where nobody wrote one (`AssignedDescription`).

`AlgorithmProofs`, decorators. `DecoratorsInv` says of each table that is built what its entries are (`EntriesFit`)
and which tables it continues (`Continues`). The lemmas on dictionaries say what `Put`, `Updated`, `Merged` and
`WithOwn` contain and which order they keep. An inherited entry is the one of the nearest class that
has the name; that this is as the closest class that decorated it says is `ClosestInfo`, and needs `Connected`. The order
(`OrderIsKept`) compares the merge for a class with the one its last base went through: they visit the same
tables first, bound to other classes, and binding changes no name (`SameNames`). For classes in a line the table of
the nearest base is the whole of what is inherited, so that a new serializer is compared with all there are.

`AlgorithmProofs`, references. While references are counted, all that the counted definitions refer to is counted
or still to do, and every set of keys that is closed contains both (`CountFits`): when nothing is left to do, what was
counted is the least closed set, and a reference that cannot be resolved is in all of them. A definition is unpacked if its
reference was counted once; that no definition refers to it a second time needs that such a reference would still
be to do, or be counted (the last part of `CountFits`). `CollectFits` says the same of what the collector has visited and
has still to visit, and that it stays within what was counted: its KeyError is out of reach.
What `JsonSchemaDefinitions` makes of a core schema is not part of this: `ReferencesSpec` starts from any JSON schema and
any definitions.

Only model-checked: the liveness properties (`UsedClassesHeal`, `UsedAdaptersHeal`,
`UsedDataclassesHeal`, `CalledWrapperHeals`, `CallsEnd` of threads and of generics), since the provers have no
fairness and no ENABLED; the properties of `SchemaDefinitions`; those of the algorithms in `DiscriminatedUnion` and
`FieldSchema`, and `OnlyNeededTypesFail` of the traversal in `JsonSchemaDefinitions`. These modules have RECURSIVE operators, for the traversals of the
code, and a module that reaches one cannot use the SMT solver; what a traversal computes for every
schema is moreover an induction over schemas. `TypeOK`, `MockRebuildEnds` and
`CompletenessLostOnlyToFailedForce` of `ModelBuild`, and the `TypeOK` of the other modules, are proved
and not repeated by a run.

## 7. What is not modelled

- `pydantic-core`: whether a validator can be built from a schema is part of the model (`Kind`,
  `MockRebuildEnds`), what it does with a value only as far as `FieldSchema` needs it.
- `ModelBuild` has one namespace for all classes; which frame a name comes from is not told apart.
  Generic classes, root models and dataclasses are built by the same functions and not singled out.
- `ModelRebuildThreads` leaves out the on-complete hook and `__signature__`, which no one reads in
  between, and nested classes built by other threads at the same time.
- `GenericParametrization` has one type variable per model and one context; an exception of a nested
  class goes through to the outermost call, and is not caught by a hook or a validator of a class in between; defaults of type variables,
  the argument checks that raise before any state is touched, and sharing of the cache between
  contexts are left out.
- `SchemaDefinitions` leaves out containers, deferred discriminators, metadata, generic placeholders,
  and the kinds of types that are registered but never stored.
- `ModelInstance` has one class at a time: a subclass has handlers of its own. Property setters and
  other descriptors, `model_post_init`, extra annotations and the conversion of values are left out.
- `DataclassBuild` leaves out stdlib dataclasses that are converted, `slots`, and `InitVar`.
- `PluginLoader` leaves out what the handlers of a plugin do in a validation, and `ValidateCall` the
  binding of the wrapper to instances.
- `DiscriminatedUnion` leaves out `validate_by_name`, with which a field that has an alias is read under its
  name as well. `DecoratorTables` leaves out serializers and validators of all fields (`'*'`): the check
  for a second serializer takes the star for one more name.
- The algorithms leave out what their module comments say; of a JSON schema there are only references,
  of a member of a union only what the discriminator sees, of the constraints five that stand for the
  ways to apply one.
- Components with status `not_modelled` in PROJECT.json, with the reason for each: those of the plan,
  functions without state, legacy code and tooling.
