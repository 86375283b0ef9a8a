----------------------------- MODULE ModelBuild -----------------------------
(***************************************************************************)
(* The life of a BaseModel subclass between its class statement and the    *)
(* moment its core schema, validator and serializer are built.             *)
(*                                                                         *)
(* ModelMetaclass.__new__ collects the fields and tries to build the       *)
(* class; when a name does not resolve it leaves mocks behind.  A mock     *)
(* that is used calls model_rebuild(raise_errors=False) on its class and   *)
(* answers with what that built.  The user may also call model_rebuild,    *)
(* with or without force and raise_errors.  One action is one call: this   *)
(* module is about sequences of calls, ModelRebuildThreads about threads.  *)
(*                                                                         *)
(* A name stands for the object it is bound to: a model class, or another  *)
(* type (alias, custom type) with the way its schema behaves (Kind).       *)
(***************************************************************************)
EXTENDS Naturals, FiniteSets, TLC

CONSTANTS
    Classes,      \* the BaseModel subclasses of the program
    Types,        \* every other type an annotation names
    BaseModel,    \* pydantic.BaseModel, the end of every MRO
    Parent,       \* [Classes -> Classes \cup {BaseModel}]
    OwnRefs,      \* [Classes -> SUBSET Names], one field per name it annotates
    Deferred,     \* the classes with model_config defer_build=True
    Kind,         \* [Types -> Kinds]
    Forces        \* the values of `force` the program passes to model_rebuild

Names == Classes \cup Types

\* What a type does to a schema that contains it: nothing; generate_schema()
\* raises PydanticSchemaGenerationError; clean_schema() raises
\* InvalidSchemaError; building the validator raises SchemaError.
Kinds == {"plain", "unsupported", "dangling", "unbuildable"}

ASSUME ConstantsAssumption ==
    /\ IsFiniteSet(Classes)
    /\ Classes \cap Types = {}
    /\ BaseModel \notin Names
    /\ Parent \in [Classes -> Classes \cup {BaseModel}]
    /\ OwnRefs \in [Classes -> SUBSET Names]
    /\ Deferred \subseteq Classes
    /\ Kind \in [Types -> Kinds]
    /\ Forces \subseteq BOOLEAN

VARIABLES
    defined,  \* the classes whose class statement succeeded
    bound,    \* the names that resolve in the namespaces a (re)build looks in
    cls,      \* the class attributes this module is about, per class
    last      \* the last call and what its caller saw

vars == <<defined, bound, cls, last>>

\* "absent": not in the class's own __dict__, the lookup goes on to the parent.
Attr == {"absent", "mock", "real"}

ClassState ==
    [ complete : BOOLEAN,          \* __pydantic_complete__
      pending  : SUBSET Names,     \* what the fields with _complete False name
      core     : Attr,             \* __pydantic_core_schema__
      val      : Attr,             \* __pydantic_validator__
      ser      : Attr,             \* __pydantic_serializer__
      hooked   : BOOLEAN ]         \* __pydantic_on_complete__ was called

Unbuilt ==
    [complete |-> FALSE, pending |-> {}, core |-> "absent", val |-> "absent",
     ser |-> "absent", hooked |-> FALSE]

Outcomes == {"init", "ok", "true", "false", "none", "undefined", "unsupported",
             "unbuildable", "not_defined", "base_model", "assertion", "loops"}

\* What a raising call raised, as opposed to returned.
Raised == {"undefined", "unsupported", "unbuildable"}

Call(op, c, force, holder, out) ==
    [op |-> op, cls |-> c, force |-> force, holder |-> holder, out |-> out]

Calls == [op : {"init", "define", "rebuild", "use", "json_schema", "namespace"},
          cls : Classes \cup {BaseModel}, force : BOOLEAN,
          holder : Classes \cup {BaseModel}, out : Outcomes]

-----------------------------------------------------------------------------
(* The class hierarchy and the annotations.                                *)

Follow(n, edge) == {n} \cup (IF n \in Classes THEN edge[n] ELSE {})

\* Everything that `edge` leads to from `start`, the start included.
Closure(start, edge) ==
    LET grow[i \in 0 .. Cardinality(Classes)] ==
            IF i = 0 THEN start ELSE UNION {Follow(n, edge) : n \in grow[i - 1]}
    IN  grow[Cardinality(Classes)]

Ancestors(c) == Closure({c}, [d \in Classes |-> {Parent[d]} \cap Classes])

\* The fields of a class are its own and copies of its parents'.
Refs == [c \in Classes |-> UNION {OwnRefs[a] : a \in Ancestors(c)}]

Reach(c) == Closure(Refs[c], Refs)

\* The classes whose __dict__ answers a lookup of `attr` on c: c itself or the
\* closest ancestor that has it; none if it is BaseModel.
Nearest(c, attr) ==
    IF cls[c][attr] # "absent" THEN {c}
    ELSE {a \in Classes :
            /\ a \in Ancestors(c) /\ cls[a][attr] # "absent"
            /\ \A b \in Ancestors(c) : cls[b][attr] # "absent" => b \in Ancestors(a)}

-----------------------------------------------------------------------------
(* Building a schema.                                                      *)

\* NsResolver: a class sees the namespaces, itself and the class being built.
Unresolved(pending, c, root) == pending \ (bound \cup {c, root})

\* _model_schema() reuses a core schema found in the nested class's __dict__,
\* and gives up on a nested class whose fields it cannot evaluate.
Entered(root) ==
    [c \in Classes |->
        IF c # root /\ ( \/ cls[c].core = "real"
                         \/ Unresolved(cls[c].pending, c, root) # {} )
        THEN {} ELSE Refs[c]]

Walked(root) == Closure(Refs[root], Entered(root))

\* Mutant: the incomplete fields of nested classes are skipped.
GenerationErrors_SkipsIncomplete(root) ==
    {e \in {"unsupported"} : \E t \in Walked(root) \cap Types : Kind[t] = e}

\* The errors generate_schema() may raise; the order of the fields picks one.
GenerationErrors(root) ==
    LET walked == Walked(root) IN
    {e \in {"undefined", "unsupported"} :
        IF e = "undefined"
        THEN \E c \in (walked \cap Classes) \ {root} :
                /\ cls[c].core # "real"
                /\ Unresolved(cls[c].pending, c, root) # {}
        ELSE \E t \in walked \cap Types : Kind[t] = "unsupported"}

Contains(root, kind) == \E t \in Reach(root) \cap Types : Kind[t] = kind

\* set_model_mocks()
Mocked(s) == [s EXCEPT !.core = "mock", !.val = "mock", !.ser = "mock"]

Built(s, hook) ==
    [s EXCEPT !.complete = TRUE, !.core = "real", !.val = "real",
              !.ser = "real", !.hooked = @ \/ hook]

Result(s, out) == [state |-> s, out |-> out]

\* generate_schema() failed with error e.
GenerationFailed(s, e, raise) ==
    IF e = "undefined" /\ ~raise THEN Result(Mocked(s), "false") ELSE Result(s, e)

\* Mutant: the class is marked complete before its validator is built.
BuildSchema_CompleteFirst(c, s, raise, hook) ==
    LET errors == GenerationErrors(c) IN
    IF errors # {} THEN {GenerationFailed(s, e, raise) : e \in errors}
    ELSE IF Contains(c, "unbuildable")
         THEN {Result([s EXCEPT !.core = "real", !.complete = TRUE], "unbuildable")}
    ELSE {Result(Built(s, hook), "true")}

\* From generate_schema() on: all fields of the class are complete in s.
BuildSchema(c, s, raise, hook) ==
    LET errors == GenerationErrors(c) IN
    IF errors # {} THEN {GenerationFailed(s, e, raise) : e \in errors}
    ELSE IF Contains(c, "dangling") THEN {Result(Mocked(s), "false")}
    ELSE IF Contains(c, "unbuildable")
         THEN {Result([s EXCEPT !.core = "real"], "unbuildable")}
    ELSE {Result(Built(s, hook), "true")}

\* Mutant: the incomplete fields are not evaluated a second time.
CompleteModelClass_NoSecondEvaluation(c, s, raise, hook) ==
    IF s.pending # {}
    THEN {Result(Mocked(s), IF raise THEN "undefined" ELSE "false")}
    ELSE BuildSchema(c, s, raise, hook)

\* The results complete_model_class() can have on a class in state s.
CompleteModelClass(c, s, raise, hook) ==
    IF Unresolved(s.pending, c, c) # {}
    THEN {Result(Mocked(s), IF raise THEN "undefined" ELSE "false")}
    ELSE BuildSchema(c, [s EXCEPT !.pending = {}], raise, hook)

\* Mutant: the loop deletes the mocks as well.
DropReal_Mocks(a) == "absent"

\* The loop that clears the attributes, MockValSer instances excepted.  A
\* MockCoreSchema is not a MockValSer.
DropReal(a) == IF a = "real" THEN "absent" ELSE a

Cleared(s) == [s EXCEPT !.complete = FALSE, !.core = "absent",
                        !.val = DropReal(@), !.ser = DropReal(@)]

\* The results model_rebuild() can have.
ModelRebuild(c, force, raise) ==
    IF cls[c].complete /\ ~force THEN {Result(cls[c], "none")}
    ELSE CompleteModelClass(c, Cleared(cls[c]), raise, ~cls[c].complete)

-----------------------------------------------------------------------------
Init ==
    /\ defined = {}
    /\ bound = {}
    /\ cls = [c \in Classes |-> Unbuilt]
    /\ last = Call("init", BaseModel, FALSE, BaseModel, "init")

\* A class as ModelMetaclass.__new__ has it when it reaches the build: fields
\* that do not resolve yet are incomplete, incomplete parent fields are copied.
Collected(c) ==
    [Unbuilt EXCEPT !.pending =
        Unresolved(OwnRefs[c], c, c)
        \cup (IF Parent[c] \in Classes THEN cls[Parent[c]].pending ELSE {})]

\* The class statement.  An exception leaves no class behind.
DefineClass(c) ==
    /\ c \notin defined
    /\ Parent[c] \in defined \cup {BaseModel}
    /\ \E r \in IF c \in Deferred
                THEN {Result(Mocked(Collected(c)), "false")}
                ELSE CompleteModelClass(c, Collected(c), FALSE, TRUE) :
          /\ last' = Call("define", c, FALSE, c, r.out)
          /\ IF r.out \in Raised
             THEN UNCHANGED <<defined, bound, cls>>
             ELSE /\ defined' = defined \cup {c}
                  /\ bound' = bound \cup {c}
                  /\ cls' = [cls EXCEPT ![c] = r.state]

\* c.model_rebuild(force=force, raise_errors=raise), called by the program.
Rebuild(c, force, raise) ==
    /\ c \in defined
    /\ \E r \in ModelRebuild(c, force, raise) :
          /\ cls' = [cls EXCEPT ![c] = r.state]
          /\ last' = Call("rebuild", c, force, c, r.out)
    /\ UNCHANGED <<defined, bound>>

\* What the caller of a mock sees when attempt_rebuild ended with r: the
\* attribute of the class again, the mock's error, or the exception.
MockAnswer(r, attr) ==
    IF r.out \in Raised THEN r.out
    ELSE IF r.out = "false" THEN "not_defined"
    ELSE IF r.state[attr] = "real" THEN "ok" ELSE "loops"

\* The mock of class h is used on behalf of c.
UseMock(op, c, h, attr) ==
    \E r \in ModelRebuild(h, FALSE, FALSE) :
        /\ cls' = [cls EXCEPT ![h] = r.state]
        /\ last' = Call(op, c, FALSE, h, MockAnswer(r, attr))

\* The attribute of h answers for c: a real one does, a mock tries to rebuild.
LookUp(op, c, h, attr) ==
    \/ /\ cls[h][attr] = "real"
       /\ last' = Call(op, c, FALSE, h, "ok")
       /\ UNCHANGED cls
    \/ /\ cls[h][attr] = "mock"
       /\ UseMock(op, c, h, attr)

\* c.model_validate(), c(), instance.model_dump(): looks the validator or the
\* serializer up on c and calls a method of it.  BaseModel's mock cannot rebuild.
Use(c, attr) ==
    /\ c \in defined
    /\ \/ \E h \in Nearest(c, attr) : LookUp("use", c, h, attr)
       \/ /\ Nearest(c, attr) = {}
          /\ last' = Call("use", c, FALSE, BaseModel, "base_model")
          /\ UNCHANGED cls
    /\ UNCHANGED <<defined, bound>>

\* c.model_json_schema(): rebuilds through the mock it finds, then asserts
\* that the core schema is not a mock; BaseModel's mock stays one.
JsonSchema(c) ==
    /\ c \in defined
    /\ \/ \E h \in Nearest(c, "core") : LookUp("json_schema", c, h, "core")
       \/ /\ Nearest(c, "core") = {}
          /\ last' = Call("json_schema", c, FALSE, BaseModel, "assertion")
          /\ UNCHANGED cls
    /\ UNCHANGED <<defined, bound>>

\* The namespaces change between two calls: a name is assigned or goes away.
Bind(n) ==
    /\ n \in (defined \cup Types) \ bound
    /\ bound' = bound \cup {n}
    /\ last' = Call("namespace", BaseModel, FALSE, BaseModel, "ok")
    /\ UNCHANGED <<defined, cls>>

Unbind(n) ==
    /\ n \in bound
    /\ bound' = bound \ {n}
    /\ last' = Call("namespace", BaseModel, FALSE, BaseModel, "ok")
    /\ UNCHANGED <<defined, cls>>

Next ==
    \/ \E c \in Classes : DefineClass(c)
    \/ \E c \in Classes, force \in Forces, raise \in BOOLEAN : Rebuild(c, force, raise)
    \/ \E c \in Classes, attr \in {"val", "ser"} : Use(c, attr)
    \/ \E c \in Classes : JsonSchema(c)
    \/ \E n \in Names : Bind(n)
    \/ \E n \in Names : Unbind(n)

Spec == Init /\ [][Next]_vars

\* The program keeps validating with every class it has defined.
FairSpec == Spec /\ \A c \in Classes : WF_vars(Use(c, "val"))

-----------------------------------------------------------------------------
(* Properties.                                                             *)

\* The variables hold what the code can put in them; a name that resolves
\* stands for an object that exists.
TypeOK ==
    /\ defined \subseteq Classes
    /\ bound \subseteq defined \cup Types
    /\ cls \in [Classes -> ClassState]
    /\ last \in Calls

\* How the parts of one class's state hang together.
Together(s) ==
    /\ s.complete <=> s.val = "real"
    /\ s.val = s.ser
    /\ s.complete => s.core = "real" /\ s.pending = {} /\ s.hooked

\* The attributes and the flags of a class that are set one after the
\* other in complete_model_class(), model_rebuild() and set_model_mocks() agree
\* between any two calls: a class is complete exactly when it has a validator of
\* its own, and then the serializer, the core schema, every field and the
\* on-complete hook are done too.
BuiltTogether == \A c \in Classes : Together(cls[c])

\* A mock that asks for a rebuild and is told it was not refused gets a real
\* attribute back, never another mock: MockValSer.__getattr__ ends.
MockRebuildEnds == last.out # "loops"

\* What a schema may contain, so that it can be built.
Sound(n) == n \in Types => Kind[n] \notin {"unsupported", "dangling"}

\* A core schema that was stored is closed: everything it reaches, through any
\* number of reused nested schemas built at other times, was defined and had a
\* schema; and a complete class reaches nothing its validator could not build.
StoredSchemasClosed ==
    \A c \in defined : cls[c].core = "real" =>
        \A n \in Reach(c) : /\ n \in defined \cup Types
                            /\ Sound(n)
                            /\ cls[c].complete /\ n \in Types => Kind[n] = "plain"

\* The classes nothing but missing names can keep from being built.
Healthy == {c \in Classes : \A n \in Reach(c) : n \in Types => Kind[n] = "plain"}

\* No sequence of failed builds, namespaces that came and went and partly built
\* neighbours leaves a healthy class in a state model_rebuild() cannot repair
\* once every name resolves.
AlwaysRepairable ==
    Names \subseteq bound =>
        \A c \in defined \cap Healthy, raise \in BOOLEAN :
            \A r \in ModelRebuild(c, TRUE, raise) : r.out = "true"

\* A complete class stops being complete only in a forced rebuild of that very
\* class whose caller is told it failed: never as a side effect of building,
\* using or failing to build another class.
CompletenessLostOnlyToFailedForce ==
    [][\A c \in defined : cls[c].complete /\ ~cls'[c].complete =>
          /\ last'.op = "rebuild" /\ last'.cls = c /\ last'.force
          /\ last'.out \in Raised \cup {"false"}]_vars

\* A class whose own validator has been set, as a mock or for real, is left
\* without one (and so with its parent's) only by a forced rebuild of it that
\* raised: main.py, "otherwise [...] the parent validator [is] used".
ValidatorLostOnlyToRaisingForce ==
    [][\A c \in defined : cls[c].val # "absent" /\ cls'[c].val = "absent" =>
          /\ last'.op = "rebuild" /\ last'.cls = c /\ last'.force
          /\ last'.out \in Raised]_vars

\* Automatic rebuilding (resolving_annotations.md): a healthy class with a
\* validator of its own that is used again and again becomes complete, and
\* stays so, once every name stays bound.
UsedClassesHeal ==
    <>[](Names \subseteq bound) =>
        \A c \in Healthy : <>[](cls[c].complete \/ cls[c].val = "absent")

-----------------------------------------------------------------------------
(* ModelBuild implements LazyBuild.                                        *)

Phase(c) == IF c \notin defined THEN "undefined"
            ELSE IF cls[c].complete THEN "ready"
            ELSE IF cls[c].val = "absent" THEN "spoiled"
            ELSE "pending"

Lazy == INSTANCE LazyBuild WITH
            Nobody <- BaseModel,
            phase  <- [c \in Classes |-> Phase(c)],
            answer <- IF last.op = "use" /\ last.out = "ok"
                      THEN <<last.cls, last.holder>> ELSE <<BaseModel, BaseModel>>

\* What a program sees of its classes is what LazyBuild promises: whatever was
\* rebuilt, failed or used before, a validation is answered by a ready class, and
\* by another class than the one asked only if that one was spoiled.
LazySpec == Lazy!Spec

=============================================================================
