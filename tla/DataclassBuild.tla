--------------------------- MODULE DataclassBuild ---------------------------
(***************************************************************************)
(* The build of pydantic dataclasses: the decorator, complete_dataclass(), *)
(* rebuild_dataclass() and the mocks.                                      *)
(*                                                                         *)
(* It follows the build of model classes, and takes from ModelBuild the    *)
(* class attributes, their lookup along the MRO and the generation of      *)
(* schemas; BaseModel stands for object here, on which nothing is found.   *)
(* What differs: every call collects all fields again, each in the         *)
(* namespace of the class that declares it; a rebuild deletes the mocks    *)
(* too; and __init__ is replaced, by a function without the parameters of  *)
(* the dataclass, before the signature is made.                            *)
(***************************************************************************)
EXTENDS ModelBuild

VARIABLE
    signature    \* per class, the __init__ its __signature__ was made from

dataclassVars == <<vars, signature>>

DataclassInit == Init /\ signature = [c \in Classes |-> "none"]

\* collect_dataclass_fields(): what remains unresolved when the annotations of
\* each class of the MRO are evaluated with that class in scope.
CollectFields(c) == UNION {Unresolved(OwnRefs[a], a, a) : a \in Ancestors(c)}

\* _dataclass_schema() of the class itself evaluates the fields that are left
\* once more, with the class in scope, and does not keep the result.
DataclassErrors(c, s) ==
    IF Unresolved(s.pending, c, c) # {} THEN {"undefined"} ELSE GenerationErrors(c)

\* Mutant: no mocks are set when the schema cannot be generated.
CompleteDataclass_NoMocks(c, s, raise) ==
    LET t == [s EXCEPT !.pending = CollectFields(c)]
    IN  IF DataclassErrors(c, t) # {} THEN {Result(t, "false")}
        ELSE {Result(Built(t, FALSE), "true")}

\* complete_dataclass() on a class in state s, past the test of defer_build.
CompleteDataclass(c, s, raise) ==
    LET t == [s EXCEPT !.pending = CollectFields(c)]
        errors == DataclassErrors(c, t)
    IN  IF errors # {} THEN {GenerationFailed(t, e, raise) : e \in errors}
        ELSE IF Contains(c, "dangling") THEN {Result(Mocked(t), "false")}
        ELSE IF Contains(c, "unbuildable")
             THEN {Result([t EXCEPT !.core = "real"], "unbuildable")}
        ELSE {Result(Built(t, FALSE), "true")}

\* The @dataclass decorator.  With defer_build no signature is made.
Decorate(c) ==
    /\ c \notin defined
    /\ Parent[c] \in defined \cup {BaseModel}
    /\ \E r \in IF c \in Deferred
                THEN {Result(Mocked([Unbuilt EXCEPT !.pending = CollectFields(c)]), "false")}
                ELSE CompleteDataclass(c, Unbuilt, FALSE) :
          /\ last' = Call("define", c, FALSE, c, r.out)
          /\ IF r.out \in Raised
             THEN UNCHANGED <<defined, bound, cls, signature>>
             ELSE /\ defined' = defined \cup {c}
                  /\ bound' = bound \cup {c}
                  /\ cls' = [cls EXCEPT ![c] = r.state]
                  /\ signature' = [signature EXCEPT ![c] =
                                      IF c \in Deferred THEN "none" ELSE "stdlib"]

\* Mutant: the serializer is left out of the loop.
Deleted_KeepsSerializer(s) ==
    [s EXCEPT !.complete = FALSE, !.core = "absent", !.val = "absent"]

\* The loop of rebuild_dataclass(): whatever is in the class's __dict__ goes.
Deleted(s) ==
    [s EXCEPT !.complete = FALSE, !.core = "absent", !.val = "absent", !.ser = "absent"]

RebuildNeeded(c, force) == force \/ ~cls[c].complete

\* Mutant: without _force_build the build is deferred once more.
RebuildDataclass_DefersAgain(c, force, raise) ==
    IF ~RebuildNeeded(c, force) THEN {Result(cls[c], "none")}
    ELSE IF c \in Deferred THEN {Result(Mocked(Deleted(cls[c])), "false")}
    ELSE CompleteDataclass(c, Deleted(cls[c]), raise)

\* The results rebuild_dataclass() can have.
RebuildDataclass(c, force, raise) ==
    IF RebuildNeeded(c, force)
    THEN CompleteDataclass(c, Deleted(cls[c]), raise)
    ELSE {Result(cls[c], "none")}

\* The signature a rebuild leaves: `original_init` is cls.__init__, which the
\* first complete_dataclass() has replaced.
Resigned(c, force) ==
    IF RebuildNeeded(c, force) THEN [signature EXCEPT ![c] = "pydantic"] ELSE signature

CallRebuild(c, force, raise) ==
    /\ c \in defined
    /\ \E r \in RebuildDataclass(c, force, raise) :
          /\ cls' = [cls EXCEPT ![c] = r.state]
          /\ last' = Call("rebuild", c, force, c, r.out)
    /\ signature' = Resigned(c, force)
    /\ UNCHANGED <<defined, bound>>

\* What the mock of h runs when it is used.
MockRebuild(h) == RebuildDataclass(h, FALSE, FALSE)

\* c(...), validate_assignment, or dumping an instance of c.
UseDataclass(c, attr) ==
    /\ c \in defined
    /\ \/ \E h \in Nearest(c, attr) :
            \/ /\ cls[h][attr] = "real"
               /\ last' = Call("use", c, FALSE, h, "ok")
               /\ UNCHANGED <<cls, signature>>
            \/ /\ cls[h][attr] = "mock"
               /\ \E r \in MockRebuild(h) :
                    /\ cls' = [cls EXCEPT ![h] = r.state]
                    /\ last' = Call("use", c, FALSE, h, MockAnswer(r, attr))
               /\ signature' = Resigned(h, FALSE)
       \/ /\ Nearest(c, attr) = {}
          /\ last' = Call("use", c, FALSE, BaseModel, "assertion")
          /\ UNCHANGED <<cls, signature>>
    /\ UNCHANGED <<defined, bound>>

DataclassNext ==
    \/ \E c \in Classes : Decorate(c)
    \/ \E c \in Classes, force \in Forces, raise \in BOOLEAN : CallRebuild(c, force, raise)
    \/ \E c \in Classes, attr \in {"val", "ser"} : UseDataclass(c, attr)
    \/ \E n \in Names : (Bind(n) \/ Unbind(n)) /\ UNCHANGED signature

DataclassSpec == DataclassInit /\ [][DataclassNext]_dataclassVars

\* The program keeps making instances of every dataclass it has.
DataclassFairSpec ==
    DataclassSpec /\ \A c \in Classes : WF_dataclassVars(UseDataclass(c, "val"))

-----------------------------------------------------------------------------
(* Properties.                                                             *)

\* Between two calls the attributes of a dataclass agree: it is complete
\* exactly when it has a validator of its own, then it has the serializer and
\* the core schema and a signature too, and all its fields were evaluated, but
\* for inherited ones that refer to the class itself.  A mock that rebuilt the class finds a
\* real attribute in its place.
DataclassTogether ==
    /\ last.out # "loops"
    /\ \A c \in defined :
          /\ cls[c].complete <=> cls[c].val = "real"
          /\ cls[c].val = cls[c].ser
          /\ cls[c].complete =>
               cls[c].core = "real" /\ cls[c].pending \subseteq {c} /\ signature[c] # "none"

\* A dataclass loses its own validator, real or mock, and is from then on
\* served by its parent's, only in a call that raised and that was a rebuild of
\* it or a use of its mock.
LostOnlyToRaisingBuild ==
    [][\A c \in defined : cls[c].val # "absent" /\ cls'[c].val = "absent" =>
          /\ last'.out \in Raised
          /\ \/ last'.op = "rebuild" /\ last'.cls = c
             \/ last'.op = "use" /\ last'.holder = c /\ cls[c].val = "mock"]_dataclassVars

\* A healthy dataclass that still has a validator of its own and is used again
\* and again becomes complete once every name stays bound.
UsedDataclassesHeal ==
    <>[](Names \subseteq bound) =>
        \A c \in Healthy : <>[](cls[c].complete \/ cls[c].val = "absent")

=============================================================================
