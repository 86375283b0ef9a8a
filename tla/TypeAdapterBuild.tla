-------------------------- MODULE TypeAdapterBuild --------------------------
(***************************************************************************)
(* TypeAdapter instances next to the model classes of ModelBuild.  An      *)
(* adapter of a class borrows the three attributes of the class if they    *)
(* are real, and otherwise builds its own; what it borrowed it keeps,      *)
(* whatever happens to the class.  One action is one call, as in           *)
(* ModelBuild, and the calls of both modules interleave.                   *)
(***************************************************************************)
EXTENDS ModelBuild

CONSTANTS
    Adapters,       \* the TypeAdapter instances
    AdaptedType,    \* [Adapters -> Names]
    AdapterForces   \* the values of `force` passed to TypeAdapter.rebuild

ASSUME AdapterAssumption ==
    /\ AdaptedType \in [Adapters -> Names]
    /\ AdapterForces \subseteq BOOLEAN

VARIABLES
    adapter,   \* the attributes of each adapter
    seen       \* the last call of an adapter and what its caller saw

adapterVars == <<adapter, seen>>

\* "own": a mock that rebuilds the adapter; "class_mock": the mock of the
\* adapted class, which rebuilds the class.
AdapterAttr == {"unset", "own", "class_mock", "real"}

AdapterState ==
    [made : BOOLEAN, complete : BOOLEAN,
     core : AdapterAttr, val : AdapterAttr, ser : AdapterAttr]

NotMade == [made |-> FALSE, complete |-> FALSE,
            core |-> "unset", val |-> "unset", ser |-> "unset"]

AdapterCalls ==
    [op : {"init", "make", "rebuild", "use", "json_schema"},
     adapter : Adapters, force : BOOLEAN, out : Outcomes]

Seen(op, a, force, out) == [op |-> op, adapter |-> a, force |-> force, out |-> out]

-----------------------------------------------------------------------------
\* _getattr_no_parents(): the attribute in the __dict__ of the adapted type.
Own(t, attr) == IF t \in Classes THEN cls[t][attr] ELSE "absent"

\* The three assignments that come before the first attribute that is missing.
Borrow(s, t) ==
    LET has(attr) == Own(t, attr) # "absent"
        got(attr, old) == IF Own(t, attr) = "mock" THEN "class_mock" ELSE "real"
    IN [s EXCEPT
          !.core = IF has("core") THEN got("core", @) ELSE @,
          !.val  = IF has("core") /\ has("val") THEN got("val", @) ELSE @,
          !.ser  = IF has("core") /\ has("val") /\ has("ser") THEN got("ser", @) ELSE @]

CanBorrow(t) == \A attr \in {"core", "val", "ser"} : Own(t, attr) = "real"

\* set_type_adapter_mocks()
OwnMocks(s) == [s EXCEPT !.core = "own", !.val = "own", !.ser = "own"]

AdapterBuilt(s) == [s EXCEPT !.complete = TRUE, !.core = "real", !.val = "real", !.ser = "real"]

\* What generate_schema() of the adapted type may raise.
AdapterErrors(t) ==
    IF t \in Types THEN {Kind[t]} \cap {"unsupported"}
    ELSE IF cls[t].core = "real" THEN {}
    ELSE IF Unresolved(cls[t].pending, t, t) # {} THEN {"undefined"}
    ELSE GenerationErrors(t)

AdaptedContains(t, kind) == IF t \in Types THEN Kind[t] = kind ELSE Contains(t, kind)

\* The block in `except AttributeError` of _init_core_attrs().
BuildAdapter(s, t, raise) ==
    LET errors == AdapterErrors(t) IN
    IF errors # {}
    THEN {IF e = "undefined" /\ ~raise THEN Result(OwnMocks(s), "false") ELSE Result(s, e) :
             e \in errors}
    ELSE IF AdaptedContains(t, "dangling") THEN {Result(OwnMocks(s), "false")}
    ELSE IF AdaptedContains(t, "unbuildable")
         THEN {Result([s EXCEPT !.core = "real"], "unbuildable")}
    ELSE {Result(AdapterBuilt(s), "true")}

\* Mutant: a class attribute that is a mock is borrowed like a real one.
InitCoreAttrs_BorrowsMocks(s, t, force, raise) ==
    IF ~force /\ t \in Deferred
    THEN {Result([OwnMocks(s) EXCEPT !.complete = FALSE], "false")}
    ELSE IF \A attr \in {"core", "val", "ser"} : Own(t, attr) # "absent"
    THEN {Result([Borrow(s, t) EXCEPT !.complete = TRUE], "true")}
    ELSE BuildAdapter(Borrow(s, t), t, raise)

\* The results _init_core_attrs() can have on an adapter of t in state s.
InitCoreAttrs(s, t, force, raise) ==
    IF ~force /\ t \in Deferred
    THEN {Result([OwnMocks(s) EXCEPT !.complete = FALSE], "false")}
    ELSE IF CanBorrow(t)
    THEN {Result([Borrow(s, t) EXCEPT !.complete = TRUE], "true")}
    ELSE BuildAdapter(Borrow(s, t), t, raise)

\* Mutant: the rebuild forgets to override defer_build.
AdapterRebuild_StaysDeferred(a, force, raise) ==
    IF adapter[a].complete /\ ~force THEN {Result(adapter[a], "none")}
    ELSE InitCoreAttrs(adapter[a], AdaptedType[a], force, raise)

\* The results TypeAdapter.rebuild() can have.
AdapterRebuild(a, force, raise) ==
    IF adapter[a].complete /\ ~force THEN {Result(adapter[a], "none")}
    ELSE InitCoreAttrs(adapter[a], AdaptedType[a], TRUE, raise)

-----------------------------------------------------------------------------
AdapterInit ==
    /\ Init
    /\ adapter = [a \in Adapters |-> NotMade]
    /\ \E a \in Adapters : seen = Seen("init", a, FALSE, "init")

\* TypeAdapter(type).  An exception leaves no adapter behind.
MakeAdapter(a) ==
    /\ ~adapter[a].made
    /\ AdaptedType[a] \in defined \cup Types
    /\ \E r \in InitCoreAttrs([NotMade EXCEPT !.made = TRUE], AdaptedType[a], FALSE, FALSE) :
          /\ seen' = Seen("make", a, FALSE, r.out)
          /\ adapter' = IF r.out \in Raised THEN adapter
                        ELSE [adapter EXCEPT ![a] = r.state]
    /\ UNCHANGED vars

\* adapter.rebuild(force=force, raise_errors=raise)
RebuildAdapter(a, force, raise) ==
    /\ adapter[a].made
    /\ \E r \in AdapterRebuild(a, force, raise) :
          /\ adapter' = [adapter EXCEPT ![a] = r.state]
          /\ seen' = Seen("rebuild", a, force, r.out)
    /\ UNCHANGED vars

\* What a call through a mock answers when the rebuild ended with r and left
\* `now` in the adapter; json_schema() asserts that no mock is left there.
ThroughMock(op, r, attr, now) ==
    IF op = "json_schema" /\ r.out \notin Raised \cup {"false"}
    THEN IF now = "real" THEN "ok" ELSE "assertion"
    ELSE MockAnswer(r, attr)

\* The class the adapter took its mock from is rebuilt; the adapter keeps the
\* mock.
ThroughClassMock(op, a, attr) ==
    /\ adapter[a][attr] = "class_mock"
    /\ \E r \in ModelRebuild(AdaptedType[a], FALSE, FALSE) :
          /\ cls' = [cls EXCEPT ![AdaptedType[a]] = r.state]
          /\ seen' = Seen(op, a, FALSE, ThroughMock(op, r, attr, "class_mock"))
    /\ UNCHANGED <<defined, bound, last, adapter>>

\* The adapter itself is rebuilt.
ThroughOwnMock(op, a, attr) ==
    /\ adapter[a][attr] = "own"
    /\ \E r \in AdapterRebuild(a, FALSE, FALSE) :
          /\ adapter' = [adapter EXCEPT ![a] = r.state]
          /\ seen' = Seen(op, a, FALSE, ThroughMock(op, r, attr, r.state[attr]))
    /\ UNCHANGED vars

AdapterLookUp(op, a, attr) ==
    /\ adapter[a].made
    /\ \/ /\ adapter[a][attr] = "real"
          /\ seen' = Seen(op, a, FALSE, "ok")
          /\ UNCHANGED <<vars, adapter>>
       \/ ThroughOwnMock(op, a, attr)
       \/ ThroughClassMock(op, a, attr)

\* adapter.validate_python(), adapter.dump_python(), ...
UseAdapter(a, attr) == AdapterLookUp("use", a, attr)

\* adapter.json_schema()
AdapterJsonSchema(a) == AdapterLookUp("json_schema", a, "core")

\* A call of ModelBuild.
ClassStep == Next /\ UNCHANGED adapterVars

AdapterNext ==
    \/ ClassStep
    \/ \E a \in Adapters : MakeAdapter(a)
    \/ \E a \in Adapters, force \in AdapterForces, raise \in BOOLEAN :
          RebuildAdapter(a, force, raise)
    \/ \E a \in Adapters, attr \in {"val", "ser"} : UseAdapter(a, attr)
    \/ \E a \in Adapters : AdapterJsonSchema(a)

AdapterSpec == AdapterInit /\ [][AdapterNext]_<<vars, adapterVars>>

\* The program keeps validating with every adapter it has made.
FairAdapterSpec ==
    AdapterSpec /\ \A a \in Adapters : WF_<<vars, adapterVars>>(UseAdapter(a, "val"))

-----------------------------------------------------------------------------
(* Properties.                                                             *)

\* An adapter has three attributes once it is made, and none before.
AdapterTypeOK ==
    /\ TypeOK
    /\ adapter \in [Adapters -> AdapterState]
    /\ \A a \in Adapters :
          IF adapter[a].made
          THEN "unset" \notin {adapter[a].core, adapter[a].val, adapter[a].ser}
          ELSE adapter[a] = NotMade
    /\ seen \in AdapterCalls

\* pydantic_complete tells whether an adapter has all it needs.
Truthful(ad) == ad.complete <=> {ad.core, ad.val, ad.ser} = {"real"}

\* Borrowing from a class in any state, failing to build, using mocks of its own
\* or of the class: none of it makes pydantic_complete wrong.  Only a forced
\* rebuild that failed does, and only of that adapter.
TruthLostOnlyToFailedForce ==
    [][\A a \in Adapters : Truthful(adapter[a]) /\ ~Truthful(adapter'[a]) =>
          /\ seen'.op = "rebuild" /\ seen'.adapter = a /\ seen'.force
          /\ seen'.out \in Raised \cup {"false"}]_<<vars, adapterVars>>

\* The adapted types that nothing but missing names can keep from being built.
HealthyAdapters ==
    {a \in Adapters : AdaptedType[a] \in Healthy
                      \/ (AdaptedType[a] \in Types /\ Kind[AdaptedType[a]] = "plain")}

\* An adapter that is used again and again ends up with a real validator of its
\* own, or with the mock of a class that is complete, once every name resolves;
\* a failed forced rebuild may keep it from that for good.
UsedAdaptersHeal ==
    <>[](Names \subseteq bound) =>
        \A a \in HealthyAdapters :
            <>[](adapter[a].made /\ Truthful(adapter[a]) =>
                    \/ adapter[a].val = "real"
                    \/ adapter[a].val = "class_mock" /\ cls[AdaptedType[a]].complete)

=============================================================================
