---------------------- MODULE DataclassAndAdapterProofs ----------------------
(***************************************************************************)
(* What the two other users of the build of classes promise for every      *)
(* program.  TypeAdapterBuild: any adapters, of any types, next to any     *)
(* classes, with the calls of both interleaved in any order; the classes   *)
(* keep the invariant of ModelBuildProofs.  DataclassBuild: any            *)
(* dataclasses, any hierarchy, any annotations, any sequence of calls.     *)
(* The lemmas about the attributes of a class and about Ancestors() are    *)
(* those of ModelBuildProofs.                                              *)
(***************************************************************************)
EXTENDS DataclassBuild, TypeAdapterBuild, ModelBuildProofs

-----------------------------------------------------------------------------
(* Type adapters. *)

\* The attributes of an adapter are set together, and a real validator only
\* with the flag that says so; only a class has a mock to borrow.
AdapterFits(t, s) ==
    /\ s.val = s.ser
    /\ s.val = "real" => s.complete
    /\ t \notin Classes => "class_mock" \notin {s.core, s.val, s.ser}

HasAll(s) == "unset" \notin {s.core, s.val, s.ser}

AdapterResults == [state : AdapterState, out : Outcomes]

\* What an attempt to build an adapter in state s hands back: well typed, with
\* something in every attribute unless it raised, and with a wrong flag only if
\* the flag was set before and the attempt failed.
GoodAdapter(t, s, r) ==
    /\ r \in AdapterResults
    /\ r.state.made
    /\ AdapterFits(t, r.state)
    /\ r.out \in Raised \cup {"true", "false", "none"}
    /\ HasAll(s) \/ r.out \notin Raised => HasAll(r.state)
    /\ ~s.complete \/ r.out \notin Raised \cup {"false"} => Truthful(r.state)

-----------------------------------------------------------------------------
(* One attempt.                                                            *)

\* A type that is no class has no attributes to borrow.
LEMMA OwnAttributes ==
    ASSUME Inv, NEW t \in Names, NEW attr \in {"core", "val", "ser"}
    PROVE  Own(t, attr) \in Attr
BY DEF Own, Inv, TypeOK, ClassState, Attr

\* The class an adapter borrows from is in one piece.
LEMMA OwnTogether ==
    ASSUME Inv, NEW t \in Names
    PROVE  /\ Own(t, "val") = Own(t, "ser")
           /\ Own(t, "val") = "real" => Own(t, "core") = "real"
<1>1. CASE t \in Classes
  <2>1. Together(cls[t])
    BY <1>1 DEF Inv, BuiltTogether
  <2> QED
    BY <1>1, <2>1 DEF Together, Own
<1>2. CASE t \notin Classes
  BY <1>2 DEF Own
<1> QED
  BY <1>1, <1>2

\* Borrowing: an attribute that was there stays there; unless all three can be
\* borrowed, no real validator comes in.
LEMMA BorrowGood ==
    ASSUME Inv, NEW t \in Names, NEW s \in AdapterState, s.made, AdapterFits(t, s)
    PROVE  /\ Borrow(s, t) \in AdapterState
           /\ Borrow(s, t).made
           /\ Borrow(s, t).complete = s.complete
           /\ HasAll(s) => HasAll(Borrow(s, t))
           /\ Borrow(s, t).val = Borrow(s, t).ser
           /\ ~CanBorrow(t) => Borrow(s, t).val \in {s.val, "class_mock"}
           /\ CanBorrow(t) => {Borrow(s, t).core, Borrow(s, t).val, Borrow(s, t).ser} = {"real"}
           /\ t \notin Classes => "class_mock" \notin {Borrow(s, t).core, Borrow(s, t).val, Borrow(s, t).ser}
<1> DEFINE has(attr) == Own(t, attr) # "absent"
           got(attr) == IF Own(t, attr) = "mock" THEN "class_mock" ELSE "real"
           b == Borrow(s, t)
<1>1. /\ b.made = s.made /\ b.complete = s.complete
      /\ b.core = IF has("core") THEN got("core") ELSE s.core
      /\ b.val = IF has("core") /\ has("val") THEN got("val") ELSE s.val
      /\ b.ser = IF has("core") /\ has("val") /\ has("ser") THEN got("ser") ELSE s.ser
      /\ b = [made |-> b.made, complete |-> b.complete,
              core |-> b.core, val |-> b.val, ser |-> b.ser]
  <2>1. b = [s EXCEPT
              !.core = IF has("core") THEN got("core") ELSE s.core,
              !.val  = IF has("core") /\ has("val") THEN got("val") ELSE s.val,
              !.ser  = IF has("core") /\ has("val") /\ has("ser") THEN got("ser") ELSE s.ser]
    BY DEF Borrow
  <2> HIDE DEF b, has, got
  <2> QED
    BY <2>1 DEF AdapterState
<1>2. /\ s.made \in BOOLEAN /\ s.complete \in BOOLEAN
      /\ s.core \in AdapterAttr /\ s.val \in AdapterAttr /\ s.ser \in AdapterAttr
  BY DEF AdapterState
<1>3. /\ Own(t, "core") \in Attr /\ Own(t, "val") \in Attr /\ Own(t, "ser") \in Attr
  BY OwnAttributes
<1> HIDE DEF b
<1>4. b \in AdapterState
  <2>1. b.core \in AdapterAttr /\ b.val \in AdapterAttr /\ b.ser \in AdapterAttr
    BY <1>1, <1>2 DEF AdapterAttr
  <2> QED
    BY <1>1, <1>2, <2>1 DEF AdapterState
<1>5. HasAll(s) => HasAll(b)
  BY <1>1 DEF HasAll
<1>6. b.val = b.ser
  BY <1>1, OwnTogether DEF AdapterFits
<1>7. ~CanBorrow(t) => b.val \in {s.val, "class_mock"}
  <2>1. SUFFICES ASSUME b.val # s.val, b.val # "class_mock" PROVE CanBorrow(t)
    OBVIOUS
  <2>2. Own(t, "val") = "real"
    BY <1>1, <1>3, <2>1 DEF Attr
  <2> QED
    BY <2>2, OwnTogether DEF CanBorrow
<1>8. CanBorrow(t) => b.core = "real" /\ b.val = "real" /\ b.ser = "real"
  BY <1>1 DEF CanBorrow
<1>9. t \notin Classes => "class_mock" \notin {b.core, b.val, b.ser}
  BY <1>1 DEF Own, AdapterFits
<1> QED
  BY <1>1, <1>4, <1>5, <1>6, <1>7, <1>8, <1>9 DEF b

\* generate_schema() of the adapted type raises one of two errors.
LEMMA AdapterErrorsKnown ==
    ASSUME NEW t
    PROVE  AdapterErrors(t) \subseteq {"undefined", "unsupported"}
BY DEF AdapterErrors, GenerationErrors

LEMMA BuildAdapterGood ==
    ASSUME NEW t \in Names, NEW s \in AdapterState, s.made, AdapterFits(t, s),
           NEW raise \in BOOLEAN, NEW r \in BuildAdapter(s, t, raise)
    PROVE  GoodAdapter(t, s, r)
<1> USE DEF GoodAdapter, AdapterResults, AdapterFits, HasAll, Truthful, AdapterState,
            AdapterAttr, Outcomes, Raised, Result
<1>1. CASE r = Result(OwnMocks(s), "false")
  BY <1>1 DEF OwnMocks
<1>2. CASE r = Result(s, "undefined") \/ r = Result(s, "unsupported")
  <2>1. r.state = s /\ r.out \in {"undefined", "unsupported"}
        /\ r = [state |-> r.state, out |-> r.out]
    BY <1>2
  <2> QED
    BY <2>1
<1>3. CASE r = Result([s EXCEPT !.core = "real"], "unbuildable")
  <2>1. /\ r.state.made = s.made /\ r.state.complete = s.complete
        /\ r.state.core = "real" /\ r.state.val = s.val /\ r.state.ser = s.ser
        /\ r.state \in AdapterState /\ r \in AdapterResults /\ r.out = "unbuildable"
    BY <1>3
  <2> QED
    BY <2>1
<1>4. CASE r = Result(AdapterBuilt(s), "true")
  BY <1>4 DEF AdapterBuilt
<1>5. CASE AdapterErrors(t) # {}
  <2>1. PICK e \in AdapterErrors(t) :
           r = IF e = "undefined" /\ ~raise THEN Result(OwnMocks(s), "false") ELSE Result(s, e)
    BY <1>5 DEF BuildAdapter
  <2> QED
    BY <1>1, <1>2, <2>1, AdapterErrorsKnown
<1>6. CASE AdapterErrors(t) = {}
  BY <1>1, <1>3, <1>4, <1>6 DEF BuildAdapter
<1> QED
  BY <1>5, <1>6

\* _init_core_attrs()
LEMMA InitCoreAttrsGood ==
    ASSUME Inv, NEW t \in Names, NEW s \in AdapterState, s.made, AdapterFits(t, s),
           NEW force \in BOOLEAN, NEW raise \in BOOLEAN,
           NEW r \in InitCoreAttrs(s, t, force, raise)
    PROVE  GoodAdapter(t, s, r)
<1>1. CASE ~force /\ t \in Deferred
  <2>1. r = Result([OwnMocks(s) EXCEPT !.complete = FALSE], "false")
    BY <1>1 DEF InitCoreAttrs
  <2> QED
    BY <2>1 DEF OwnMocks, GoodAdapter, AdapterResults, AdapterFits, HasAll, Truthful,
                AdapterState, AdapterAttr, Outcomes, Raised, Result
<1> DEFINE b == Borrow(s, t)
<1>2. /\ b \in AdapterState /\ b.made /\ b.complete = s.complete /\ b.val = b.ser
      /\ HasAll(s) => HasAll(b)
      /\ ~CanBorrow(t) => b.val \in {s.val, "class_mock"}
      /\ CanBorrow(t) => {b.core, b.val, b.ser} = {"real"}
      /\ t \notin Classes => "class_mock" \notin {b.core, b.val, b.ser}
  BY BorrowGood
<1>3. CASE ~(~force /\ t \in Deferred) /\ CanBorrow(t)
  <2>1. r = Result([b EXCEPT !.complete = TRUE], "true")
    BY <1>3 DEF InitCoreAttrs
  <2>2. b.core = "real" /\ b.val = "real" /\ b.ser = "real"
    BY <1>2, <1>3
  <2> HIDE DEF b
  <2> QED
    BY <1>2, <2>1, <2>2 DEF GoodAdapter, AdapterResults, AdapterFits, HasAll, Truthful,
                AdapterState, AdapterAttr, Outcomes, Raised, Result
<1>4. CASE ~(~force /\ t \in Deferred) /\ ~CanBorrow(t)
  <2>1. r \in BuildAdapter(b, t, raise)
    BY <1>4 DEF InitCoreAttrs
  <2>2. AdapterFits(t, b)
    BY <1>2, <1>4 DEF AdapterFits
  <2> HIDE DEF b
  <2>3. GoodAdapter(t, b, r)
    BY <1>2, <2>1, <2>2, BuildAdapterGood
  <2> QED
    BY <1>2, <2>3 DEF GoodAdapter
<1> QED
  BY <1>1, <1>3, <1>4

\* TypeAdapter.rebuild(): a good attempt, or the adapter was complete and is left
\* alone.
LEMMA AdapterRebuildGood ==
    ASSUME Inv, NEW a \in Adapters, adapter[a] \in AdapterState, adapter[a].made,
           AdapterFits(AdaptedType[a], adapter[a]), HasAll(adapter[a]),
           NEW force \in BOOLEAN, NEW raise \in BOOLEAN,
           NEW r \in AdapterRebuild(a, force, raise)
    PROVE  \/ GoodAdapter(AdaptedType[a], adapter[a], r) /\ (adapter[a].complete => force)
           \/ r = Result(adapter[a], "none")
<1>1. AdaptedType[a] \in Names
  BY AdapterAssumption
<1>2. CASE adapter[a].complete /\ ~force
  BY <1>2 DEF AdapterRebuild
<1>3. CASE ~(adapter[a].complete /\ ~force)
  <2>1. r \in InitCoreAttrs(adapter[a], AdaptedType[a], TRUE, raise)
    BY <1>3 DEF AdapterRebuild
  <2> QED
    BY <1>1, <1>3, <2>1, InitCoreAttrsGood
<1> QED
  BY <1>2, <1>3

-----------------------------------------------------------------------------
(* The invariant.                                                          *)

AdapterInv ==
    /\ Inv
    /\ AdapterTypeOK
    /\ \A a \in Adapters : AdapterFits(AdaptedType[a], adapter[a])

\* A call may make the flag of a wrong, but then it is a forced rebuild of a that
\* failed.
TruthLost(a) ==
    Truthful(adapter[a]) /\ ~Truthful(adapter'[a]) =>
        /\ seen'.op = "rebuild" /\ seen'.adapter = a /\ seen'.force
        /\ seen'.out \in Raised \cup {"false"}

LEMMA TypeOKParts ==
    ASSUME AdapterInv, NEW a \in Adapters
    PROVE  /\ adapter[a] \in AdapterState
           /\ AdapterFits(AdaptedType[a], adapter[a])
           /\ adapter[a].made => HasAll(adapter[a])
           /\ ~adapter[a].made => adapter[a] = NotMade
BY DEF AdapterInv, AdapterTypeOK, HasAll

\* A call that leaves one made adapter in a good state keeps the invariant.
LEMMA StoreKeepsAdapterInv ==
    ASSUME AdapterInv, Inv', NEW a \in Adapters, NEW s \in AdapterState,
           s.made, HasAll(s), AdapterFits(AdaptedType[a], s),
           adapter' = [adapter EXCEPT ![a] = s], seen' \in AdapterCalls
    PROVE  AdapterInv'
<1>1. adapter \in [Adapters -> AdapterState]
  BY DEF AdapterInv, AdapterTypeOK
<1>2. adapter' \in [Adapters -> AdapterState]
  BY <1>1
<1>3. ASSUME NEW b \in Adapters
      PROVE  /\ AdapterFits(AdaptedType[b], adapter'[b])
             /\ IF adapter'[b].made THEN HasAll(adapter'[b]) ELSE adapter'[b] = NotMade
  <2>1. CASE b = a
    <3>1. adapter'[b] = s
      BY <1>1, <2>1
    <3> QED
      BY <2>1, <3>1
  <2>2. CASE b # a
    <3>1. adapter'[b] = adapter[b]
      BY <1>1, <2>2
    <3> QED
      BY <3>1, TypeOKParts
  <2> QED
    BY <2>1, <2>2
<1>4. TypeOK'
  BY DEF Inv
<1> QED
  BY <1>2, <1>3, <1>4 DEF AdapterInv, AdapterTypeOK, HasAll

\* A call that changes no adapter keeps it.
LEMMA NoAdapterKeepsInv ==
    ASSUME AdapterInv, Inv', UNCHANGED adapter, seen' \in AdapterCalls
    PROVE  AdapterInv' /\ \A a \in Adapters : TruthLost(a)
BY DEF AdapterInv, AdapterTypeOK, Inv, TruthLost

LEMMA UnchangedKeepsInv ==
    ASSUME Inv, UNCHANGED vars
    PROVE  Inv'
BY NextInv

LEMMA SeenTyped ==
    ASSUME NEW op \in {"init", "make", "rebuild", "use", "json_schema"},
           NEW a \in Adapters, NEW force \in BOOLEAN, NEW out \in Outcomes
    PROVE  Seen(op, a, force, out) \in AdapterCalls
BY DEF Seen, AdapterCalls

\* The answer of a call through a mock is one a caller can see.
LEMMA ThroughMockTyped ==
    ASSUME NEW op, NEW r, r.out \in Outcomes, NEW attr, NEW now
    PROVE  ThroughMock(op, r, attr, now) \in Outcomes
BY DEF ThroughMock, MockAnswer, Outcomes, Raised

LEMMA MakeKeepsInv ==
    ASSUME AdapterInv, NEW a \in Adapters, MakeAdapter(a)
    PROVE  AdapterInv' /\ \A b \in Adapters : TruthLost(b)
<1> DEFINE new == [NotMade EXCEPT !.made = TRUE]
<1>1. PICK r \in InitCoreAttrs(new, AdaptedType[a], FALSE, FALSE) :
        /\ seen' = Seen("make", a, FALSE, r.out)
        /\ adapter' = IF r.out \in Raised THEN adapter ELSE [adapter EXCEPT ![a] = r.state]
  BY DEF MakeAdapter
<1>2. /\ new \in AdapterState /\ new.made /\ AdapterFits(AdaptedType[a], new) /\ ~new.complete
  BY DEF NotMade, AdapterState, AdapterAttr, AdapterFits
<1>3. Inv /\ Inv'
  BY UnchangedKeepsInv DEF MakeAdapter, AdapterInv
<1> HIDE DEF new
<1>4. GoodAdapter(AdaptedType[a], new, r)
  BY <1>1, <1>2, <1>3, InitCoreAttrsGood, AdapterAssumption
<1>5. seen' \in AdapterCalls
  BY <1>1, <1>4, SeenTyped DEF GoodAdapter, AdapterResults
<1>6. CASE r.out \in Raised
  BY <1>1, <1>3, <1>5, <1>6, NoAdapterKeepsInv
<1>7. CASE r.out \notin Raised
  <2>1. adapter' = [adapter EXCEPT ![a] = r.state]
    BY <1>1, <1>7
  <2>2. /\ r.state \in AdapterState /\ r.state.made /\ AdapterFits(AdaptedType[a], r.state)
        /\ HasAll(r.state) /\ Truthful(r.state)
    BY <1>2, <1>4, <1>7 DEF GoodAdapter, AdapterResults
  <2>3. AdapterInv'
    BY <1>3, <1>5, <2>1, <2>2, StoreKeepsAdapterInv
  <2>4. ASSUME NEW b \in Adapters PROVE TruthLost(b)
    <3>1. adapter'[b] = IF b = a THEN r.state ELSE adapter[b]
      BY <2>1 DEF AdapterInv, AdapterTypeOK
    <3> QED
      BY <2>2, <3>1 DEF TruthLost
  <2> QED
    BY <2>3, <2>4
<1> QED
  BY <1>6, <1>7

\* One rebuild of an adapter, asked for by its user or by a mock of its own.
LEMMA RebuiltKeepsInv ==
    ASSUME AdapterInv, UNCHANGED vars, NEW a \in Adapters, adapter[a].made,
           NEW force \in BOOLEAN, NEW raise \in BOOLEAN,
           NEW r \in AdapterRebuild(a, force, raise),
           adapter' = [adapter EXCEPT ![a] = r.state],
           seen' \in AdapterCalls,
           force => seen'.op = "rebuild" /\ seen'.adapter = a /\ seen'.force
                    /\ seen'.out = r.out
    PROVE  AdapterInv' /\ \A b \in Adapters : TruthLost(b)
<1>1. /\ adapter[a] \in AdapterState /\ AdapterFits(AdaptedType[a], adapter[a]) /\ HasAll(adapter[a])
      /\ adapter \in [Adapters -> AdapterState]
  BY TypeOKParts DEF AdapterInv, AdapterTypeOK
<1>2. Inv /\ Inv'
  BY UnchangedKeepsInv DEF AdapterInv
<1>3. CASE GoodAdapter(AdaptedType[a], adapter[a], r) /\ (adapter[a].complete => force)
  <2>1. /\ r.state \in AdapterState /\ r.state.made /\ AdapterFits(AdaptedType[a], r.state) /\ HasAll(r.state)
        /\ ~adapter[a].complete \/ r.out \notin Raised \cup {"false"} => Truthful(r.state)
    BY <1>1, <1>3 DEF GoodAdapter, AdapterResults
  <2>2. AdapterInv'
    BY <1>2, <2>1, StoreKeepsAdapterInv
  <2>3. ASSUME NEW b \in Adapters PROVE TruthLost(b)
    <3>1. adapter'[b] = IF b = a THEN r.state ELSE adapter[b]
      BY <1>1
    <3> QED
      BY <1>3, <2>1, <3>1 DEF TruthLost
  <2> QED
    BY <2>2, <2>3
<1>4. CASE r = Result(adapter[a], "none")
  <2>1. adapter' = adapter
    BY <1>1, <1>4 DEF Result
  <2> QED
    BY <1>2, <2>1, NoAdapterKeepsInv
<1>5. \/ GoodAdapter(AdaptedType[a], adapter[a], r) /\ (adapter[a].complete => force)
      \/ r = Result(adapter[a], "none")
  BY <1>1, <1>2, AdapterRebuildGood
<1> QED
  BY <1>3, <1>4, <1>5

\* What AdapterRebuild hands back is typed.
LEMMA RebuildOutcomes ==
    ASSUME AdapterInv, NEW a \in Adapters, adapter[a].made,
           NEW force \in BOOLEAN, NEW raise \in BOOLEAN,
           NEW r \in AdapterRebuild(a, force, raise)
    PROVE  r.out \in Outcomes
<1>1. /\ adapter[a] \in AdapterState /\ AdapterFits(AdaptedType[a], adapter[a]) /\ HasAll(adapter[a])
  BY TypeOKParts
<1>2. GoodAdapter(AdaptedType[a], adapter[a], r) \/ r = Result(adapter[a], "none")
  BY <1>1, AdapterRebuildGood DEF AdapterInv
<1> QED
  BY <1>2 DEF GoodAdapter, AdapterResults, Result, Outcomes

LEMMA RebuildAdapterKeepsInv ==
    ASSUME AdapterInv, NEW a \in Adapters, NEW force \in BOOLEAN, NEW raise \in BOOLEAN,
           RebuildAdapter(a, force, raise)
    PROVE  AdapterInv' /\ \A b \in Adapters : TruthLost(b)
<1>1. PICK r \in AdapterRebuild(a, force, raise) :
        /\ adapter' = [adapter EXCEPT ![a] = r.state]
        /\ seen' = Seen("rebuild", a, force, r.out)
  BY DEF RebuildAdapter
<1>2. adapter[a].made /\ UNCHANGED vars
  BY DEF RebuildAdapter
<1>3. seen' \in AdapterCalls
  BY <1>1, <1>2, RebuildOutcomes, SeenTyped
<1>4. seen'.op = "rebuild" /\ seen'.adapter = a /\ seen'.force = force /\ seen'.out = r.out
  BY <1>1 DEF Seen
<1> QED
  BY <1>1, <1>2, <1>3, <1>4, RebuiltKeepsInv

LEMMA ThroughOwnMockKeepsInv ==
    ASSUME AdapterInv, NEW op \in {"use", "json_schema"}, NEW a \in Adapters,
           NEW attr, adapter[a].made, ThroughOwnMock(op, a, attr)
    PROVE  AdapterInv' /\ \A b \in Adapters : TruthLost(b)
<1>1. PICK r \in AdapterRebuild(a, FALSE, FALSE) :
        /\ adapter' = [adapter EXCEPT ![a] = r.state]
        /\ seen' = Seen(op, a, FALSE, ThroughMock(op, r, attr, r.state[attr]))
  BY DEF ThroughOwnMock
<1>2. UNCHANGED vars
  BY DEF ThroughOwnMock
<1>3. ThroughMock(op, r, attr, r.state[attr]) \in Outcomes
  BY <1>1, RebuildOutcomes, ThroughMockTyped
<1>4. seen' \in AdapterCalls
  BY <1>1, <1>3, SeenTyped
<1> QED
  BY <1>1, <1>2, <1>4, RebuiltKeepsInv

\* The mock of the class rebuilds the class, as in ModelBuild.
LEMMA ThroughClassMockKeepsInv ==
    ASSUME AdapterInv, NEW op \in {"use", "json_schema"}, NEW a \in Adapters,
           NEW attr, AdaptedType[a] \in Classes, ThroughClassMock(op, a, attr)
    PROVE  AdapterInv' /\ \A b \in Adapters : TruthLost(b)
<1> DEFINE h == AdaptedType[a]
<1>1. PICK r \in ModelRebuild(h, FALSE, FALSE) :
        /\ cls' = [cls EXCEPT ![h] = r.state]
        /\ seen' = Seen(op, a, FALSE, ThroughMock(op, r, attr, "class_mock"))
  BY DEF ThroughClassMock
<1>2. UNCHANGED <<defined, bound, last, adapter>>
  BY DEF ThroughClassMock
<1>3. Inv /\ TypeOK /\ h \in Classes /\ cls[h] \in ClassState /\ Together(cls[h])
  BY DEF AdapterInv, Inv, TypeOK, BuiltTogether
<1> HIDE DEF h
<1>4. r \in Results /\ Together(r.state)
  BY <1>1, <1>3, ModelRebuildGood
<1>5. Inv'
  <2>1. /\ defined' \subseteq Classes /\ bound' \subseteq defined' \cup Types
        /\ last' \in Calls /\ last'.out # "loops"
    BY <1>2, <1>3 DEF Inv, TypeOK, MockRebuildEnds
  <2> QED
    BY <1>1, <1>3, <1>4, <2>1, StoreKeepsInv
<1>6. ThroughMock(op, r, attr, "class_mock") \in Outcomes
  BY <1>4, ThroughMockTyped DEF Results
<1>7. seen' \in AdapterCalls
  BY <1>1, <1>6, SeenTyped
<1> QED
  BY <1>2, <1>5, <1>7, NoAdapterKeepsInv

LEMMA AdapterLookUpKeepsInv ==
    ASSUME AdapterInv, NEW op \in {"use", "json_schema"}, NEW a \in Adapters,
           NEW attr \in {"core", "val", "ser"}, AdapterLookUp(op, a, attr)
    PROVE  AdapterInv' /\ \A b \in Adapters : TruthLost(b)
<1>1. adapter[a].made
  BY DEF AdapterLookUp
<1>2. CASE seen' = Seen(op, a, FALSE, "ok") /\ UNCHANGED <<vars, adapter>>
  <2>1. seen' \in AdapterCalls
    BY <1>2, SeenTyped DEF Outcomes
  <2>2. Inv'
    BY <1>2, UnchangedKeepsInv DEF AdapterInv
  <2> QED
    BY <1>2, <2>1, <2>2, NoAdapterKeepsInv
<1>3. CASE ThroughOwnMock(op, a, attr)
  BY <1>1, <1>3, ThroughOwnMockKeepsInv
<1>4. CASE ThroughClassMock(op, a, attr)
  <2>1. adapter[a][attr] = "class_mock"
    BY <1>4 DEF ThroughClassMock
  <2>2. AdapterFits(AdaptedType[a], adapter[a])
    BY TypeOKParts
  <2>3. AdaptedType[a] \in Classes
    BY <2>1, <2>2 DEF AdapterFits
  <2> QED
    BY <1>4, <2>3, ThroughClassMockKeepsInv
<1> QED
  BY <1>2, <1>3, <1>4 DEF AdapterLookUp

LEMMA AdapterInitInv == AdapterInit => AdapterInv
<1> SUFFICES ASSUME AdapterInit PROVE AdapterInv
  OBVIOUS
<1>1. Inv
  BY InitInv DEF AdapterInit
<1>2. seen \in AdapterCalls
  BY SeenTyped DEF AdapterInit, Outcomes
<1>3. NotMade \in AdapterState /\ ~NotMade.made
      /\ \A a \in Adapters : AdapterFits(AdaptedType[a], NotMade)
  BY DEF NotMade, AdapterState, AdapterAttr, AdapterFits
<1> QED
  BY <1>1, <1>2, <1>3 DEF AdapterInit, AdapterInv, AdapterTypeOK, Inv

LEMMA AdapterNextInv ==
    ASSUME AdapterInv, [AdapterNext]_<<vars, adapterVars>>
    PROVE  AdapterInv' /\ \A b \in Adapters : TruthLost(b)
<1>1. CASE ClassStep \/ UNCHANGED <<vars, adapterVars>>
  <2>1. Inv'
    BY <1>1, NextInv DEF ClassStep, AdapterInv
  <2>2. UNCHANGED adapter /\ seen' \in AdapterCalls
    BY <1>1 DEF ClassStep, adapterVars, AdapterInv, AdapterTypeOK
  <2> QED
    BY <2>1, <2>2, NoAdapterKeepsInv
<1>2. ASSUME NEW a \in Adapters, MakeAdapter(a)
      PROVE  AdapterInv' /\ \A b \in Adapters : TruthLost(b)
  BY <1>2, MakeKeepsInv
<1>3. ASSUME NEW a \in Adapters, NEW force \in AdapterForces, NEW raise \in BOOLEAN,
             RebuildAdapter(a, force, raise)
      PROVE  AdapterInv' /\ \A b \in Adapters : TruthLost(b)
  BY <1>3, AdapterAssumption, RebuildAdapterKeepsInv
<1>4. ASSUME NEW a \in Adapters, NEW attr \in {"val", "ser"}, UseAdapter(a, attr)
      PROVE  AdapterInv' /\ \A b \in Adapters : TruthLost(b)
  BY <1>4, AdapterLookUpKeepsInv DEF UseAdapter
<1>5. ASSUME NEW a \in Adapters, AdapterJsonSchema(a)
      PROVE  AdapterInv' /\ \A b \in Adapters : TruthLost(b)
  BY <1>5, AdapterLookUpKeepsInv DEF AdapterJsonSchema
<1> QED
  BY <1>1, <1>2, <1>3, <1>4, <1>5 DEF AdapterNext

-----------------------------------------------------------------------------
(* The theorems.                                                           *)

\* The invariant holds between any two calls of adapters and classes.
THEOREM AdapterInvHolds == AdapterSpec => []AdapterInv
<1>1. AdapterInit => AdapterInv
  BY AdapterInitInv
<1>2. AdapterInv /\ [AdapterNext]_<<vars, adapterVars>> => AdapterInv'
  BY AdapterNextInv
<1> QED
  BY <1>1, <1>2, PTL DEF AdapterSpec

\* An adapter has its three attributes once TypeAdapter.__init__ returned, and
\* none before; the calls of adapters keep the classes well typed.
THEOREM AdapterTypeCorrect == AdapterSpec => []AdapterTypeOK
<1>1. AdapterInv => AdapterTypeOK
  BY DEF AdapterInv
<1> QED
  BY <1>1, AdapterInvHolds, PTL

\* The calls of adapters, which rebuild classes through borrowed mocks, keep the
\* attributes of every class together.
THEOREM AdaptersKeepClassesTogether == AdapterSpec => []BuiltTogether
<1>1. AdapterInv => BuiltTogether
  BY DEF AdapterInv, Inv
<1> QED
  BY <1>1, AdapterInvHolds, PTL

\* TypeAdapter.pydantic_complete becomes wrong only in a forced rebuild of that
\* adapter that failed (type_adapter.py, rebuild and _init_core_attrs).
THEOREM AdapterTruthKept == AdapterSpec => TruthLostOnlyToFailedForce
<1>1. AdapterInv /\ [AdapterNext]_<<vars, adapterVars>> =>
        [\A a \in Adapters : Truthful(adapter[a]) /\ ~Truthful(adapter'[a]) =>
            /\ seen'.op = "rebuild" /\ seen'.adapter = a /\ seen'.force
            /\ seen'.out \in Raised \cup {"false"}]_<<vars, adapterVars>>
  BY AdapterNextInv DEF TruthLost
<1> QED
  BY <1>1, AdapterInvHolds, PTL DEF AdapterSpec, TruthLostOnlyToFailedForce

-----------------------------------------------------------------------------
(* Dataclasses. *)

\* How the parts of the state of dataclass c hang together.
DataclassFits(c, s) ==
    /\ s.complete <=> s.val = "real"
    /\ s.val = s.ser
    /\ s.complete => s.core = "real" /\ s.pending \subseteq {c}

\* complete_dataclass(): well typed, its parts agree, the answer tells whether
\* the class is complete now, and only an exception leaves it without a validator.
GoodDataclass(c, r) ==
    /\ r \in Results
    /\ DataclassFits(c, r.state)
    /\ r.out \in Raised \cup {"true", "false"}
    /\ r.out = "true" <=> r.state.complete
    /\ r.state.val = "absent" => r.out \in Raised

\* What remains unresolved of the fields is named by an annotation.
LEMMA CollectedAreNames ==
    ASSUME NEW c \in Classes
    PROVE  /\ CollectFields(c) \subseteq Names
           /\ CollectFields(c) \cap bound = {}
<1>1. \A a \in Ancestors(c) : OwnRefs[a] \subseteq Names
  BY AncestorsAreClasses, ConstantsAssumption
<1> QED
  BY <1>1 DEF CollectFields, Unresolved

LEMMA CompleteDataclassGood ==
    ASSUME NEW c \in Classes, NEW s, Fresh(s), NEW raise \in BOOLEAN,
           NEW r \in CompleteDataclass(c, s, raise)
    PROVE  GoodDataclass(c, r)
<1> DEFINE t == [s EXCEPT !.pending = CollectFields(c)]
<1>1. /\ t \in ClassState /\ ~t.complete /\ t.val # "real" /\ t.val = t.ser
      /\ t.pending = CollectFields(c)
  BY CollectedAreNames DEF Fresh, ClassState
<1>2. DataclassErrors(c, t) \subseteq {"undefined", "unsupported"}
  BY DEF DataclassErrors, GenerationErrors
<1>3. CASE DataclassErrors(c, t) # {}
  <2>1. PICK e \in DataclassErrors(c, t) : r = GenerationFailed(t, e, raise)
    BY <1>3 DEF CompleteDataclass
  <2> HIDE DEF t
  <2>2. e \in {"undefined", "unsupported"}
    BY <1>2, <2>1
  <2> QED
    BY <1>1, <2>1, <2>2 DEF GoodDataclass, DataclassFits, Results, Raised, Outcomes,
                            ClassState, Attr, Result, GenerationFailed, Mocked
<1>4. CASE DataclassErrors(c, t) = {}
  <2>1. \/ r = Result(Mocked(t), "false")
        \/ r = Result([t EXCEPT !.core = "real"], "unbuildable")
        \/ r = Result(Built(t, FALSE), "true")
    BY <1>4 DEF CompleteDataclass
  <2>2. t.pending \subseteq {c}
    <3>1. Unresolved(t.pending, c, c) = {}
      BY <1>4 DEF DataclassErrors
    <3> QED
      BY <1>1, <3>1, CollectedAreNames DEF Unresolved
  <2> HIDE DEF t
  <2>3. CASE r = Result(Mocked(t), "false")
    BY <1>1, <2>3 DEF GoodDataclass, DataclassFits, Results, Raised, Outcomes,
                      ClassState, Attr, Result, Mocked
  <2>4. CASE r = Result([t EXCEPT !.core = "real"], "unbuildable")
    BY <1>1, <2>4 DEF GoodDataclass, DataclassFits, Results, Raised, Outcomes,
                      ClassState, Attr, Result
  <2>5. CASE r = Result(Built(t, FALSE), "true")
    <3>1. /\ r.state \in ClassState /\ r.out = "true" /\ r \in Results
          /\ r.state.complete /\ r.state.pending = t.pending
          /\ r.state.core = "real" /\ r.state.val = "real" /\ r.state.ser = "real"
      BY <1>1, <2>5 DEF Results, Outcomes, ClassState, Attr, Result, Built
    <3> QED
      BY <2>2, <3>1 DEF GoodDataclass, DataclassFits
  <2> QED
    BY <2>1, <2>3, <2>4, <2>5
<1> QED
  BY <1>3, <1>4

\* A class whose attributes the loop of rebuild_dataclass() deleted is fresh.
LEMMA DeletedFresh ==
    ASSUME NEW s \in ClassState
    PROVE  Fresh(Deleted(s))
BY DEF Fresh, Deleted, ClassState, Attr

\* rebuild_dataclass(): a good build, or the class was complete and is left alone.
LEMMA RebuildDataclassGood ==
    ASSUME NEW c \in Classes, cls[c] \in ClassState, DataclassFits(c, cls[c]),
           NEW force \in BOOLEAN, NEW raise \in BOOLEAN,
           NEW r \in RebuildDataclass(c, force, raise)
    PROVE  /\ r \in Results
           /\ DataclassFits(c, r.state)
           /\ r.out \in Raised \cup {"true", "false", "none"}
           /\ ~RebuildNeeded(c, force) => r.state = cls[c]
           /\ RebuildNeeded(c, force) => GoodDataclass(c, r)
<1>1. CASE RebuildNeeded(c, force)
  <2>1. r \in CompleteDataclass(c, Deleted(cls[c]), raise)
    BY <1>1 DEF RebuildDataclass
  <2>2. GoodDataclass(c, r)
    BY <2>1, DeletedFresh, CompleteDataclassGood
  <2> QED
    BY <1>1, <2>2 DEF GoodDataclass
<1>2. CASE ~RebuildNeeded(c, force)
  <2>1. r = Result(cls[c], "none")
    BY <1>2 DEF RebuildDataclass
  <2> QED
    BY <1>2, <2>1 DEF Result, Results, Outcomes
<1> QED
  BY <1>1, <1>2

-----------------------------------------------------------------------------
(* The invariant.  It says of every class, defined or not, what             *)
(* DataclassTogether says of the defined ones, and adds the types.          *)

Signatures == {"none", "stdlib", "pydantic"}

DataclassInv ==
    /\ TypeOK
    /\ signature \in [Classes -> Signatures]
    /\ last.out # "loops"
    /\ \A c \in Classes : /\ DataclassFits(c, cls[c])
                          /\ cls[c].complete => signature[c] # "none"

\* What a call leaves on one class and tells the caller keeps the invariant, if
\* it leaves a signature with a complete class.
LEMMA StoreKeepsDataclassInv ==
    ASSUME DataclassInv, NEW h \in Classes, NEW s \in ClassState, DataclassFits(h, s),
           NEW sig \in Signatures, s.complete => sig # "none",
           defined' \subseteq Classes, bound' \subseteq defined' \cup Types,
           cls' = [cls EXCEPT ![h] = s],
           signature' = [signature EXCEPT ![h] = sig],
           last' \in Calls, last'.out # "loops"
    PROVE  DataclassInv'
<1>1. cls \in [Classes -> ClassState] /\ signature \in [Classes -> Signatures]
  BY DEF DataclassInv, TypeOK
<1>2. TypeOK'
  BY <1>1 DEF TypeOK
<1>3. signature' \in [Classes -> Signatures]
  BY <1>1
<1>4. ASSUME NEW c \in Classes
      PROVE  DataclassFits(c, cls'[c]) /\ (cls'[c].complete => signature'[c] # "none")
  <2>1. CASE c = h
    <3>1. cls'[c] = s /\ signature'[c] = sig
      BY <1>1, <2>1
    <3> QED
      BY <2>1, <3>1
  <2>2. CASE c # h
    <3>1. cls'[c] = cls[c] /\ signature'[c] = signature[c]
      BY <1>1, <2>2
    <3> QED
      BY <3>1 DEF DataclassInv
  <2> QED
    BY <2>1, <2>2
<1> QED
  BY <1>2, <1>3, <1>4 DEF DataclassInv

\* A call that changes no class keeps it.
LEMMA NoClassKeepsDataclassInv ==
    ASSUME DataclassInv, UNCHANGED <<defined, cls, signature>>,
           bound' \subseteq defined \cup Types, last' \in Calls, last'.out # "loops"
    PROVE  DataclassInv'
BY DEF DataclassInv, TypeOK

LEMMA DecorateKeepsInv ==
    ASSUME DataclassInv, NEW c \in Classes, Decorate(c)
    PROVE  DataclassInv'
<1> DEFINE d == [Unbuilt EXCEPT !.pending = CollectFields(c)]
           results == IF c \in Deferred THEN {Result(Mocked(d), "false")}
                      ELSE CompleteDataclass(c, Unbuilt, FALSE)
           sig == IF c \in Deferred THEN "none" ELSE "stdlib"
<1>1. PICK r \in results :
        /\ last' = Call("define", c, FALSE, c, r.out)
        /\ IF r.out \in Raised
           THEN UNCHANGED <<defined, bound, cls, signature>>
           ELSE /\ defined' = defined \cup {c}
                /\ bound' = bound \cup {c}
                /\ cls' = [cls EXCEPT ![c] = r.state]
                /\ signature' = [signature EXCEPT ![c] = sig]
  BY DEF Decorate
<1>2. GoodDataclass(c, r) /\ (r.state.complete => sig # "none")
  <2>1. CASE c \in Deferred
    <3>1. r = Result(Mocked(d), "false")
      BY <2>1
    <3>2. /\ d \in ClassState /\ ~d.complete
      BY CollectedAreNames DEF Unbuilt, ClassState, Attr
    <3> HIDE DEF d
    <3> QED
      BY <3>1, <3>2 DEF GoodDataclass, DataclassFits, Results, Raised, Outcomes,
                        ClassState, Attr, Result, Mocked
  <2>2. CASE c \notin Deferred
    <3>1. r \in CompleteDataclass(c, Unbuilt, FALSE) /\ sig # "none"
      BY <2>2
    <3>2. Fresh(Unbuilt)
      BY DEF Fresh, Unbuilt, ClassState, Attr
    <3> QED
      BY <3>1, <3>2, CompleteDataclassGood
  <2> QED
    BY <2>1, <2>2
<1>3. last' \in Calls /\ last'.out # "loops"
  BY <1>1, <1>2 DEF GoodDataclass, Results, Call, Calls, Outcomes, Raised
<1>4. CASE r.out \in Raised
  BY <1>1, <1>3, <1>4, NoClassKeepsDataclassInv DEF DataclassInv, TypeOK
<1>5. CASE r.out \notin Raised
  <2>1. defined' \subseteq Classes /\ bound' \subseteq defined' \cup Types
    BY <1>1, <1>5 DEF DataclassInv, TypeOK
  <2>2. r.state \in ClassState /\ DataclassFits(c, r.state) /\ sig \in Signatures
    BY <1>2 DEF GoodDataclass, Results, Signatures
  <2>3. cls' = [cls EXCEPT ![c] = r.state] /\ signature' = [signature EXCEPT ![c] = sig]
    BY <1>1, <1>5
  <2> HIDE DEF sig
  <2> QED
    BY <1>2, <1>3, <2>1, <2>2, <2>3, StoreKeepsDataclassInv
<1> QED
  BY <1>4, <1>5

\* A rebuild that is needed leaves a signature, whatever it ends with.
LEMMA ResignedFits ==
    ASSUME DataclassInv, NEW c \in Classes, NEW force \in BOOLEAN,
           signature' = Resigned(c, force)
    PROVE  \E sig \in Signatures :
              /\ signature' = [signature EXCEPT ![c] = sig]
              /\ cls[c].complete \/ RebuildNeeded(c, force) => sig # "none"
<1>1. CASE RebuildNeeded(c, force)
  <2>1. "pydantic" \in Signatures /\ "pydantic" # "none"
    BY DEF Signatures
  <2> QED
    BY <1>1, <2>1 DEF Resigned
<1>2. CASE ~RebuildNeeded(c, force)
  <2>1. signature \in [Classes -> Signatures] /\ (cls[c].complete => signature[c] # "none")
    BY DEF DataclassInv
  <2>2. signature[c] \in Signatures /\ signature' = [signature EXCEPT ![c] = signature[c]]
    BY <1>2, <2>1 DEF Resigned
  <2> QED
    BY <1>2, <2>1, <2>2
<1> QED
  BY <1>1, <1>2

\* What any rebuild of h leaves behind.
LEMMA RebuildKeepsDataclassInv ==
    ASSUME DataclassInv, NEW h \in Classes, NEW force \in BOOLEAN, NEW raise \in BOOLEAN,
           NEW r \in RebuildDataclass(h, force, raise),
           cls' = [cls EXCEPT ![h] = r.state], signature' = Resigned(h, force),
           UNCHANGED <<defined, bound>>, last' \in Calls, last'.out # "loops"
    PROVE  DataclassInv'
<1>1. cls[h] \in ClassState /\ DataclassFits(h, cls[h])
  BY DEF DataclassInv, TypeOK
<1>2. /\ r.state \in ClassState /\ DataclassFits(h, r.state)
      /\ ~RebuildNeeded(h, force) => r.state = cls[h]
  BY <1>1, RebuildDataclassGood DEF Results
<1>3. PICK sig \in Signatures :
        /\ signature' = [signature EXCEPT ![h] = sig]
        /\ cls[h].complete \/ RebuildNeeded(h, force) => sig # "none"
  BY ResignedFits
<1>4. r.state.complete => sig # "none"
  BY <1>2, <1>3 DEF RebuildNeeded
<1>5. defined' \subseteq Classes /\ bound' \subseteq defined' \cup Types
  BY DEF DataclassInv, TypeOK
<1> QED
  BY <1>2, <1>3, <1>4, <1>5, StoreKeepsDataclassInv

LEMMA CallRebuildKeepsInv ==
    ASSUME DataclassInv, NEW c \in Classes, NEW force \in BOOLEAN, NEW raise \in BOOLEAN,
           CallRebuild(c, force, raise)
    PROVE  DataclassInv'
<1>1. PICK r \in RebuildDataclass(c, force, raise) :
        /\ cls' = [cls EXCEPT ![c] = r.state]
        /\ last' = Call("rebuild", c, force, c, r.out)
  BY DEF CallRebuild
<1>2. r.out \in Raised \cup {"true", "false", "none"}
  BY RebuildDataclassGood DEF DataclassInv, TypeOK
<1>3. last' \in Calls /\ last'.out # "loops"
  BY <1>1, <1>2 DEF Call, Calls, Outcomes, Raised
<1> QED
  BY <1>1, <1>3, RebuildKeepsDataclassInv DEF CallRebuild

\* A mock is found on a dataclass that is not complete, so its use rebuilds the
\* class, and finds the validator and the serializer in place if that succeeds.
LEMMA MockRebuildGood ==
    ASSUME DataclassInv, NEW h \in Classes, NEW attr \in {"val", "ser"},
           cls[h][attr] = "mock", NEW r \in MockRebuild(h)
    PROVE  /\ cls[h].val = "mock"
           /\ GoodDataclass(h, r)
           /\ MockAnswer(r, attr) \in Outcomes \ {"loops"}
           /\ r.out \in Raised => MockAnswer(r, attr) = r.out
<1>1. cls[h] \in ClassState /\ DataclassFits(h, cls[h])
  BY DEF DataclassInv, TypeOK
<1>2. cls[h].val = "mock"
  BY <1>1 DEF DataclassFits
<1>3. RebuildNeeded(h, FALSE)
  BY <1>1, <1>2 DEF DataclassFits, RebuildNeeded
<1>4. GoodDataclass(h, r)
  BY <1>1, <1>3, RebuildDataclassGood DEF MockRebuild
<1>5. r.out = "true" => r.state[attr] = "real"
  BY <1>4 DEF GoodDataclass, DataclassFits
<1> QED
  BY <1>2, <1>4, <1>5 DEF GoodDataclass, MockAnswer, Raised, Outcomes

\* What a use of c through a mock that h has finds and does.
ThroughMockOf(c, h, attr) ==
    /\ h \in Nearest(c, attr)
    /\ cls[h][attr] = "mock"
    /\ \E r \in MockRebuild(h) :
          /\ cls' = [cls EXCEPT ![h] = r.state]
          /\ last' = Call("use", c, FALSE, h, MockAnswer(r, attr))
    /\ signature' = Resigned(h, FALSE)

\* A use goes through a mock, or leaves everything but `last` as it was.
LEMMA UseDataclassCases ==
    ASSUME NEW c \in Classes, NEW attr \in {"val", "ser"}, UseDataclass(c, attr)
    PROVE  /\ UNCHANGED <<defined, bound>>
           /\ \/ \E h \in Classes : ThroughMockOf(c, h, attr)
              \/ /\ UNCHANGED <<cls, signature>>
                 /\ last' \in Calls /\ last'.out # "loops"
<1>1. UNCHANGED <<defined, bound>>
  BY DEF UseDataclass
<1>2. Nearest(c, attr) \subseteq Classes
  BY DEF Nearest
<1>3. CASE Nearest(c, attr) = {} /\ UNCHANGED <<cls, signature>>
           /\ last' = Call("use", c, FALSE, BaseModel, "assertion")
  BY <1>1, <1>3 DEF Call, Calls, Outcomes
<1>4. ASSUME NEW h \in Nearest(c, attr), last' = Call("use", c, FALSE, h, "ok"),
             UNCHANGED <<cls, signature>>
      PROVE  last' \in Calls /\ last'.out # "loops"
  BY <1>2, <1>4 DEF Call, Calls, Outcomes
<1> QED
  BY <1>1, <1>2, <1>3, <1>4 DEF UseDataclass, ThroughMockOf

LEMMA UseDataclassKeepsInv ==
    ASSUME DataclassInv, NEW c \in Classes, NEW attr \in {"val", "ser"},
           UseDataclass(c, attr)
    PROVE  DataclassInv'
<1>1. UNCHANGED <<defined, bound>>
  BY UseDataclassCases
<1>2. ASSUME NEW h \in Classes, ThroughMockOf(c, h, attr) PROVE DataclassInv'
  <2>1. PICK r \in MockRebuild(h) :
          /\ cls' = [cls EXCEPT ![h] = r.state]
          /\ last' = Call("use", c, FALSE, h, MockAnswer(r, attr))
    BY <1>2 DEF ThroughMockOf
  <2>2. MockAnswer(r, attr) \in Outcomes \ {"loops"}
    BY <1>2, MockRebuildGood DEF ThroughMockOf
  <2>3. last' \in Calls /\ last'.out # "loops"
    BY <2>1, <2>2 DEF Call, Calls
  <2>4. r \in RebuildDataclass(h, FALSE, FALSE) /\ signature' = Resigned(h, FALSE)
    BY <1>2 DEF MockRebuild, ThroughMockOf
  <2> QED
    BY <1>1, <2>1, <2>3, <2>4, RebuildKeepsDataclassInv
<1>3. CASE UNCHANGED <<cls, signature>> /\ last' \in Calls /\ last'.out # "loops"
  BY <1>1, <1>3, NoClassKeepsDataclassInv DEF DataclassInv, TypeOK
<1> QED
  BY <1>2, <1>3, UseDataclassCases

LEMMA DataclassInitInv == DataclassInit => DataclassInv
<1> SUFFICES ASSUME DataclassInit PROVE DataclassInv
  OBVIOUS
<1>1. Unbuilt \in ClassState /\ ~Unbuilt.complete
  BY DEF Unbuilt, ClassState, Attr
<1>2. \A c \in Classes : DataclassFits(c, Unbuilt)
  BY DEF Unbuilt, DataclassFits
<1>3. last \in Calls /\ last.out # "loops"
  BY DEF DataclassInit, Init, Call, Calls, Outcomes
<1> QED
  BY <1>1, <1>2, <1>3 DEF DataclassInit, Init, DataclassInv, TypeOK, Signatures

LEMMA DataclassNextInv == DataclassInv /\ [DataclassNext]_dataclassVars => DataclassInv'
<1> SUFFICES ASSUME DataclassInv, [DataclassNext]_dataclassVars PROVE DataclassInv'
  OBVIOUS
<1>1. ASSUME NEW c \in Classes, Decorate(c) PROVE DataclassInv'
  BY <1>1, DecorateKeepsInv
<1>2. ASSUME NEW c \in Classes, NEW force \in Forces, NEW raise \in BOOLEAN,
             CallRebuild(c, force, raise)
      PROVE  DataclassInv'
  BY <1>2, ConstantsAssumption, CallRebuildKeepsInv
<1>3. ASSUME NEW c \in Classes, NEW attr \in {"val", "ser"}, UseDataclass(c, attr)
      PROVE  DataclassInv'
  BY <1>3, UseDataclassKeepsInv
<1>4. ASSUME NEW n \in Names, Bind(n) \/ Unbind(n), UNCHANGED signature
      PROVE  DataclassInv'
  <2>1. last' = Call("namespace", BaseModel, FALSE, BaseModel, "ok")
    BY <1>4 DEF Bind, Unbind
  <2>2. last' \in Calls /\ last'.out # "loops"
    BY <2>1 DEF Call, Calls, Outcomes
  <2>3. UNCHANGED <<defined, cls>> /\ bound' \subseteq defined \cup Types
    BY <1>4 DEF Bind, Unbind, DataclassInv, TypeOK
  <2> QED
    BY <1>4, <2>2, <2>3, NoClassKeepsDataclassInv
<1>5. CASE UNCHANGED dataclassVars
  BY <1>5 DEF dataclassVars, vars, DataclassInv, TypeOK
<1> QED
  BY <1>1, <1>2, <1>3, <1>4, <1>5 DEF DataclassNext

\* The inductive invariant holds in every reachable state.
THEOREM DataclassInvHolds == DataclassSpec => []DataclassInv
<1>1. DataclassInit => DataclassInv
  BY DataclassInitInv
<1>2. DataclassInv /\ [DataclassNext]_dataclassVars => DataclassInv'
  BY DataclassNextInv
<1> QED
  BY <1>1, <1>2, PTL DEF DataclassSpec

\* Between two calls a dataclass is complete exactly when it has its own
\* validator, and then its serializer, core schema, evaluated fields and signature
\* too; and no mock answers with a mock (complete_dataclass, rebuild_dataclass,
\* set_dataclass_mocks).
THEOREM DataclassesBuiltTogether == DataclassSpec => []DataclassTogether
<1>1. DataclassInv => DataclassTogether
  BY DEF DataclassInv, DataclassTogether, DataclassFits, TypeOK
<1> QED
  BY <1>1, DataclassInvHolds, PTL

-----------------------------------------------------------------------------
(* What a step may never do.                                               *)

LostToRaising(c) ==
    cls[c].val # "absent" /\ cls'[c].val = "absent" =>
        /\ last'.out \in Raised
        /\ \/ last'.op = "rebuild" /\ last'.cls = c
           \/ last'.op = "use" /\ last'.holder = c /\ cls[c].val = "mock"

LEMMA CallRebuildLoses ==
    ASSUME DataclassInv, NEW b \in Classes, NEW force \in BOOLEAN, NEW raise \in BOOLEAN,
           CallRebuild(b, force, raise), NEW c \in Classes
    PROVE  LostToRaising(c)
<1>1. PICK r \in RebuildDataclass(b, force, raise) :
        /\ cls' = [cls EXCEPT ![b] = r.state]
        /\ last' = Call("rebuild", b, force, b, r.out)
  BY DEF CallRebuild
<1>2. cls \in [Classes -> ClassState]
  BY DEF DataclassInv, TypeOK
<1>3. CASE c # b
  <2>1. cls'[c] = cls[c]
    BY <1>1, <1>2, <1>3
  <2> QED
    BY <2>1 DEF LostToRaising
<1>4. CASE c = b
  <2>1. cls'[c] = r.state /\ last'.op = "rebuild" /\ last'.cls = c /\ last'.out = r.out
    BY <1>1, <1>2, <1>4 DEF Call
  <2>2. r.state = cls[b] \/ GoodDataclass(b, r)
    BY RebuildDataclassGood DEF DataclassInv, TypeOK
  <2> QED
    BY <1>4, <2>1, <2>2 DEF LostToRaising, GoodDataclass
<1> QED
  BY <1>3, <1>4

LEMMA UseDataclassLoses ==
    ASSUME DataclassInv, NEW b \in Classes, NEW h \in Classes, NEW attr \in {"val", "ser"},
           ThroughMockOf(b, h, attr), NEW c \in Classes
    PROVE  LostToRaising(c)
<1>1. PICK r \in MockRebuild(h) :
        /\ cls' = [cls EXCEPT ![h] = r.state]
        /\ last' = Call("use", b, FALSE, h, MockAnswer(r, attr))
  BY DEF ThroughMockOf
<1>2. cls \in [Classes -> ClassState]
  BY DEF DataclassInv, TypeOK
<1>3. CASE c # h
  <2>1. cls'[c] = cls[c]
    BY <1>1, <1>2, <1>3
  <2> QED
    BY <2>1 DEF LostToRaising
<1>4. CASE c = h
  <2>1. /\ cls'[c] = r.state /\ last'.op = "use" /\ last'.holder = c
        /\ last'.out = MockAnswer(r, attr)
    BY <1>1, <1>2, <1>4 DEF Call
  <2>2. /\ cls[h].val = "mock" /\ GoodDataclass(h, r)
        /\ r.out \in Raised => MockAnswer(r, attr) = r.out
    BY MockRebuildGood DEF ThroughMockOf
  <2> QED
    BY <1>4, <2>1, <2>2 DEF LostToRaising, GoodDataclass
<1> QED
  BY <1>3, <1>4

LEMMA DataclassNextLoses ==
    ASSUME DataclassInv, [DataclassNext]_dataclassVars, NEW c \in defined
    PROVE  LostToRaising(c)
<1>0. c \in Classes
  BY DEF DataclassInv, TypeOK
<1>1. ASSUME NEW b \in Classes, Decorate(b) PROVE LostToRaising(c)
  <2>1. cls'[c] = cls[c]
    BY <1>0, <1>1 DEF Decorate, DataclassInv, TypeOK
  <2> QED
    BY <2>1 DEF LostToRaising
<1>2. ASSUME NEW b \in Classes, NEW force \in Forces, NEW raise \in BOOLEAN,
             CallRebuild(b, force, raise)
      PROVE  LostToRaising(c)
  BY <1>0, <1>2, ConstantsAssumption, CallRebuildLoses
<1>3. ASSUME NEW b \in Classes, NEW attr \in {"val", "ser"}, UseDataclass(b, attr)
      PROVE  LostToRaising(c)
  <2>1. CASE UNCHANGED cls
    BY <2>1 DEF LostToRaising
  <2>2. ASSUME NEW h \in Classes, ThroughMockOf(b, h, attr) PROVE LostToRaising(c)
    BY <1>0, <2>2, UseDataclassLoses
  <2> QED
    BY <1>3, <2>1, <2>2, UseDataclassCases
<1>4. CASE UNCHANGED cls
  BY <1>4 DEF LostToRaising
<1> QED
  BY <1>1, <1>2, <1>3, <1>4 DEF DataclassNext, Bind, Unbind, dataclassVars, vars

\* Only a rebuild of a dataclass, or a use of its mock, that raised leaves it
\* without a validator of its own (rebuild_dataclass, dataclasses.py:358-366).
THEOREM DataclassValidatorKept == DataclassSpec => LostOnlyToRaisingBuild
<1>1. DataclassInv /\ [DataclassNext]_dataclassVars =>
        [\A c \in defined : cls[c].val # "absent" /\ cls'[c].val = "absent" =>
            /\ last'.out \in Raised
            /\ \/ last'.op = "rebuild" /\ last'.cls = c
               \/ last'.op = "use" /\ last'.holder = c /\ cls[c].val = "mock"]_dataclassVars
  BY DataclassNextLoses DEF LostToRaising
<1> QED
  BY <1>1, DataclassInvHolds, PTL DEF DataclassSpec, LostOnlyToRaisingBuild
=============================================================================
