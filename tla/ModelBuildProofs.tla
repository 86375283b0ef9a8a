-------------------------- MODULE ModelBuildProofs --------------------------
(***************************************************************************)
(* What ModelBuild promises for every program: any classes, any hierarchy, *)
(* any annotations, any sequence of calls.                                 *)
(***************************************************************************)
EXTENDS ModelBuild, InductionLemmas, FiniteSetTheorems, TLAPS

\* What a build step hands back.
Results == [state : ClassState, out : Outcomes]

\* A class state no build has succeeded on since it was last cleared.
Fresh(s) ==
    /\ s \in ClassState
    /\ ~s.complete
    /\ s.val # "real"
    /\ s.val = s.ser

\* complete_model_class() on a fresh class: well typed, its parts agree, the
\* answer tells whether it is complete now, and no mock is lost.
GoodResult(s, r) ==
    /\ r \in Results
    /\ Together(r.state)
    /\ r.out \in Raised \cup {"true", "false"}
    /\ r.out = "true" <=> r.state.complete
    /\ r.state.val = "absent" => s.val = "absent" /\ r.out \in Raised

LEMMA BuildSchemaGood ==
    ASSUME NEW c \in Classes, NEW s, Fresh(s), s.pending = {},
           NEW raise \in BOOLEAN, NEW hook \in BOOLEAN, hook \/ s.hooked,
           NEW r \in BuildSchema(c, s, raise, hook)
    PROVE  GoodResult(s, r)
<1> DEFINE errors == GenerationErrors(c)
<1> USE DEF GoodResult, Results, Together, Fresh, Raised, Outcomes, ClassState, Attr, Result
<1>1. errors \subseteq {"undefined", "unsupported"}
  BY DEF GenerationErrors
<1>2. CASE errors # {}
  <2>1. PICK e \in errors : r = GenerationFailed(s, e, raise)
    BY <1>2 DEF BuildSchema
  <2> QED
    BY <1>1, <2>1 DEF GenerationFailed, Mocked
<1>3. CASE errors = {}
  <2>1. \/ r = Result(Mocked(s), "false")
        \/ r = Result([s EXCEPT !.core = "real"], "unbuildable")
        \/ r = Result(Built(s, hook), "true")
    BY <1>3 DEF BuildSchema
  <2>2. CASE r = Result(Mocked(s), "false")
    BY <2>2 DEF Mocked
  <2>3. CASE r = Result([s EXCEPT !.core = "real"], "unbuildable")
    BY <2>3
  <2>4. CASE r = Result(Built(s, hook), "true")
    <3>1. s.hooked \/ hook
      OBVIOUS
    <3>2. /\ r.state \in ClassState /\ r.out = "true"
          /\ r.state.complete /\ r.state.hooked
          /\ r.state.core = "real" /\ r.state.val = "real" /\ r.state.ser = "real"
          /\ r.state.pending = {}
          /\ r \in Results
      BY <2>4, <3>1 DEF Built
    <3> QED
      BY <3>2
  <2> QED
    BY <2>1, <2>2, <2>3, <2>4
<1> QED
  BY <1>2, <1>3

LEMMA CompleteModelClassGood ==
    ASSUME NEW c \in Classes, NEW s, Fresh(s),
           NEW raise \in BOOLEAN, NEW hook \in BOOLEAN, hook \/ s.hooked,
           NEW r \in CompleteModelClass(c, s, raise, hook)
    PROVE  GoodResult(s, r)
<1> DEFINE t == [s EXCEPT !.pending = {}]
<1>1. CASE Unresolved(s.pending, c, c) # {}
  <2>1. r = Result(Mocked(s), IF raise THEN "undefined" ELSE "false")
    BY <1>1 DEF CompleteModelClass
  <2> QED
    BY <2>1 DEF GoodResult, Results, Together, Fresh, Raised, Outcomes,
                ClassState, Attr, Result, Mocked
<1>2. CASE Unresolved(s.pending, c, c) = {}
  <2>1. r \in BuildSchema(c, t, raise, hook)
    BY <1>2 DEF CompleteModelClass
  <2>2. Fresh(t) /\ t.pending = {} /\ t.hooked = s.hooked /\ t.val = s.val
    BY DEF Fresh, ClassState
  <2>3. GoodResult(t, r)
    BY <2>1, <2>2, BuildSchemaGood
  <2> QED
    BY <2>2, <2>3 DEF GoodResult
<1> QED
  BY <1>1, <1>2

\* A class that model_rebuild() cleared is fresh.
LEMMA ClearedFresh ==
    ASSUME NEW s \in ClassState, Together(s)
    PROVE  /\ Fresh(Cleared(s))
           /\ Cleared(s).hooked = s.hooked
           /\ Cleared(s).val = "absent" => s.val = "absent" \/ s.complete
BY DEF Fresh, Cleared, DropReal, Together, ClassState, Attr

\* model_rebuild(): GoodResult, or the class was complete and is left alone.
LEMMA ModelRebuildGood ==
    ASSUME NEW c \in Classes, cls[c] \in ClassState, Together(cls[c]),
           NEW force \in BOOLEAN, NEW raise \in BOOLEAN,
           NEW r \in ModelRebuild(c, force, raise)
    PROVE  /\ r \in Results
           /\ Together(r.state)
           /\ r.out \in Raised \cup {"true", "false", "none"}
           /\ r.out \in {"true", "none"} <=> r.state.complete
           /\ cls[c].complete /\ ~force => r.state = cls[c]
           /\ ~cls[c].complete => r.out # "none"
           /\ cls[c].val # "absent" /\ r.state.val = "absent" =>
                 force /\ r.out \in Raised
           /\ r.state.val = "absent" => cls[c].val = "absent" \/ cls[c].complete
<1>1. CASE cls[c].complete /\ ~force
  <2>1. r = Result(cls[c], "none")
    BY <1>1 DEF ModelRebuild
  <2> QED
    BY <1>1, <2>1 DEF Result, Results, Outcomes, Raised
<1>2. CASE ~(cls[c].complete /\ ~force)
  <2> DEFINE s == Cleared(cls[c])
             hook == ~cls[c].complete
  <2>1. r \in CompleteModelClass(c, s, raise, hook)
    BY <1>2 DEF ModelRebuild
  <2>2. Fresh(s) /\ s.hooked = cls[c].hooked
        /\ (s.val = "absent" => cls[c].val = "absent" \/ cls[c].complete)
    BY ClearedFresh
  <2>3. hook \in BOOLEAN /\ (hook \/ s.hooked)
    BY <2>2 DEF Together
  <2>4. GoodResult(s, r)
    BY <2>1, <2>2, <2>3, CompleteModelClassGood
  <2>5. r.out # "none"
    BY <2>4 DEF GoodResult, Raised
  <2> QED
    BY <1>2, <2>2, <2>4, <2>5 DEF GoodResult
<1> QED
  BY <1>1, <1>2

-----------------------------------------------------------------------------
(* The invariant.  MockRebuildEnds follows from BuiltTogether in the state  *)
(* before: a mock is only found on a class that is not complete.            *)

Inv == TypeOK /\ BuiltTogether /\ MockRebuildEnds

Attrs == {"core", "val", "ser"}

LEMMA CollectedFresh ==
    ASSUME TypeOK, NEW c \in Classes
    PROVE  Fresh(Collected(c))
<1>1. Unresolved(OwnRefs[c], c, c) \subseteq Names
  BY ConstantsAssumption DEF Unresolved
<1>2. Parent[c] \in Classes => cls[Parent[c]].pending \subseteq Names
  BY DEF TypeOK, ClassState
<1> QED
  BY <1>1, <1>2 DEF Collected, Fresh, Unbuilt, ClassState, Attr

\* What a build leaves on one class and tells the caller keeps the invariant.
LEMMA StoreKeepsInv ==
    ASSUME Inv, NEW h \in Classes, NEW r \in Results, Together(r.state),
           defined' \subseteq Classes, bound' \subseteq defined' \cup Types,
           cls' = [cls EXCEPT ![h] = r.state],
           last' \in Calls, last'.out # "loops"
    PROVE  Inv'
<1>1. cls \in [Classes -> ClassState] /\ r.state \in ClassState
  BY DEF Inv, TypeOK, Results
<1>2. TypeOK'
  BY <1>1 DEF TypeOK
<1>3. \A c \in Classes : Together(cls'[c])
  BY <1>1 DEF Inv, BuiltTogether
<1>4. MockRebuildEnds'
  BY DEF MockRebuildEnds
<1> QED
  BY <1>2, <1>3, <1>4 DEF Inv, BuiltTogether

LEMMA DefineClassKeepsInv ==
    ASSUME Inv, NEW c \in Classes, DefineClass(c)
    PROVE  Inv'
<1> DEFINE results == IF c \in Deferred
                      THEN {Result(Mocked(Collected(c)), "false")}
                      ELSE CompleteModelClass(c, Collected(c), FALSE, TRUE)
<1>1. PICK r \in results :
        /\ last' = Call("define", c, FALSE, c, r.out)
        /\ IF r.out \in Raised
           THEN UNCHANGED <<defined, bound, cls>>
           ELSE /\ defined' = defined \cup {c}
                /\ bound' = bound \cup {c}
                /\ cls' = [cls EXCEPT ![c] = r.state]
  BY DEF DefineClass
<1>2. Fresh(Collected(c))
  BY CollectedFresh DEF Inv
<1>3. GoodResult(Collected(c), r)
  <2>1. CASE c \in Deferred
    <3>1. r = Result(Mocked(Collected(c)), "false")
      BY <2>1
    <3> QED
      BY <3>1, <1>2 DEF GoodResult, Results, Together, Fresh, Raised, Outcomes,
                        ClassState, Attr, Result, Mocked
  <2>2. CASE c \notin Deferred
    <3>1. r \in CompleteModelClass(c, Collected(c), FALSE, TRUE)
      BY <2>2
    <3> QED
      BY <3>1, <1>2, CompleteModelClassGood
  <2> QED
    BY <2>1, <2>2
<1>4. last' \in Calls /\ last'.out # "loops"
  BY <1>1, <1>3 DEF GoodResult, Results, Call, Calls, Outcomes, Raised
<1>5. CASE r.out \in Raised
  BY <1>1, <1>4, <1>5 DEF Inv, TypeOK, BuiltTogether, MockRebuildEnds
<1>6. CASE r.out \notin Raised
  <2>1. defined' \subseteq Classes /\ bound' \subseteq defined' \cup Types
    BY <1>1, <1>6 DEF Inv, TypeOK, Names
  <2> QED
    BY <1>1, <1>3, <1>4, <1>6, <2>1, StoreKeepsInv DEF GoodResult
<1> QED
  BY <1>5, <1>6

LEMMA RebuildKeepsInv ==
    ASSUME Inv, NEW c \in Classes, NEW force \in BOOLEAN, NEW raise \in BOOLEAN,
           Rebuild(c, force, raise)
    PROVE  Inv'
<1>1. PICK r \in ModelRebuild(c, force, raise) :
        /\ cls' = [cls EXCEPT ![c] = r.state]
        /\ last' = Call("rebuild", c, force, c, r.out)
  BY DEF Rebuild
<1>2. cls[c] \in ClassState /\ Together(cls[c])
  BY DEF Inv, TypeOK, BuiltTogether
<1>3. /\ r \in Results /\ Together(r.state)
      /\ r.out \in Raised \cup {"true", "false", "none"}
  BY <1>2, ModelRebuildGood
<1>4. last' \in Calls /\ last'.out # "loops"
  BY <1>1, <1>3 DEF Results, Call, Calls, Outcomes, Raised
<1>5. defined' \subseteq Classes /\ bound' \subseteq defined' \cup Types
  BY DEF Rebuild, Inv, TypeOK
<1> QED
  BY <1>1, <1>3, <1>4, <1>5, StoreKeepsInv

\* A mock is found on a class that is not complete.
LEMMA MockIncomplete ==
    ASSUME NEW s \in ClassState, Together(s), NEW attr \in Attrs, s[attr] = "mock"
    PROVE  ~s.complete
BY DEF Together, Attrs

LEMMA CompleteHasAll ==
    ASSUME NEW s \in ClassState, Together(s), NEW attr \in Attrs, s.complete
    PROVE  s[attr] = "real"
BY DEF Together, Attrs

\* What an attempt to rebuild through a mock of h hands back.
LEMMA UseMockGood ==
    ASSUME Inv, NEW h \in Classes, NEW attr \in Attrs, cls[h][attr] = "mock",
           NEW r \in ModelRebuild(h, FALSE, FALSE)
    PROVE  /\ r \in Results /\ Together(r.state)
           /\ MockAnswer(r, attr) \in Outcomes \ {"loops"}
           /\ MockAnswer(r, attr) = "ok" <=> r.state.complete
           /\ cls[h].val # "absent" => r.state.val # "absent"
<1>1. cls[h] \in ClassState /\ Together(cls[h])
  BY DEF Inv, TypeOK, BuiltTogether
<1>2. ~cls[h].complete
  BY <1>1, MockIncomplete
<1>3. /\ r \in Results /\ Together(r.state)
      /\ r.out \in Raised \cup {"true", "false"}
      /\ r.out \in {"true", "none"} <=> r.state.complete
      /\ cls[h].val # "absent" => r.state.val # "absent"
  BY <1>1, <1>2, ModelRebuildGood
<1>4. r.state \in ClassState
  BY <1>3 DEF Results
<1>5. CASE r.out \in Raised
  BY <1>3, <1>5 DEF MockAnswer, Raised, Outcomes
<1>6. CASE r.out = "false"
  BY <1>3, <1>6 DEF MockAnswer, Raised, Outcomes
<1>7. CASE r.out = "true"
  <2>1. r.state[attr] = "real"
    BY <1>3, <1>4, <1>7, CompleteHasAll
  <2> QED
    BY <1>3, <1>7, <2>1 DEF MockAnswer, Raised, Outcomes
<1> QED
  BY <1>3, <1>5, <1>6, <1>7

LEMMA LookUpKeepsInv ==
    ASSUME Inv, NEW op \in {"use", "json_schema"}, NEW c \in Classes,
           NEW h \in Classes, NEW attr \in Attrs, LookUp(op, c, h, attr),
           UNCHANGED <<defined, bound>>
    PROVE  Inv'
<1>1. CASE cls[h][attr] = "real" /\ last' = Call(op, c, FALSE, h, "ok") /\ UNCHANGED cls
  BY <1>1 DEF Inv, TypeOK, BuiltTogether, MockRebuildEnds, Call, Calls, Outcomes
<1>2. CASE cls[h][attr] = "mock" /\ UseMock(op, c, h, attr)
  <2>1. PICK r \in ModelRebuild(h, FALSE, FALSE) :
          /\ cls' = [cls EXCEPT ![h] = r.state]
          /\ last' = Call(op, c, FALSE, h, MockAnswer(r, attr))
    BY <1>2 DEF UseMock
  <2>2. /\ r \in Results /\ Together(r.state)
        /\ MockAnswer(r, attr) \in Outcomes \ {"loops"}
    BY <1>2, UseMockGood
  <2>3. last' \in Calls /\ last'.out # "loops"
    BY <2>1, <2>2 DEF Call, Calls
  <2>4. defined' \subseteq Classes /\ bound' \subseteq defined' \cup Types
    BY DEF Inv, TypeOK
  <2> QED
    BY <2>1, <2>2, <2>3, <2>4, StoreKeepsInv
<1> QED
  BY <1>1, <1>2 DEF LookUp

\* A lookup that ends at BaseModel, and a change of the namespaces, touch no class.
LEMMA NoClassKeepsInv ==
    ASSUME Inv, UNCHANGED <<defined, cls>>, bound' \subseteq defined \cup Types,
           last' \in Calls, last'.out # "loops"
    PROVE  Inv'
BY DEF Inv, TypeOK, BuiltTogether, MockRebuildEnds

LEMMA UseKeepsInv ==
    ASSUME Inv, NEW c \in Classes, NEW attr \in {"val", "ser"}, Use(c, attr)
    PROVE  Inv'
<1>1. CASE \E h \in Nearest(c, attr) : LookUp("use", c, h, attr)
  BY <1>1, LookUpKeepsInv DEF Use, Nearest, Attrs
<1>2. CASE last' = Call("use", c, FALSE, BaseModel, "base_model") /\ UNCHANGED cls
  <2>1. last' \in Calls /\ last'.out # "loops"
    BY <1>2 DEF Call, Calls, Outcomes
  <2> QED
    BY <1>2, <2>1, NoClassKeepsInv DEF Use, Inv, TypeOK
<1> QED
  BY <1>1, <1>2 DEF Use

LEMMA JsonSchemaKeepsInv ==
    ASSUME Inv, NEW c \in Classes, JsonSchema(c)
    PROVE  Inv'
<1>1. CASE \E h \in Nearest(c, "core") : LookUp("json_schema", c, h, "core")
  BY <1>1, LookUpKeepsInv DEF JsonSchema, Nearest, Attrs
<1>2. CASE last' = Call("json_schema", c, FALSE, BaseModel, "assertion") /\ UNCHANGED cls
  <2>1. last' \in Calls /\ last'.out # "loops"
    BY <1>2 DEF Call, Calls, Outcomes
  <2> QED
    BY <1>2, <2>1, NoClassKeepsInv DEF JsonSchema, Inv, TypeOK
<1> QED
  BY <1>1, <1>2 DEF JsonSchema

LEMMA NamespaceKeepsInv ==
    ASSUME Inv, NEW n \in Names, Bind(n) \/ Unbind(n)
    PROVE  Inv'
<1>0. last' = Call("namespace", BaseModel, FALSE, BaseModel, "ok")
  BY DEF Bind, Unbind
<1>1. last' \in Calls /\ last'.out # "loops"
  BY <1>0 DEF Call, Calls, Outcomes
<1>2. UNCHANGED <<defined, cls>> /\ bound' \subseteq defined \cup Types
  BY DEF Bind, Unbind, Inv, TypeOK
<1> QED
  BY <1>1, <1>2, NoClassKeepsInv

LEMMA InitInv == Init => Inv
<1> SUFFICES ASSUME Init PROVE Inv
  OBVIOUS
<1>1. Unbuilt \in ClassState /\ Together(Unbuilt)
  BY DEF Unbuilt, ClassState, Attr, Together
<1>2. last \in Calls /\ last.out # "loops"
  BY DEF Init, Call, Calls, Outcomes
<1> QED
  BY <1>1, <1>2 DEF Init, Inv, TypeOK, BuiltTogether, MockRebuildEnds

LEMMA NextInv == Inv /\ [Next]_vars => Inv'
<1> SUFFICES ASSUME Inv, [Next]_vars PROVE Inv'
  OBVIOUS
<1>1. ASSUME NEW c \in Classes, DefineClass(c) PROVE Inv'
  BY <1>1, DefineClassKeepsInv
<1>2. ASSUME NEW c \in Classes, NEW force \in Forces, NEW raise \in BOOLEAN,
             Rebuild(c, force, raise)
      PROVE  Inv'
  BY <1>2, ConstantsAssumption, RebuildKeepsInv
<1>3. ASSUME NEW c \in Classes, NEW attr \in {"val", "ser"}, Use(c, attr) PROVE Inv'
  BY <1>3, UseKeepsInv
<1>4. ASSUME NEW c \in Classes, JsonSchema(c) PROVE Inv'
  BY <1>4, JsonSchemaKeepsInv
<1>5. ASSUME NEW n \in Names, Bind(n) \/ Unbind(n) PROVE Inv'
  BY <1>5, NamespaceKeepsInv
<1>6. CASE UNCHANGED vars
  BY <1>6 DEF vars, Inv, TypeOK, BuiltTogether, MockRebuildEnds
<1> QED
  BY <1>1, <1>2, <1>3, <1>4, <1>5, <1>6 DEF Next

\* The inductive invariant holds in every reachable state.
THEOREM InvHolds == Spec => []Inv
<1>1. Init => Inv
  BY InitInv
<1>2. Inv /\ [Next]_vars => Inv'
  BY NextInv
<1> QED
  BY <1>1, <1>2, PTL DEF Spec

\* The class attributes only ever hold what the code can put in them.
THEOREM TypeCorrect == Spec => []TypeOK
<1>1. Inv => TypeOK
  BY DEF Inv
<1> QED
  BY <1>1, InvHolds, PTL

\* Between two calls a class is complete exactly when it has its own validator,
\* and then its serializer, core schema, fields and hook are done too
\* (complete_model_class, model_rebuild, set_model_mocks).
THEOREM AttributesBuiltTogether == Spec => []BuiltTogether
<1>1. Inv => BuiltTogether
  BY DEF Inv
<1> QED
  BY <1>1, InvHolds, PTL

\* MockValSer.__getattr__ and MockCoreSchema.rebuild never answer a successful
\* rebuild with another mock, so they do not recurse.
THEOREM MocksEnd == Spec => []MockRebuildEnds
<1>1. Inv => MockRebuildEnds
  BY DEF Inv
<1> QED
  BY <1>1, InvHolds, PTL

-----------------------------------------------------------------------------
(* What a step may never do.                                               *)

LostToForce(c) ==
    cls[c].complete /\ ~cls'[c].complete =>
        /\ last'.op = "rebuild" /\ last'.cls = c /\ last'.force
        /\ last'.out \in Raised \cup {"false"}

SpoiltByForce(c) ==
    cls[c].val # "absent" /\ cls'[c].val = "absent" =>
        /\ last'.op = "rebuild" /\ last'.cls = c /\ last'.force
        /\ last'.out \in Raised

LEMMA RebuildLoses ==
    ASSUME Inv, NEW b \in Classes, NEW force \in BOOLEAN, NEW raise \in BOOLEAN,
           Rebuild(b, force, raise), NEW c \in Classes
    PROVE  LostToForce(c) /\ SpoiltByForce(c)
<1>1. PICK r \in ModelRebuild(b, force, raise) :
        /\ cls' = [cls EXCEPT ![b] = r.state]
        /\ last' = Call("rebuild", b, force, b, r.out)
  BY DEF Rebuild
<1>2. cls \in [Classes -> ClassState] /\ Together(cls[b])
  BY DEF Inv, TypeOK, BuiltTogether
<1>3. /\ r.out \in Raised \cup {"true", "false", "none"}
      /\ r.out \in {"true", "none"} <=> r.state.complete
      /\ cls[b].complete /\ ~force => r.state = cls[b]
      /\ cls[b].val # "absent" /\ r.state.val = "absent" =>
            force /\ r.out \in Raised
  BY <1>2, ModelRebuildGood
<1>4. CASE c # b
  BY <1>1, <1>2, <1>4 DEF LostToForce, SpoiltByForce
<1>5. CASE c = b
  <2>1. cls'[c] = r.state
    BY <1>1, <1>2, <1>5
  <2>2. /\ last'.op = "rebuild" /\ last'.cls = c
        /\ last'.force = force /\ last'.out = r.out
    BY <1>1, <1>5 DEF Call
  <2>3. LostToForce(c)
    BY <1>3, <1>5, <2>1, <2>2 DEF LostToForce
  <2>4. SpoiltByForce(c)
    BY <1>3, <1>5, <2>1, <2>2 DEF SpoiltByForce
  <2> QED
    BY <2>3, <2>4
<1> QED
  BY <1>4, <1>5

LEMMA LookUpLoses ==
    ASSUME Inv, NEW op \in {"use", "json_schema"}, NEW b \in Classes,
           NEW h \in Classes, NEW attr \in Attrs, LookUp(op, b, h, attr),
           NEW c \in Classes
    PROVE  LostToForce(c) /\ SpoiltByForce(c)
<1>1. CASE UNCHANGED cls
  BY <1>1 DEF LostToForce, SpoiltByForce
<1>2. CASE cls[h][attr] = "mock" /\ UseMock(op, b, h, attr)
  <2>1. PICK r \in ModelRebuild(h, FALSE, FALSE) : cls' = [cls EXCEPT ![h] = r.state]
    BY <1>2 DEF UseMock
  <2>2. cls[h].val # "absent" => r.state.val # "absent"
    BY <1>2, UseMockGood
  <2>3. cls \in [Classes -> ClassState] /\ Together(cls[h])
    BY DEF Inv, TypeOK, BuiltTogether
  <2>4. ~cls[h].complete
    BY <1>2, <2>3, MockIncomplete
  <2>5. c = h => cls'[c] = r.state
    BY <2>1, <2>3
  <2>6. c # h => cls'[c] = cls[c]
    BY <2>1, <2>3
  <2>7. LostToForce(c)
    BY <2>4, <2>5, <2>6 DEF LostToForce
  <2>8. SpoiltByForce(c)
    BY <2>2, <2>5, <2>6 DEF SpoiltByForce
  <2> QED
    BY <2>7, <2>8
<1> QED
  BY <1>1, <1>2 DEF LookUp

LEMMA NextLoses ==
    ASSUME Inv, [Next]_vars, NEW c \in defined
    PROVE  LostToForce(c) /\ SpoiltByForce(c)
<1>0. c \in Classes
  BY DEF Inv, TypeOK
<1>1. ASSUME NEW b \in Classes, DefineClass(b)
      PROVE  LostToForce(c) /\ SpoiltByForce(c)
  <2>1. cls'[c] = cls[c]
    BY <1>0, <1>1 DEF DefineClass, Inv, TypeOK
  <2> QED
    BY <2>1 DEF LostToForce, SpoiltByForce
<1>2. ASSUME NEW b \in Classes, NEW force \in Forces, NEW raise \in BOOLEAN,
             Rebuild(b, force, raise)
      PROVE  LostToForce(c) /\ SpoiltByForce(c)
  BY <1>0, <1>2, ConstantsAssumption, RebuildLoses
<1>3. ASSUME NEW b \in Classes, NEW attr \in {"val", "ser"}, Use(b, attr)
      PROVE  LostToForce(c) /\ SpoiltByForce(c)
  <2>1. CASE \E h \in Nearest(b, attr) : LookUp("use", b, h, attr)
    BY <1>0, <2>1, LookUpLoses DEF Nearest, Attrs
  <2>2. CASE UNCHANGED cls
    BY <2>2 DEF LostToForce, SpoiltByForce
  <2> QED
    BY <1>3, <2>1, <2>2 DEF Use
<1>4. ASSUME NEW b \in Classes, JsonSchema(b)
      PROVE  LostToForce(c) /\ SpoiltByForce(c)
  <2>1. CASE \E h \in Nearest(b, "core") : LookUp("json_schema", b, h, "core")
    BY <1>0, <2>1, LookUpLoses DEF Nearest, Attrs
  <2>2. CASE UNCHANGED cls
    BY <2>2 DEF LostToForce, SpoiltByForce
  <2> QED
    BY <1>4, <2>1, <2>2 DEF JsonSchema
<1>5. CASE UNCHANGED cls
  BY <1>5 DEF LostToForce, SpoiltByForce
<1> QED
  BY <1>1, <1>2, <1>3, <1>4, <1>5 DEF Next, Bind, Unbind, vars

\* Only a failed forced rebuild of the class itself makes a complete class
\* incomplete again (model_rebuild, main.py:623).
THEOREM CompletenessKept == Spec => CompletenessLostOnlyToFailedForce
<1>1. Inv /\ [Next]_vars =>
        [\A c \in defined : cls[c].complete /\ ~cls'[c].complete =>
            /\ last'.op = "rebuild" /\ last'.cls = c /\ last'.force
            /\ last'.out \in Raised \cup {"false"}]_vars
  BY NextLoses DEF LostToForce
<1> QED
  BY <1>1, InvHolds, PTL DEF Spec, CompletenessLostOnlyToFailedForce

\* Only a forced rebuild that raised leaves a class without a validator of its
\* own, so that its parent's would be used (model_rebuild, main.py:625-631).
THEOREM ValidatorKept == Spec => ValidatorLostOnlyToRaisingForce
<1>1. Inv /\ [Next]_vars =>
        [\A c \in defined : cls[c].val # "absent" /\ cls'[c].val = "absent" =>
            /\ last'.op = "rebuild" /\ last'.cls = c /\ last'.force
            /\ last'.out \in Raised]_vars
  BY NextLoses DEF SpoiltByForce
<1> QED
  BY <1>1, InvHolds, PTL DEF Spec, ValidatorLostOnlyToRaisingForce

-----------------------------------------------------------------------------
(* What Closure() computes: the least set of names that has the start and   *)
(* is closed.                                                               *)

\* g holds the first k steps of the recursion of Closure().
Grown(k, start, edge, g) ==
    g = [i \in 0 .. k |-> IF i = 0 THEN start ELSE UNION {Follow(n, edge) : n \in g[i - 1]}]

LEMMA GrownExists ==
    ASSUME NEW start, NEW edge, NEW k \in Nat
    PROVE  \E g : Grown(k, start, edge, g)
<1> DEFINE T == {j \in Nat : \E g : Grown(j, start, edge, g)}
<1>1. 0 \in T
  <2> DEFINE g == [i \in 0 .. 0 |-> start]
  <2>1. Grown(0, start, edge, g)
    BY DEF Grown
  <2> QED
    BY <2>1
<1>2. ASSUME NEW j \in Nat, j \in T PROVE j + 1 \in T
  <2>1. PICK g : Grown(j, start, edge, g)
    BY <1>2
  <2> DEFINE h == [i \in 0 .. j + 1 |-> IF i <= j THEN g[i]
                                        ELSE UNION {Follow(n, edge) : n \in g[j]}]
  <2>2. /\ \A i \in 0 .. j : h[i] = g[i]
        /\ h[j + 1] = UNION {Follow(n, edge) : n \in g[j]}
        /\ DOMAIN h = 0 .. j + 1
    OBVIOUS
  <2>3. /\ \A i \in 0 .. j : g[i] = IF i = 0 THEN start ELSE UNION {Follow(n, edge) : n \in g[i - 1]}
    BY <2>1 DEF Grown
  <2>4. ASSUME NEW i \in 0 .. j + 1
        PROVE  h[i] = IF i = 0 THEN start ELSE UNION {Follow(n, edge) : n \in h[i - 1]}
    <3>1. CASE i = j + 1
      <4>1. h[i - 1] = g[j] /\ i # 0
        BY <2>2, <3>1
      <4> HIDE DEF h
      <4> QED
        BY <2>2, <3>1, <4>1
    <3>2. CASE i \in 0 .. j /\ i # 0
      <4>1. i - 1 \in 0 .. j
        BY <3>2
      <4>2. h[i] = g[i] /\ h[i - 1] = g[i - 1]
        BY <2>2, <3>2, <4>1
      <4>3. g[i] = UNION {Follow(n, edge) : n \in g[i - 1]}
        BY <2>3, <3>2
      <4> HIDE DEF h
      <4> QED
        BY <3>2, <4>2, <4>3
    <3>3. CASE i = 0
      <4>1. 0 \in 0 .. j
        OBVIOUS
      <4>2. h[0] = g[0] /\ g[0] = start
        <5> HIDE DEF h
        <5> QED
          BY <2>2, <2>3, <4>1
      <4> HIDE DEF h
      <4> QED
        BY <3>3, <4>2
    <3> QED
      BY <3>1, <3>2, <3>3
  <2>5. Grown(j + 1, start, edge, h)
    <3>1. h = [i \in 0 .. j + 1 |-> h[i]]
      BY Zenon
    <3>2. [i \in 0 .. j + 1 |-> h[i]] =
             [i \in 0 .. j + 1 |->
                IF i = 0 THEN start ELSE UNION {Follow(n, edge) : n \in h[i - 1]}]
      <4> HIDE DEF h
      <4> QED
        BY <2>4, Zenon
    <3> HIDE DEF h
    <3> QED
      BY <3>1, <3>2 DEF Grown
  <2> HIDE DEF h
  <2> QED
    BY <2>5
<1> HIDE DEF T
<1>3. k \in T
  BY <1>1, <1>2, InductionOnNat
<1> QED
  BY <1>3 DEF T

LEMMA ClosureGrown ==
    ASSUME NEW start, NEW edge, Cardinality(Classes) \in Nat
    PROVE  \E g : /\ Grown(Cardinality(Classes), start, edge, g)
                  /\ Closure(start, edge) = g[Cardinality(Classes)]
<1> DEFINE N == Cardinality(Classes)
<1>1. \E g : Grown(N, start, edge, g)
  BY GrownExists
<1> DEFINE G == CHOOSE g : Grown(N, start, edge, g)
<1>2. Grown(N, start, edge, G)
  BY <1>1
<1>3. Closure(start, edge) = G[N]
  BY DEF Closure, Grown
<1> QED
  BY <1>2, <1>3

LEMMA GrowingSteps ==
    ASSUME NEW start, NEW edge, NEW N \in Nat, NEW g, Grown(N, start, edge, g)
    PROVE  /\ g[0] = start
           /\ \A i \in 0 .. N : i + 1 <= N =>
                 g[i + 1] = UNION {Follow(n, edge) : n \in g[i]}
<1>1. \A i \in 0 .. N : g[i] = IF i = 0 THEN start ELSE UNION {Follow(n, edge) : n \in g[i - 1]}
  BY DEF Grown
<1>2. 0 \in 0 .. N
  OBVIOUS
<1>3. ASSUME NEW i \in 0 .. N, i + 1 <= N
      PROVE  g[i + 1] = UNION {Follow(n, edge) : n \in g[i]}
  <2>1. i + 1 \in 0 .. N /\ i + 1 # 0 /\ (i + 1) - 1 = i
    BY <1>3
  <2> QED
    BY <1>1, <2>1
<1> QED
  BY <1>1, <1>2, <1>3

\* Closure() in terms of the steps of its recursion.
LEMMA ClosureSteps ==
    ASSUME NEW start, NEW edge, IsFiniteSet(Classes)
    PROVE  \E N, g :
              /\ N \in Nat /\ N = Cardinality(Classes)
              /\ Closure(start, edge) = g[N]
              /\ g[0] = start
              /\ \A i \in 0 .. N : i + 1 <= N =>
                    g[i + 1] = UNION {Follow(n, edge) : n \in g[i]}
<1>1. PICK N \in Nat : N = Cardinality(Classes)
  BY FS_CardinalityType
<1>2. PICK g : Grown(N, start, edge, g) /\ Closure(start, edge) = g[N]
  BY <1>1, ClosureGrown
<1>3. /\ g[0] = start
      /\ \A i \in 0 .. N : i + 1 <= N => g[i + 1] = UNION {Follow(n, edge) : n \in g[i]}
  BY <1>1, <1>2, GrowingSteps
<1> QED
  BY <1>1, <1>2, <1>3

\* The closure is inside every set that contains the start and is closed.
LEMMA ClosureLeast ==
    ASSUME NEW start, NEW edge, NEW S, start \subseteq S,
           \A n \in S \cap Classes : edge[n] \subseteq S,
           IsFiniteSet(Classes)
    PROVE  Closure(start, edge) \subseteq S
<1>1. PICK N, g :
        /\ N \in Nat /\ N = Cardinality(Classes)
        /\ Closure(start, edge) = g[N]
        /\ g[0] = start
        /\ \A i \in 0 .. N : i + 1 <= N =>
              g[i + 1] = UNION {Follow(n, edge) : n \in g[i]}
  BY ClosureSteps
<1> DEFINE T == {i \in Nat : i <= N => g[i] \subseteq S}
<1>2. 0 \in T
  BY <1>1
<1>3. ASSUME NEW i \in Nat, i \in T PROVE i + 1 \in T
  <2>1. ASSUME i + 1 <= N PROVE g[i + 1] \subseteq S
    <3>1. i \in 0 .. N /\ g[i] \subseteq S
      BY <1>1, <1>3, <2>1
    <3>2. \A n \in g[i] : Follow(n, edge) \subseteq S
      BY <3>1 DEF Follow
    <3>3. g[i + 1] = UNION {Follow(n, edge) : n \in g[i]}
      BY <1>1, <2>1, <3>1
    <3> QED
      BY <3>2, <3>3
  <2> QED
    BY <2>1
<1>4. N \in T
  <2> HIDE DEF T
  <2> QED
    BY <1>1, <1>2, <1>3, InductionOnNat
<1> QED
  BY <1>1, <1>4

\* A set of names is closed when it has what its classes lead to.
Closed(S, edge) == \A n \in S \cap Classes : edge[n] \subseteq S

\* The start is in the closure, and the closure is closed: the number of classes
\* bounds the steps that add something new.
LEMMA ClosureClosed ==
    ASSUME NEW start, NEW edge, IsFiniteSet(Classes)
    PROVE  start \subseteq Closure(start, edge) /\ Closed(Closure(start, edge), edge)
<1>1. PICK N, g :
        /\ N \in Nat /\ N = Cardinality(Classes)
        /\ Closure(start, edge) = g[N]
        /\ g[0] = start
        /\ \A i \in 0 .. N : i + 1 <= N =>
              g[i + 1] = UNION {Follow(n, edge) : n \in g[i]}
  BY ClosureSteps
<1> DEFINE K(i) == g[i] \cap Classes
           Enough(i) == Closed(g[i], edge) \/ Cardinality(K(i)) >= i + 1
           T == {i \in Nat : i <= N => start \subseteq g[i] /\ Enough(i)}
<1>2. \A i : IsFiniteSet(K(i)) /\ Cardinality(K(i)) \in Nat /\ Cardinality(K(i)) <= N
  BY <1>1, FS_Subset, FS_CardinalityType
<1>3. 0 \in T
  <2>1. CASE K(0) = {}
    BY <1>1, <2>1 DEF Closed
  <2>2. CASE K(0) # {}
    <3>1. Cardinality(K(0)) # 0
      BY <1>2, <2>2, FS_EmptySet
    <3>2. Cardinality(K(0)) >= 0 + 1
      <4> HIDE DEF K
      <4> QED
        BY <1>2, <3>1
    <3> QED
      BY <1>1, <3>2
  <2> QED
    BY <2>1, <2>2
<1>4. ASSUME NEW i \in Nat, i \in T PROVE i + 1 \in T
  <2> SUFFICES ASSUME i + 1 <= N PROVE start \subseteq g[i + 1] /\ Enough(i + 1)
    OBVIOUS
  <2>1. i \in 0 .. N /\ start \subseteq g[i] /\ Enough(i)
    <3> HIDE DEF Enough
    <3> QED
      BY <1>1, <1>4
  <2>2. g[i + 1] = UNION {Follow(n, edge) : n \in g[i]}
    BY <1>1, <2>1
  <2>3. /\ g[i] \subseteq g[i + 1]
        /\ \A n \in g[i] \cap Classes : edge[n] \subseteq g[i + 1]
    BY <2>2 DEF Follow
  <2>4. CASE Closed(g[i], edge)
    <3>1. \A n \in g[i] : Follow(n, edge) \subseteq g[i]
      BY <2>4 DEF Follow, Closed
    <3>2. g[i + 1] = g[i]
      BY <2>2, <2>3, <3>1
    <3> QED
      BY <2>1, <2>4, <3>2
  <2>5. CASE K(i + 1) = K(i)
    BY <2>1, <2>3, <2>5 DEF Closed
  <2>6. CASE ~Closed(g[i], edge) /\ K(i + 1) # K(i)
    <3>1. K(i) \subseteq K(i + 1) /\ K(i) # K(i + 1)
      BY <2>3, <2>6
    <3>2. Cardinality(K(i)) <= Cardinality(K(i + 1)) /\ Cardinality(K(i)) # Cardinality(K(i + 1))
      <4> HIDE DEF K
      <4> QED
        BY <1>2, <3>1, FS_Subset
    <3>3. Cardinality(K(i)) >= i + 1
      BY <2>1, <2>6
    <3>4. Cardinality(K(i + 1)) >= (i + 1) + 1
      <4> HIDE DEF K
      <4> QED
        BY <1>2, <3>2, <3>3
    <3> QED
      BY <2>1, <2>3, <3>4
  <2> QED
    BY <2>4, <2>5, <2>6
<1>5. N \in T
  <2> HIDE DEF T
  <2> QED
    BY <1>1, <1>3, <1>4, InductionOnNat
<1>6. start \subseteq g[N] /\ Enough(N)
  <2> HIDE DEF Enough
  <2> QED
    BY <1>1, <1>5
<1>7. ~(Cardinality(K(N)) >= N + 1)
  <2> HIDE DEF K
  <2> QED
    BY <1>1, <1>2
<1> QED
  BY <1>1, <1>6, <1>7

LEMMA AncestorsAreClasses ==
    ASSUME NEW c \in Classes
    PROVE  c \in Ancestors(c) /\ Ancestors(c) \subseteq Classes
<1> DEFINE up == [d \in Classes |-> {Parent[d]} \cap Classes]
<1>1. {c} \subseteq Closure({c}, up)
  BY ConstantsAssumption, ClosureClosed
<1>2. Closure({c}, up) \subseteq Classes
  BY ConstantsAssumption, ClosureLeast
<1> QED
  BY <1>1, <1>2 DEF Ancestors

\* The ancestors of a class are it and the ancestors of its parent.
LEMMA AncestorsThroughParent ==
    ASSUME NEW c \in Classes, NEW a \in Ancestors(c)
    PROVE  a = c \/ (Parent[c] \in Classes /\ a \in Ancestors(Parent[c]))
<1> DEFINE up == [d \in Classes |-> {Parent[d]} \cap Classes]
           S == {c} \cup (IF Parent[c] \in Classes THEN Ancestors(Parent[c]) ELSE {})
<1>1. ASSUME NEW p \in Classes
      PROVE  p \in Ancestors(p) /\ \A n \in Ancestors(p) \cap Classes : up[n] \subseteq Ancestors(p)
  BY ConstantsAssumption, ClosureClosed DEF Ancestors, Closed
<1>2. ASSUME NEW n \in S \cap Classes PROVE up[n] \subseteq S
  BY <1>1, <1>2
<1>3. Closure({c}, up) \subseteq S
  <2> HIDE DEF up, S
  <2>1. {c} \subseteq S
    BY DEF S
  <2> QED
    BY <1>2, <2>1, ConstantsAssumption, ClosureLeast
<1> QED
  BY <1>3 DEF Ancestors

LEMMA RefsAreNames ==
    ASSUME NEW c \in Classes
    PROVE  Refs[c] \subseteq Names
BY AncestorsAreClasses, ConstantsAssumption DEF Refs

\* Every field of a class is its own or one of its parent's.
LEMMA RefsThroughParent ==
    ASSUME NEW c \in Classes, NEW n \in Refs[c]
    PROVE  n \in OwnRefs[c] \/ (Parent[c] \in Classes /\ n \in Refs[Parent[c]])
<1>1. PICK a \in Ancestors(c) : n \in OwnRefs[a]
  BY DEF Refs
<1>2. CASE a = c
  BY <1>1, <1>2
<1>3. CASE Parent[c] \in Classes /\ a \in Ancestors(Parent[c])
  BY <1>1, <1>3 DEF Refs
<1> QED
  BY <1>2, <1>3, AncestorsThroughParent

LEMMA ReachClosed ==
    ASSUME NEW c \in Classes
    PROVE  /\ Refs[c] \subseteq Reach(c)
           /\ \A n \in Reach(c) \cap Classes : Refs[n] \subseteq Reach(c)
BY ConstantsAssumption, ClosureClosed DEF Reach, Closed

LEMMA ReachLeast ==
    ASSUME NEW c \in Classes, NEW S, Refs[c] \subseteq S,
           \A n \in S \cap Classes : Refs[n] \subseteq S
    PROVE  Reach(c) \subseteq S
BY ConstantsAssumption, ClosureLeast DEF Reach

LEMMA WalkedClosed ==
    ASSUME NEW c \in Classes
    PROVE  /\ Refs[c] \subseteq Walked(c)
           /\ \A n \in Walked(c) \cap Classes : Entered(c)[n] \subseteq Walked(c)
BY ConstantsAssumption, ClosureClosed DEF Walked, Closed

LEMMA WalkedLeast ==
    ASSUME NEW c \in Classes, NEW S, Refs[c] \subseteq S,
           \A n \in S \cap Classes : Entered(c)[n] \subseteq S
    PROVE  Walked(c) \subseteq S
BY ConstantsAssumption, ClosureLeast DEF Walked

\* A build walks no further than the class reaches.
LEMMA WalkedReached ==
    ASSUME NEW c \in Classes
    PROVE  Walked(c) \subseteq Reach(c)
<1>1. \A n \in Reach(c) \cap Classes : Entered(c)[n] \subseteq Reach(c)
  BY ReachClosed DEF Entered
<1> QED
  BY <1>1, ReachClosed, WalkedLeast

-----------------------------------------------------------------------------
(* ModelBuild implements LazyBuild.                                        *)

\* A class without a class statement has no state: a mock is never its own.
UndefinedUnbuilt == \A c \in Classes \ defined : cls[c] = Unbuilt

LEMMA FoundDefined ==
    ASSUME Inv, UndefinedUnbuilt, NEW c \in Classes, NEW attr \in Attrs,
           NEW h \in Nearest(c, attr)
    PROVE  h \in defined /\ cls[h][attr] # "absent"
<1>1. h \in Classes /\ cls[h][attr] # "absent"
  BY DEF Nearest
<1>2. Unbuilt[attr] = "absent"
  BY DEF Unbuilt, Attrs
<1> QED
  BY <1>1, <1>2 DEF UndefinedUnbuilt

LEMMA LookUpKeepsUnbuilt ==
    ASSUME Inv, UndefinedUnbuilt, NEW op, NEW c \in Classes, NEW attr \in Attrs,
           NEW h \in Nearest(c, attr), LookUp(op, c, h, attr), UNCHANGED defined
    PROVE  UndefinedUnbuilt'
<1>1. h \in defined
  BY FoundDefined
<1>2. UNCHANGED cls \/ \E s : cls' = [cls EXCEPT ![h] = s]
  BY DEF LookUp, UseMock
<1> QED
  BY <1>1, <1>2 DEF UndefinedUnbuilt, Inv, TypeOK

LEMMA NextUnbuilt ==
    ASSUME Inv, UndefinedUnbuilt, [Next]_vars
    PROVE  UndefinedUnbuilt'
<1>1. ASSUME NEW c \in Classes, DefineClass(c) PROVE UndefinedUnbuilt'
  BY <1>1 DEF DefineClass, UndefinedUnbuilt, Inv, TypeOK
<1>2. ASSUME NEW c \in Classes, NEW force, NEW raise, Rebuild(c, force, raise)
      PROVE  UndefinedUnbuilt'
  BY <1>2 DEF Rebuild, UndefinedUnbuilt, Inv, TypeOK
<1>3. ASSUME NEW c \in Classes, NEW attr \in {"val", "ser"}, Use(c, attr)
      PROVE  UndefinedUnbuilt'
  <2>1. CASE \E h \in Nearest(c, attr) : LookUp("use", c, h, attr)
    BY <1>3, <2>1, LookUpKeepsUnbuilt DEF Use, Attrs
  <2>2. CASE UNCHANGED cls
    BY <1>3, <2>2 DEF Use, UndefinedUnbuilt
  <2> QED
    BY <1>3, <2>1, <2>2 DEF Use
<1>4. ASSUME NEW c \in Classes, JsonSchema(c) PROVE UndefinedUnbuilt'
  <2>1. CASE \E h \in Nearest(c, "core") : LookUp("json_schema", c, h, "core")
    BY <1>4, <2>1, LookUpKeepsUnbuilt DEF JsonSchema, Attrs
  <2>2. CASE UNCHANGED cls
    BY <1>4, <2>2 DEF JsonSchema, UndefinedUnbuilt
  <2> QED
    BY <1>4, <2>1, <2>2 DEF JsonSchema
<1>5. CASE UNCHANGED <<defined, cls>>
  BY <1>5 DEF UndefinedUnbuilt
<1> QED
  BY <1>1, <1>2, <1>3, <1>4, <1>5 DEF Next, Bind, Unbind, vars

\* The refinement mapping.
phaseMap == [c \in Classes |-> Phase(c)]
answerMap == IF last.op = "use" /\ last.out = "ok"
             THEN <<last.cls, last.holder>> ELSE <<BaseModel, BaseModel>>

\* A step that only changes class h changes no other phase.
LEMMA PhaseUpdate ==
    ASSUME Inv, NEW h \in Classes, NEW s, cls' = [cls EXCEPT ![h] = s],
           defined' = defined \/ defined' = defined \cup {h}
    PROVE  phaseMap' = [phaseMap EXCEPT ![h] = Phase(h)']
<1>1. \A c \in Classes \ {h} : Phase(c)' = Phase(c)
  BY DEF Phase, Inv, TypeOK
<1> QED
  BY <1>1 DEF phaseMap

LEMMA DefineRefines ==
    ASSUME Inv, NEW c \in Classes, DefineClass(c)
    PROVE  Lazy!Next
<1> DEFINE results == IF c \in Deferred
                      THEN {Result(Mocked(Collected(c)), "false")}
                      ELSE CompleteModelClass(c, Collected(c), FALSE, TRUE)
<1>1. PICK r \in results :
        /\ last' = Call("define", c, FALSE, c, r.out)
        /\ IF r.out \in Raised
           THEN UNCHANGED <<defined, bound, cls>>
           ELSE /\ defined' = defined \cup {c}
                /\ bound' = bound \cup {c}
                /\ cls' = [cls EXCEPT ![c] = r.state]
  BY DEF DefineClass
<1>2. answerMap' = <<BaseModel, BaseModel>>
  BY <1>1 DEF answerMap, Call
<1>3. CASE r.out \in Raised
  <2>1. phaseMap' = phaseMap
    BY <1>1, <1>3 DEF phaseMap, Phase
  <2> QED
    BY <1>2, <2>1 DEF Lazy!Next, Lazy!Idle, Lazy!NoAnswer, phaseMap, answerMap
<1>4. CASE r.out \notin Raised
  <2>1. r.state.val # "absent"
    <3>1. Fresh(Collected(c))
      BY CollectedFresh DEF Inv
    <3>2. CASE c \in Deferred
      <4>1. r = Result(Mocked(Collected(c)), "false")
        BY <3>2
      <4> QED
        BY <3>1, <4>1 DEF Result, Mocked, Fresh, ClassState
    <3>3. CASE c \notin Deferred
      <4>0. r \in CompleteModelClass(c, Collected(c), FALSE, TRUE)
        BY <3>3
      <4>1. GoodResult(Collected(c), r)
        BY <3>1, <4>0, CompleteModelClassGood
      <4> QED
        BY <1>4, <4>1 DEF GoodResult
    <3> QED
      BY <3>2, <3>3
  <2>2. defined' = defined \cup {c} /\ cls' = [cls EXCEPT ![c] = r.state]
    BY <1>1, <1>4
  <2>3. Phase(c)' \in {"pending", "ready"}
    BY <2>1, <2>2 DEF Phase, Inv, TypeOK
  <2>4. phaseMap' = [phaseMap EXCEPT ![c] = Phase(c)']
    BY <2>2, PhaseUpdate
  <2>5. phaseMap[c] = "undefined"
    BY DEF DefineClass, phaseMap, Phase
  <2> QED
    BY <1>2, <2>3, <2>4, <2>5
       DEF Lazy!Next, Lazy!Create, Lazy!NoAnswer, phaseMap, answerMap
<1> QED
  BY <1>3, <1>4

\* A build of h that nobody is served by: Complete, or Fail.
LEMMA BuildRefines ==
    ASSUME Inv, NEW h \in Classes, h \in defined, NEW r \in Results,
           cls' = [cls EXCEPT ![h] = r.state], UNCHANGED defined,
           r.state.val = "absent" => cls[h].val = "absent" \/ cls[h].complete,
           answerMap' = <<BaseModel, BaseModel>>
    PROVE  Lazy!Next
<1>1. phaseMap' = [phaseMap EXCEPT ![h] = Phase(h)']
  BY PhaseUpdate
<1>2. cls'[h] = r.state
  BY DEF Inv, TypeOK
<1>3. phaseMap[h] # "undefined"
  BY DEF phaseMap, Phase
<1>4. CASE r.state.complete
  <2>1. Phase(h)' = "ready"
    BY <1>2, <1>4 DEF Phase
  <2> QED
    BY <1>1, <1>3, <2>1
       DEF Lazy!Next, Lazy!Complete, Lazy!NoAnswer, phaseMap, answerMap
<1>5. CASE ~r.state.complete
  <2>1. Phase(h)' \in {"pending", "spoiled"}
    BY <1>2, <1>5 DEF Phase
  <2>2. Phase(h)' = "spoiled" => phaseMap[h] \in {"ready", "spoiled"}
    BY <1>2, <1>5 DEF Phase, phaseMap
  <2>3. Lazy!Fail(h)
    BY <1>1, <1>3, <2>1, <2>2 DEF Lazy!Fail, Lazy!NoAnswer, phaseMap, answerMap
  <2> QED
    BY <2>3 DEF Lazy!Next
<1> QED
  BY <1>4, <1>5

LEMMA IdleRefines ==
    ASSUME UNCHANGED <<defined, cls>>, answerMap' = <<BaseModel, BaseModel>>
    PROVE  Lazy!Next
<1>1. phaseMap' = phaseMap
  BY DEF phaseMap, Phase
<1> QED
  BY <1>1 DEF Lazy!Next, Lazy!Idle, Lazy!NoAnswer, phaseMap, answerMap

\* A lookup through the class hierarchy ends at c, or c has nothing of its own.
LEMMA UseRefines ==
    ASSUME Inv, UndefinedUnbuilt, NEW c \in Classes, NEW attr \in {"val", "ser"},
           c \in defined, NEW h \in Nearest(c, attr), LookUp("use", c, h, attr),
           UNCHANGED defined
    PROVE  Lazy!Next
<1>1. attr \in Attrs
  BY DEF Attrs
<1>2. h \in defined /\ h \in Classes /\ cls[h][attr] # "absent"
  BY <1>1, FoundDefined DEF Nearest
<1>3. /\ cls[h] \in ClassState /\ Together(cls[h])
      /\ cls[c] \in ClassState /\ Together(cls[c])
  BY <1>2 DEF Inv, TypeOK, BuiltTogether
<1>4. cls[h].val = cls[h][attr] /\ cls[c].val = cls[c][attr]
  BY <1>3 DEF Together
<1>5. h # c => phaseMap[c] = "spoiled"
  <2>1. h # c => cls[c].val = "absent"
    BY <1>4 DEF Nearest
  <2>2. h # c => ~cls[c].complete
    BY <1>3, <2>1 DEF Together
  <2> QED
    BY <2>1, <2>2 DEF phaseMap, Phase
<1>6. phaseMap[c] # "undefined"
  BY DEF phaseMap, Phase
<1>7. CASE cls[h][attr] = "real" /\ last' = Call("use", c, FALSE, h, "ok") /\ UNCHANGED cls
  <2>1. phaseMap[h] = "ready"
    BY <1>2, <1>3, <1>4, <1>7 DEF phaseMap, Phase, Together
  <2>2. phaseMap' = phaseMap
    BY <1>7 DEF phaseMap, Phase
  <2>3. phaseMap' = [phaseMap EXCEPT ![h] = "ready"]
    BY <2>1, <2>2 DEF phaseMap
  <2>4. answerMap' = <<c, h>>
    BY <1>7 DEF answerMap, Call
  <2> QED
    BY <1>2, <1>5, <1>6, <2>1, <2>3, <2>4
       DEF Lazy!Next, Lazy!Serve, phaseMap, answerMap
<1>8. CASE cls[h][attr] = "mock" /\ UseMock("use", c, h, attr)
  <2>1. PICK r \in ModelRebuild(h, FALSE, FALSE) :
          /\ cls' = [cls EXCEPT ![h] = r.state]
          /\ last' = Call("use", c, FALSE, h, MockAnswer(r, attr))
    BY <1>8 DEF UseMock
  <2>2. /\ r \in Results
        /\ MockAnswer(r, attr) = "ok" <=> r.state.complete
        /\ r.state.val # "absent"
    BY <1>1, <1>2, <1>4, <1>8, UseMockGood
  <2>3. phaseMap[h] = "pending"
    <3>1. ~cls[h].complete
      BY <1>1, <1>3, <1>8, MockIncomplete
    <3> QED
      BY <1>2, <1>4, <1>8, <3>1 DEF phaseMap, Phase
  <2>4. CASE r.state.complete
    <3>1. answerMap' = <<c, h>>
      BY <2>1, <2>2, <2>4 DEF answerMap, Call
    <3>2. cls'[h] = r.state
      BY <1>2, <2>1 DEF Inv, TypeOK
    <3>3. Phase(h)' = "ready"
      BY <1>2, <2>4, <3>2 DEF Phase
    <3>4. phaseMap' = [phaseMap EXCEPT ![h] = "ready"]
      BY <1>2, <2>1, <3>3, PhaseUpdate
    <3> QED
      BY <1>2, <1>5, <1>6, <2>3, <3>1, <3>4
         DEF Lazy!Next, Lazy!Serve, phaseMap, answerMap
  <2>5. CASE ~r.state.complete
    <3>1. answerMap' = <<BaseModel, BaseModel>>
      BY <2>1, <2>2, <2>5 DEF answerMap, Call
    <3> QED
      BY <1>2, <2>1, <2>2, <3>1, BuildRefines
  <2> QED
    BY <2>4, <2>5
<1> QED
  BY <1>7, <1>8 DEF LookUp

LEMMA JsonSchemaRefines ==
    ASSUME Inv, UndefinedUnbuilt, NEW c \in Classes, JsonSchema(c)
    PROVE  Lazy!Next
<1>1. answerMap' = <<BaseModel, BaseModel>>
  <2>1. \E h, out : last' = Call("json_schema", c, FALSE, h, out)
    <3>1. CASE \E h \in Nearest(c, "core") : LookUp("json_schema", c, h, "core")
      BY <3>1 DEF LookUp, UseMock
    <3>2. CASE last' = Call("json_schema", c, FALSE, BaseModel, "assertion")
      BY <3>2
    <3> QED
      BY <3>1, <3>2 DEF JsonSchema
  <2> QED
    BY <2>1 DEF answerMap, Call
<1>2. CASE UNCHANGED cls
  BY <1>1, <1>2, IdleRefines DEF JsonSchema
<1>3. ASSUME NEW h \in Nearest(c, "core"), cls[h].core = "mock",
             UseMock("json_schema", c, h, "core")
      PROVE  Lazy!Next
  <2>1. h \in defined /\ h \in Classes
    BY FoundDefined DEF Attrs, Nearest
  <2>2. PICK r \in ModelRebuild(h, FALSE, FALSE) : cls' = [cls EXCEPT ![h] = r.state]
    BY <1>3 DEF UseMock
  <2>3. r \in Results /\ (cls[h].val # "absent" => r.state.val # "absent")
    BY <1>3, <2>1, UseMockGood DEF Attrs
  <2> QED
    BY <1>1, <2>1, <2>2, <2>3, BuildRefines DEF JsonSchema
<1> QED
  BY <1>2, <1>3 DEF JsonSchema, LookUp

LEMMA NextRefines ==
    ASSUME Inv, UndefinedUnbuilt, [Next]_vars
    PROVE  [Lazy!Next]_(Lazy!vars)
<1>1. ASSUME NEW c \in Classes, DefineClass(c) PROVE Lazy!Next
  BY <1>1, DefineRefines
<1>2. ASSUME NEW c \in Classes, NEW force \in Forces, NEW raise \in BOOLEAN,
             Rebuild(c, force, raise)
      PROVE  Lazy!Next
  <2>1. PICK r \in ModelRebuild(c, force, raise) :
          /\ cls' = [cls EXCEPT ![c] = r.state]
          /\ last' = Call("rebuild", c, force, c, r.out)
    BY <1>2 DEF Rebuild
  <2>2. cls[c] \in ClassState /\ Together(cls[c])
    BY DEF Inv, TypeOK, BuiltTogether
  <2>3. /\ r \in Results
        /\ r.state.val = "absent" => cls[c].val = "absent" \/ cls[c].complete
    BY <2>2, ConstantsAssumption, ModelRebuildGood
  <2>4. answerMap' = <<BaseModel, BaseModel>>
    BY <2>1 DEF answerMap, Call
  <2> QED
    BY <1>2, <2>1, <2>3, <2>4, BuildRefines DEF Rebuild
<1>3. ASSUME NEW c \in Classes, NEW attr \in {"val", "ser"}, Use(c, attr)
      PROVE  Lazy!Next
  <2>1. CASE \E h \in Nearest(c, attr) : LookUp("use", c, h, attr)
    BY <1>3, <2>1, UseRefines DEF Use
  <2>2. CASE last' = Call("use", c, FALSE, BaseModel, "base_model") /\ UNCHANGED cls
    <3>1. answerMap' = <<BaseModel, BaseModel>>
      BY <2>2 DEF answerMap, Call
    <3> QED
      BY <1>3, <2>2, <3>1, IdleRefines DEF Use
  <2> QED
    BY <1>3, <2>1, <2>2 DEF Use
<1>4. ASSUME NEW c \in Classes, JsonSchema(c) PROVE Lazy!Next
  BY <1>4, JsonSchemaRefines
<1>5. ASSUME NEW n \in Names, Bind(n) \/ Unbind(n) PROVE Lazy!Next
  <2>1. last' = Call("namespace", BaseModel, FALSE, BaseModel, "ok")
        /\ UNCHANGED <<defined, cls>>
    BY <1>5 DEF Bind, Unbind
  <2>2. answerMap' = <<BaseModel, BaseModel>>
    BY <2>1 DEF answerMap, Call
  <2> QED
    BY <2>1, <2>2, IdleRefines
<1>6. CASE UNCHANGED vars
  BY <1>6 DEF vars, Lazy!vars, Phase
<1> QED
  BY <1>1, <1>2, <1>3, <1>4, <1>5, <1>6 DEF Next

\* Every behaviour of the class machinery is one LazyBuild allows: whatever was
\* rebuilt, failed or used before, a validation is answered by a ready class, and
\* by another than the one asked only after a raising forced rebuild of it.
THEOREM ImplementsLazyBuild == Spec => LazySpec
<1>1. Init => Lazy!Init
  BY DEF Init, Lazy!Init, Lazy!NoAnswer, Phase, Call
<1>2. Init => UndefinedUnbuilt
  BY DEF Init, UndefinedUnbuilt
<1>3. Inv /\ UndefinedUnbuilt /\ [Next]_vars => UndefinedUnbuilt'
  BY NextUnbuilt
<1>4. Inv /\ UndefinedUnbuilt /\ [Next]_vars => [Lazy!Next]_(Lazy!vars)
  BY NextRefines
<1> QED
  BY <1>1, <1>2, <1>3, <1>4, InvHolds, PTL DEF Spec, LazySpec, Lazy!Spec

-----------------------------------------------------------------------------
(* Stored schemas are closed.  The invariant is about fields: what a field  *)
(* that is complete names was defined when it was evaluated, and stays so.  *)

\* In state t, the complete fields of c name things in D or other types.
Known(c, t, D) == Refs[c] \subseteq D \cup Types \cup t.pending

\* In state t, a core schema of c is closed over the classes in D.
SchemaClosed(c, t, D) ==
    t.core = "real" =>
        \A n \in Reach(c) : /\ n \in D \cup Types
                            /\ Sound(n)
                            /\ t.complete /\ n \in Types => Kind[n] = "plain"

FieldsKnown == \A c \in defined : Known(c, cls[c], defined)

SchemaInv == Inv /\ FieldsKnown /\ StoredSchemasClosed

\* The names that resolve stand for objects that exist.
LEMMA ResolvedExists ==
    ASSUME Inv, NEW pending, NEW c \in Classes, NEW root \in Classes,
           Unresolved(pending, c, root) = {}
    PROVE  pending \subseteq defined \cup {c, root} \cup Types
BY DEF Inv, TypeOK, Unresolved

\* A build that generates a schema without an error reaches only what is
\* defined and supported: what it walks, and what reused schemas reach.
LEMMA GeneratedClosed ==
    ASSUME SchemaInv, NEW c \in Classes,
           Refs[c] \subseteq defined \cup {c} \cup Types, GenerationErrors(c) = {}
    PROVE  \A n \in Reach(c) : /\ n \in defined \cup {c} \cup Types
                               /\ n \in Types => Kind[n] # "unsupported"
<1> DEFINE D == defined \cup {c}
           Reused == {m \in (Walked(c) \cap defined) \ {c} : cls[m].core = "real"}
           S == Walked(c) \cup UNION {Reach(m) : m \in Reused}
<1>1. defined \subseteq Classes
  BY DEF SchemaInv, Inv, TypeOK
<1>2. Walked(c) \subseteq D \cup Types
  <2> SUFFICES ASSUME NEW m \in (D \cup Types) \cap Classes
               PROVE  Entered(c)[m] \subseteq D \cup Types
    BY WalkedLeast
  <2>1. CASE Entered(c)[m] = {}
    BY <2>1
  <2>2. CASE Entered(c)[m] # {}
    <3>1. Entered(c)[m] = Refs[m] /\ (m # c => Unresolved(cls[m].pending, m, c) = {})
      BY <2>2 DEF Entered
    <3>2. CASE m = c
      BY <3>1, <3>2
    <3>3. CASE m # c
      <4>1. m \in defined /\ Known(m, cls[m], defined)
        BY <3>3, ConstantsAssumption DEF SchemaInv, FieldsKnown
      <4>2. cls[m].pending \subseteq defined \cup {m, c} \cup Types
        BY <3>1, <3>3, ResolvedExists DEF SchemaInv
      <4> QED
        BY <3>1, <4>1, <4>2 DEF Known
    <3> QED
      BY <3>2, <3>3
  <2> QED
    BY <2>1, <2>2
<1>3. Reach(c) \subseteq S
  <2>1. Refs[c] \subseteq S
    BY WalkedClosed
  <2>2. ASSUME NEW m \in S \cap Classes PROVE Refs[m] \subseteq S
    <3>1. CASE m = c
      BY <2>1, <3>1
    <3>2. CASE m \in Walked(c) /\ m # c /\ cls[m].core = "real"
      <4>1. m \in Reused
        BY <1>2, <3>2, ConstantsAssumption
      <4>2. Refs[m] \subseteq Reach(m)
        BY <2>2, ReachClosed
      <4> QED
        BY <4>1, <4>2
    <3>3. CASE m \in Walked(c) /\ m # c /\ cls[m].core # "real"
      <4>1. Unresolved(cls[m].pending, m, c) = {}
        <5> SUFFICES ASSUME Unresolved(cls[m].pending, m, c) # {}
                     PROVE  "undefined" \in GenerationErrors(c)
          OBVIOUS
        <5> QED
          BY <2>2, <3>3 DEF GenerationErrors
      <4>2. Entered(c)[m] = Refs[m]
        BY <2>2, <3>3, <4>1 DEF Entered
      <4> QED
        BY <2>2, <3>3, <4>2, WalkedClosed
    <3>4. CASE \E r \in Reused : m \in Reach(r)
      <4>1. PICK r \in Reused : m \in Reach(r)
        BY <3>4
      <4>2. Refs[m] \subseteq Reach(r)
        BY <1>1, <2>2, <4>1, ReachClosed
      <4> QED
        BY <4>1, <4>2
    <3> QED
      BY <2>2, <3>1, <3>2, <3>3, <3>4
  <2> HIDE DEF S
  <2> QED
    BY <2>1, <2>2, ReachLeast
<1>4. ASSUME NEW n \in Walked(c)
      PROVE  n \in D \cup Types /\ (n \in Types => Kind[n] # "unsupported")
  <2>1. ASSUME n \in Types, Kind[n] = "unsupported" PROVE "unsupported" \in GenerationErrors(c)
    BY <2>1 DEF GenerationErrors
  <2> QED
    BY <1>2, <2>1
<1>5. ASSUME NEW m \in Reused, NEW n \in Reach(m)
      PROVE  n \in D \cup Types /\ (n \in Types => Kind[n] # "unsupported")
  BY DEF SchemaInv, StoredSchemasClosed, Sound
<1> QED
  BY <1>3, <1>4, <1>5

\* What any build of c leaves: a core schema only if it is closed.
LEMMA BuildSchemaFits ==
    ASSUME SchemaInv, NEW c \in Classes, NEW s \in ClassState,
           s.core # "real", ~s.complete, Known(c, s, defined \cup {c}), s.pending = {},
           NEW raise, NEW hook \in BOOLEAN, NEW r \in BuildSchema(c, s, raise, hook)
    PROVE  /\ Known(c, r.state, defined \cup {c})
           /\ SchemaClosed(c, r.state, defined \cup {c})
<1> USE DEF Result
<1>1. CASE r.state.core # "real" /\ r.state.pending = {}
  BY <1>1 DEF Known, SchemaClosed
<1>2. CASE GenerationErrors(c) # {}
  <2>1. PICK e \in GenerationErrors(c) : r = GenerationFailed(s, e, raise)
    BY <1>2 DEF BuildSchema
  <2> QED
    BY <1>1, <2>1 DEF GenerationFailed, Mocked, ClassState
<1>3. CASE GenerationErrors(c) = {} /\ Contains(c, "dangling")
  <2>1. r = [state |-> Mocked(s), out |-> "false"]
    BY <1>3 DEF BuildSchema
  <2> QED
    BY <1>1, <2>1 DEF Mocked, ClassState
<1>4. CASE GenerationErrors(c) = {} /\ ~Contains(c, "dangling")
  <2>1. \A n \in Reach(c) : /\ n \in defined \cup {c} \cup Types
                            /\ n \in Types => Kind[n] \notin {"unsupported", "dangling"}
    BY <1>4, GeneratedClosed DEF Known, Contains
  <2>2. CASE Contains(c, "unbuildable")
    <3>1. r = [state |-> [s EXCEPT !.core = "real"], out |-> "unbuildable"]
      BY <1>4, <2>2 DEF BuildSchema
    <3>2. r.state.pending = {} /\ ~r.state.complete
      BY <3>1 DEF ClassState
    <3> QED
      BY <2>1, <3>2 DEF Known, SchemaClosed, Sound
  <2>3. CASE ~Contains(c, "unbuildable")
    <3>1. r = [state |-> Built(s, hook), out |-> "true"]
      BY <1>4, <2>3 DEF BuildSchema
    <3>2. r.state.pending = {}
      BY <3>1 DEF Built, ClassState
    <3>3. \A n \in Reach(c) : n \in Types => Kind[n] = "plain"
      BY <2>1, <2>3, ConstantsAssumption DEF Contains, Kinds
    <3> QED
      BY <2>1, <3>2, <3>3 DEF Known, SchemaClosed, Sound
  <2> QED
    BY <2>2, <2>3
<1> QED
  BY <1>2, <1>3, <1>4

LEMMA CompleteModelClassFits ==
    ASSUME SchemaInv, NEW c \in Classes, NEW s \in ClassState,
           s.core # "real", ~s.complete, Known(c, s, defined \cup {c}),
           NEW raise, NEW hook \in BOOLEAN, NEW r \in CompleteModelClass(c, s, raise, hook)
    PROVE  /\ Known(c, r.state, defined \cup {c})
           /\ SchemaClosed(c, r.state, defined \cup {c})
<1> DEFINE t == [s EXCEPT !.pending = {}]
<1>1. CASE Unresolved(s.pending, c, c) # {}
  <2>1. r.state = Mocked(s)
    BY <1>1 DEF CompleteModelClass, Result
  <2> QED
    BY <2>1 DEF Mocked, Known, SchemaClosed, ClassState
<1>2. CASE Unresolved(s.pending, c, c) = {}
  <2>1. r \in BuildSchema(c, t, raise, hook)
    BY <1>2 DEF CompleteModelClass
  <2>2. s.pending \subseteq defined \cup {c} \cup Types
    BY <1>2, ResolvedExists DEF SchemaInv
  <2>3. t \in ClassState /\ t.core # "real" /\ ~t.complete /\ t.pending = {}
    BY DEF ClassState
  <2>4. Known(c, t, defined \cup {c})
    BY <2>2, <2>3 DEF Known
  <2> HIDE DEF t
  <2> QED
    BY <2>1, <2>3, <2>4, BuildSchemaFits
<1> QED
  BY <1>1, <1>2

\* The same for model_rebuild() of a class that exists.
LEMMA ModelRebuildFits ==
    ASSUME SchemaInv, NEW c \in defined, NEW force, NEW raise,
           NEW r \in ModelRebuild(c, force, raise)
    PROVE  Known(c, r.state, defined) /\ SchemaClosed(c, r.state, defined)
<1>1. c \in Classes /\ cls[c] \in ClassState /\ defined \cup {c} = defined
  BY DEF SchemaInv, Inv, TypeOK
<1>2. Known(c, cls[c], defined) /\ SchemaClosed(c, cls[c], defined)
  BY DEF SchemaInv, FieldsKnown, StoredSchemasClosed, SchemaClosed
<1>3. CASE r = Result(cls[c], "none")
  BY <1>2, <1>3 DEF Result
<1>4. CASE r \in CompleteModelClass(c, Cleared(cls[c]), raise, ~cls[c].complete)
  <2> DEFINE s == Cleared(cls[c])
             hook == ~cls[c].complete
  <2>1. /\ s \in ClassState /\ s.core # "real" /\ ~s.complete
        /\ s.pending = cls[c].pending /\ hook \in BOOLEAN
    BY <1>1 DEF Cleared, DropReal, ClassState, Attr
  <2>2. Known(c, s, defined \cup {c})
    BY <1>1, <1>2, <2>1 DEF Known
  <2> HIDE DEF s, hook
  <2>3. r \in CompleteModelClass(c, s, raise, hook)
    BY <1>4 DEF s, hook
  <2> QED
    BY <1>1, <2>1, <2>2, <2>3, CompleteModelClassFits
<1> QED
  BY <1>3, <1>4 DEF ModelRebuild

\* What one class is left with, and what that means for all of them.
LEMMA StoreKeepsSchemas ==
    ASSUME SchemaInv, NEW h \in Classes, NEW s, cls' = [cls EXCEPT ![h] = s],
           defined' = defined \cup {h}, Known(h, s, defined'), SchemaClosed(h, s, defined')
    PROVE  FieldsKnown' /\ StoredSchemasClosed'
<1>1. cls'[h] = s /\ \A c \in Classes \ {h} : cls'[c] = cls[c]
  BY DEF SchemaInv, Inv, TypeOK
<1>2. ASSUME NEW c \in defined'
      PROVE  Known(c, cls'[c], defined') /\ SchemaClosed(c, cls'[c], defined')
  <2>1. CASE c = h
    BY <1>1, <2>1
  <2>2. CASE c # h
    <3>1. c \in defined /\ cls'[c] = cls[c]
      BY <1>1, <2>2 DEF SchemaInv, Inv, TypeOK
    <3>2. Known(c, cls[c], defined) /\ SchemaClosed(c, cls[c], defined)
      BY <3>1 DEF SchemaInv, FieldsKnown, StoredSchemasClosed, SchemaClosed
    <3> QED
      BY <3>1, <3>2 DEF Known, SchemaClosed
  <2> QED
    BY <2>1, <2>2
<1>3. FieldsKnown'
  BY <1>2 DEF FieldsKnown
<1>4. StoredSchemasClosed'
  BY <1>2 DEF StoredSchemasClosed, SchemaClosed
<1> QED
  BY <1>3, <1>4

\* Fields that are new are complete when their names resolve; inherited ones
\* are complete when the parent's are.
LEMMA CollectedKnown ==
    ASSUME SchemaInv, NEW c \in Classes, Parent[c] \in defined \cup {BaseModel}
    PROVE  Known(c, Collected(c), defined \cup {c})
<1> DEFINE inherited == IF Parent[c] \in Classes THEN cls[Parent[c]].pending ELSE {}
<1>1. Collected(c).pending = Unresolved(OwnRefs[c], c, c) \cup inherited
  BY DEF Collected, Unbuilt
<1>2. ASSUME NEW n \in Refs[c]
      PROVE  n \in defined \cup {c} \cup Types \cup Collected(c).pending
  <2>1. CASE n \in OwnRefs[c]
    BY <1>1, <2>1 DEF Unresolved, SchemaInv, Inv, TypeOK
  <2>2. CASE Parent[c] \in Classes /\ n \in Refs[Parent[c]]
    <3>1. Parent[c] \in defined
      BY <2>2, ConstantsAssumption DEF Names
    <3>2. Known(Parent[c], cls[Parent[c]], defined)
      BY <3>1 DEF SchemaInv, FieldsKnown
    <3> QED
      BY <1>1, <2>2, <3>2 DEF Known
  <2> QED
    BY <2>1, <2>2, RefsThroughParent
<1> QED
  BY <1>2 DEF Known

LEMMA DefineKeepsSchemas ==
    ASSUME SchemaInv, NEW c \in Classes, DefineClass(c)
    PROVE  FieldsKnown' /\ StoredSchemasClosed'
<1>1. PICK r \in (IF c \in Deferred
                  THEN {Result(Mocked(Collected(c)), "false")}
                  ELSE CompleteModelClass(c, Collected(c), FALSE, TRUE)) :
        IF r.out \in Raised
        THEN UNCHANGED <<defined, bound, cls>>
        ELSE defined' = defined \cup {c} /\ cls' = [cls EXCEPT ![c] = r.state]
  BY DEF DefineClass
<1>2. CASE r.out \in Raised
  BY <1>1, <1>2 DEF SchemaInv, FieldsKnown, StoredSchemasClosed
<1>3. CASE r.out \notin Raised
  <2>1. Collected(c) \in ClassState /\ Collected(c).core # "real" /\ ~Collected(c).complete
    <3>1. Fresh(Collected(c))
      BY CollectedFresh DEF SchemaInv, Inv
    <3> QED
      BY <3>1 DEF Fresh, Collected, Unbuilt
  <2>2. Known(c, Collected(c), defined \cup {c})
    BY CollectedKnown DEF DefineClass
  <2>3. Known(c, r.state, defined \cup {c}) /\ SchemaClosed(c, r.state, defined \cup {c})
    <3>1. CASE c \in Deferred
      <4>1. r.state = Mocked(Collected(c))
        BY <1>1, <3>1 DEF Result
      <4> QED
        BY <2>1, <2>2, <4>1 DEF Mocked, Known, SchemaClosed, ClassState
    <3>2. CASE c \notin Deferred
      BY <1>1, <2>1, <2>2, <3>2, CompleteModelClassFits
    <3> QED
      BY <3>1, <3>2
  <2> QED
    BY <1>1, <1>3, <2>3, StoreKeepsSchemas
<1> QED
  BY <1>2, <1>3

LEMMA RebuildKeepsSchemas ==
    ASSUME SchemaInv, NEW h \in defined, NEW force, NEW raise, UNCHANGED defined,
           NEW r \in ModelRebuild(h, force, raise), cls' = [cls EXCEPT ![h] = r.state]
    PROVE  FieldsKnown' /\ StoredSchemasClosed'
<1>1. h \in Classes /\ defined' = defined \cup {h}
  BY DEF SchemaInv, Inv, TypeOK
<1>2. Known(h, r.state, defined') /\ SchemaClosed(h, r.state, defined')
  BY ModelRebuildFits
<1> QED
  BY <1>1, <1>2, StoreKeepsSchemas

LEMMA LookUpKeepsSchemas ==
    ASSUME SchemaInv, UndefinedUnbuilt, NEW op, NEW c \in Classes, NEW attr \in Attrs,
           NEW h \in Nearest(c, attr), LookUp(op, c, h, attr), UNCHANGED defined
    PROVE  FieldsKnown' /\ StoredSchemasClosed'
<1>1. h \in defined
  BY FoundDefined DEF SchemaInv
<1>2. CASE UNCHANGED cls
  BY <1>2 DEF SchemaInv, FieldsKnown, StoredSchemasClosed
<1>3. CASE UseMock(op, c, h, attr)
  BY <1>1, <1>3, RebuildKeepsSchemas DEF UseMock
<1> QED
  BY <1>2, <1>3 DEF LookUp

LEMMA NextKeepsSchemas ==
    ASSUME SchemaInv, UndefinedUnbuilt, [Next]_vars
    PROVE  FieldsKnown' /\ StoredSchemasClosed'
<1>1. ASSUME NEW c \in Classes, DefineClass(c) PROVE FieldsKnown' /\ StoredSchemasClosed'
  BY <1>1, DefineKeepsSchemas
<1>2. ASSUME NEW c \in Classes, NEW force \in Forces, NEW raise \in BOOLEAN,
             Rebuild(c, force, raise)
      PROVE  FieldsKnown' /\ StoredSchemasClosed'
  BY <1>2, RebuildKeepsSchemas DEF Rebuild
<1>3. CASE UNCHANGED <<defined, cls>>
  BY <1>3 DEF SchemaInv, FieldsKnown, StoredSchemasClosed
<1>4. ASSUME NEW c \in Classes, NEW attr \in {"val", "ser"}, Use(c, attr)
      PROVE  FieldsKnown' /\ StoredSchemasClosed'
  <2>1. CASE \E h \in Nearest(c, attr) : LookUp("use", c, h, attr)
    BY <1>4, <2>1, LookUpKeepsSchemas DEF Use, Attrs
  <2> QED
    BY <1>3, <1>4, <2>1 DEF Use
<1>5. ASSUME NEW c \in Classes, JsonSchema(c) PROVE FieldsKnown' /\ StoredSchemasClosed'
  <2>1. CASE \E h \in Nearest(c, "core") : LookUp("json_schema", c, h, "core")
    BY <1>5, <2>1, LookUpKeepsSchemas DEF JsonSchema, Attrs
  <2> QED
    BY <1>3, <1>5, <2>1 DEF JsonSchema
<1> QED
  BY <1>1, <1>2, <1>3, <1>4, <1>5 DEF Next, Bind, Unbind, vars

LEMMA SchemaInvHolds == Spec => [](SchemaInv /\ UndefinedUnbuilt)
<1>1. Init => SchemaInv /\ UndefinedUnbuilt
  BY InitInv DEF Init, SchemaInv, FieldsKnown, StoredSchemasClosed, UndefinedUnbuilt
<1>2. SchemaInv /\ UndefinedUnbuilt /\ [Next]_vars => (SchemaInv /\ UndefinedUnbuilt)'
  BY NextInv, NextKeepsSchemas, NextUnbuilt DEF SchemaInv
<1> QED
  BY <1>1, <1>2, PTL DEF Spec

\* A core schema a class has stored reaches only what was defined, through any
\* number of schemas reused from other builds, and a complete class reaches
\* nothing that cannot be built (_model_schema, complete_model_class).
THEOREM SchemasClosed == Spec => []StoredSchemasClosed
<1>1. SchemaInv => StoredSchemasClosed
  BY DEF SchemaInv
<1> QED
  BY <1>1, SchemaInvHolds, PTL

\* A forced rebuild of a class that only lacked names succeeds once they are all
\* bound, whatever earlier builds left (model_rebuild, complete_model_class).
THEOREM Repairable == Spec => []AlwaysRepairable
<1>1. Inv => AlwaysRepairable
  <2> SUFFICES ASSUME Inv, Names \subseteq bound, NEW c \in defined \cap Healthy,
                      NEW raise \in BOOLEAN, NEW r \in ModelRebuild(c, TRUE, raise)
               PROVE  r.out = "true"
    BY DEF AlwaysRepairable
  <2> DEFINE s == Cleared(cls[c])
             t == [s EXCEPT !.pending = {}]
             hook == ~cls[c].complete
  <2>1. c \in Classes /\ cls \in [Classes -> ClassState]
    BY DEF Inv, TypeOK
  <2>2. ASSUME NEW m \in Classes PROVE Unresolved(cls[m].pending, m, c) = {}
    BY <2>1 DEF Unresolved, ClassState
  <2>3. s.pending = cls[c].pending
    BY <2>1 DEF Cleared, ClassState
  <2>4. r \in BuildSchema(c, t, raise, hook)
    BY <2>1, <2>2, <2>3 DEF ModelRebuild, CompleteModelClass
  <2>5. GenerationErrors(c) = {}
    BY <2>1, <2>2, WalkedReached DEF GenerationErrors, Healthy
  <2>6. ~Contains(c, "dangling") /\ ~Contains(c, "unbuildable")
    BY DEF Contains, Healthy
  <2> QED
    BY <2>4, <2>5, <2>6 DEF BuildSchema, Result
<1> QED
  BY <1>1, InvHolds, PTL
=============================================================================
