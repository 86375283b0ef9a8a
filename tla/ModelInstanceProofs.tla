------------------------- MODULE ModelInstanceProofs -------------------------
(***************************************************************************)
(* What ModelInstance promises for every class and any number of           *)
(* instances, names and values.                                            *)
(***************************************************************************)
EXTENDS ModelInstance, InductionLemmas, TLAPS

-----------------------------------------------------------------------------
(* Dictionaries.                                                           *)

LEMMA ObjectIs ==
    ASSUME NEW f
    PROVE  f \in Object <=> /\ f \in [DOMAIN f -> Values]
                            /\ DOMAIN f \subseteq Names
<1>1. ASSUME f \in Object PROVE f \in [DOMAIN f -> Values] /\ DOMAIN f \subseteq Names
  <2>1. PICK S \in SUBSET Names : f \in [S -> Values]
    BY <1>1 DEF Object
  <2> QED
    BY <2>1
<1>2. ASSUME f \in [DOMAIN f -> Values], DOMAIN f \subseteq Names PROVE f \in Object
  BY <1>2 DEF Object
<1> QED
  BY <1>1, <1>2

LEMMA EmptyObject == Empty \in Object /\ DOMAIN Empty = {}
<1>1. DOMAIN Empty = {}
  BY DEF Empty
<1>2. Empty \in [{} -> Values]
  BY DEF Empty
<1> QED
  BY <1>1, <1>2, ObjectIs

LEMMA PutObject ==
    ASSUME NEW f \in Object, NEW n \in Names, NEW v \in Values
    PROVE  /\ Put(f, n, v) \in Object
           /\ DOMAIN Put(f, n, v) = DOMAIN f \cup {n}
           /\ Put(f, n, v)[n] = v
           /\ \A m \in DOMAIN f : m # n => Put(f, n, v)[m] = f[m]
<1>1. f \in [DOMAIN f -> Values] /\ DOMAIN f \subseteq Names
  BY ObjectIs
<1>2. Put(f, n, v) \in [DOMAIN f \cup {n} -> Values] /\ DOMAIN Put(f, n, v) = DOMAIN f \cup {n}
  BY <1>1 DEF Put
<1>3. Put(f, n, v) \in Object
  BY <1>1, <1>2, ObjectIs
<1> QED
  BY <1>2, <1>3 DEF Put

LEMMA WithoutObject ==
    ASSUME NEW f \in Object, NEW S
    PROVE  /\ Without(f, S) \in Object
           /\ DOMAIN Without(f, S) = DOMAIN f \ S
           /\ \A m \in DOMAIN f \ S : Without(f, S)[m] = f[m]
<1>1. f \in [DOMAIN f -> Values] /\ DOMAIN f \subseteq Names
  BY ObjectIs
<1>2. Without(f, S) \in [DOMAIN f \ S -> Values] /\ DOMAIN Without(f, S) = DOMAIN f \ S
  BY <1>1 DEF Without
<1>3. Without(f, S) \in Object
  BY <1>1, <1>2, ObjectIs
<1> QED
  BY <1>2, <1>3 DEF Without

LEMMA OnlyObject ==
    ASSUME NEW f \in Object, NEW S
    PROVE  /\ Only(f, S) \in Object
           /\ DOMAIN Only(f, S) = DOMAIN f \cap S
           /\ \A m \in DOMAIN f \cap S : Only(f, S)[m] = f[m]
<1>1. f \in [DOMAIN f -> Values] /\ DOMAIN f \subseteq Names
  BY ObjectIs
<1>2. Only(f, S) \in [DOMAIN f \cap S -> Values] /\ DOMAIN Only(f, S) = DOMAIN f \cap S
  BY <1>1 DEF Only
<1>3. Only(f, S) \in Object
  BY <1>1, <1>2, ObjectIs
<1> QED
  BY <1>2, <1>3 DEF Only

LEMMA UpdateObject ==
    ASSUME NEW f \in Object, NEW g \in Object
    PROVE  /\ Update(f, g) \in Object
           /\ DOMAIN Update(f, g) = DOMAIN f \cup DOMAIN g
           /\ \A m \in DOMAIN g : Update(f, g)[m] = g[m]
           /\ \A m \in DOMAIN f \ DOMAIN g : Update(f, g)[m] = f[m]
<1>1. /\ f \in [DOMAIN f -> Values] /\ DOMAIN f \subseteq Names
      /\ g \in [DOMAIN g -> Values] /\ DOMAIN g \subseteq Names
  BY ObjectIs
<1>2. /\ Update(f, g) \in [DOMAIN f \cup DOMAIN g -> Values]
      /\ DOMAIN Update(f, g) = DOMAIN f \cup DOMAIN g
  BY <1>1 DEF Update
<1>3. Update(f, g) \in Object
  BY <1>1, <1>2, ObjectIs
<1> QED
  BY <1>2, <1>3 DEF Update

\* What a program passes to a constructor.
LEMMA InputObject ==
    ASSUME NEW S \in SUBSET Names, NEW data \in Inputs(S)
    PROVE  data \in Object /\ DOMAIN data \subseteq S
<1>1. PICK T \in SUBSET S : data \in [T -> Values]
  BY DEF Inputs
<1> QED
  BY <1>1, ObjectIs

-----------------------------------------------------------------------------
(* The class.                                                              *)

LEMMA ModelFits ==
    ASSUME model \in Models
    PROVE  /\ model \in Model
           /\ Fields \subseteq Names
           /\ Fields \cap (Underscored \cup model.cached) = {}
           /\ model.privates \subseteq Underscored
           /\ model.lateFrozen \subseteq Fields
           /\ \A k \in 1 .. Len(model.fields) : model.fields[k] \in Fields
           /\ Len(model.fields) \in Nat
<1>1. model \in Model
  BY ModelsAssumption
<1>2. model.fields \in Seq(Names) /\ Len(model.fields) \in Nat
      /\ DOMAIN model.fields = 1 .. Len(model.fields)
  BY <1>1 DEF Model
<1>3. /\ Fields \subseteq Names
      /\ \A k \in 1 .. Len(model.fields) : model.fields[k] \in Fields
  BY <1>2 DEF Fields, Range
<1> QED
  BY <1>1, <1>2, <1>3, ModelsAssumption DEF Fields

LEMMA DefaultsObject ==
    ASSUME model \in Models, NEW S \in SUBSET Names
    PROVE  /\ Defaults(S) \in Object
           /\ DOMAIN Defaults(S) = S \ model.required
           /\ \A n \in S \ model.required : Defaults(S)[n] = model.default[n]
<1>1. model.default \in [Names -> Values]
  BY ModelFits DEF Model
<1>2. Defaults(S) \in [S \ model.required -> Values] /\ DOMAIN Defaults(S) = S \ model.required
  BY <1>1 DEF Defaults
<1>3. Defaults(S) \in Object
  BY <1>2, ObjectIs
<1> QED
  BY <1>2, <1>3 DEF Defaults

LEMMA PrivateDefaultsObject ==
    ASSUME model \in Models
    PROVE  PrivateDefaults \in Object
<1>1. model.privates \in SUBSET Names
  BY ModelFits DEF Model
<1>2. PrivateDefaults = Defaults(model.privates)
  BY DEF PrivateDefaults, Defaults
<1> QED
  BY <1>1, <1>2, DefaultsObject

-----------------------------------------------------------------------------
(* The loop of model_construct().                                          *)

\* What the loop holds between two turns.
Takings == [got : {o \in Object : DOMAIN o \subseteq Fields}, left : Object]

LEMMA TakeFieldFits ==
    ASSUME model \in Models, NEW before \in Takings, NEW f \in Fields
    PROVE  TakeField(before, f) \in Takings
<1> DEFINE keys == model.keys[f]
           hits == {j \in 1 .. Len(keys) : keys[j].name \in DOMAIN before.left}
           key == keys[CHOOSE j \in hits : \A l \in hits : j <= l]
<1>1. f \in Names
  BY ModelFits
<1>2. keys \in Seq([name : Names, path : BOOLEAN])
  BY <1>1, ModelFits DEF Model
<1>3. CASE hits = {}
  <2>1. TakeField(before, f) = before
    BY <1>3 DEF TakeField
  <2> QED
    BY <2>1
<1>4. CASE hits # {}
  <2>1. Len(keys) \in Nat
    BY <1>2
  <2>2. hits \in SUBSET Nat
    <3> HIDE DEF keys
    <3> QED
      BY <2>1
  <2>3. \E j \in hits : \A l \in hits : j <= l
    <3> HIDE DEF hits
    <3> QED
      BY <1>4, <2>2, LeastNumber
  <2>4. \E j \in hits : key = keys[j]
    <3> HIDE DEF hits, keys
    <3> QED
      BY <2>3
  <2>5. key.name \in DOMAIN before.left
    <3> HIDE DEF keys, key
    <3> QED
      BY <2>4
  <2>6. /\ before.got \in Object /\ DOMAIN before.got \subseteq Fields
        /\ before.left \in Object
    BY DEF Takings
  <2>7. before.left[key.name] \in Values
    <3> HIDE DEF key
    <3> QED
      BY <2>5, <2>6, ObjectIs
  <2> DEFINE got == Put(before.got, f, before.left[key.name])
             left == IF key.path THEN before.left ELSE Without(before.left, {key.name})
  <2>8. TakeField(before, f) = [got |-> got, left |-> left]
    BY <1>4 DEF TakeField
  <2>9. got \in Object /\ DOMAIN got = DOMAIN before.got \cup {f}
    <3> HIDE DEF key
    <3> QED
      BY <1>1, <2>6, <2>7, PutObject
  <2>10. left \in Object
    <3> HIDE DEF key
    <3> QED
      BY <2>6, WithoutObject
  <2> HIDE DEF got, left
  <2> QED
    BY <2>6, <2>8, <2>9, <2>10 DEF Takings
<1> QED
  BY <1>3, <1>4

\* model_construct() stores values under names of fields, and what it leaves is
\* what it was given, or part of it.
LEMMA TakenFits ==
    ASSUME model \in Models, NEW data \in Object
    PROVE  Taken(data) \in Takings
<1> DEFINE N == Len(model.fields)
           base == [got |-> Empty, left |-> data]
           Step == [k \in 1 .. N |-> [x \in Takings |-> TakeField(x, model.fields[k])]]
           Loop(g) == [k \in 0 .. N |-> IF k = 0 THEN base ELSE TakeField(g[k - 1], model.fields[k])]
<1>1. N \in Nat /\ \A k \in 1 .. N : model.fields[k] \in Fields
  BY ModelFits
<1>2. base \in Takings
  BY EmptyObject DEF Takings
<1>3. Step \in [1 .. N -> [Takings -> Takings]]
  <2> HIDE DEF N
  <2> QED
    BY <1>1, TakeFieldFits
<1>4. PICK f \in [0 .. N -> Takings] :
        f[0] = base /\ \A k \in 1 .. N : f[k] = Step[k][f[k - 1]]
  <2> HIDE DEF N, base, Step
  <2>1. Solutions(N, Takings, base, Step) # {}
    BY <1>1, <1>2, <1>3, SolutionExists
  <2> QED
    BY <2>1 DEF Solutions
<1>5. f = Loop(f)
  <2>1. ASSUME NEW k \in 0 .. N
        PROVE  f[k] = IF k = 0 THEN base ELSE TakeField(f[k - 1], model.fields[k])
    <3>1. CASE k = 0
      BY <1>4, <3>1
    <3>2. CASE k # 0
      <4>1. k \in 1 .. N /\ k - 1 \in 0 .. N
        BY <1>1, <3>2
      <4>2. f[k - 1] \in Takings
        BY <1>4, <4>1
      <4>3. Step[k][f[k - 1]] = TakeField(f[k - 1], model.fields[k])
        BY <4>1, <4>2
      <4> QED
        BY <1>4, <3>2, <4>1, <4>3
    <3> QED
      BY <3>1, <3>2
  <2> HIDE DEF N, base, Step
  <2>2. f = [k \in 0 .. N |-> f[k]]
    BY <1>4
  <2> QED
    BY <2>1, <2>2, Zenon
<1> DEFINE g == CHOOSE h : h = Loop(h)
<1>6. g = Loop(g)
  <2> HIDE DEF Loop
  <2> QED
    BY <1>5
<1>7. Taken(data) = g[N]
  BY DEF Taken
<1> HIDE DEF g
<1> DEFINE T == {k \in Nat : k <= N => g[k] \in Takings}
<1>8. \A k \in 0 .. N : g[k] = IF k = 0 THEN base ELSE TakeField(g[k - 1], model.fields[k])
  <2> HIDE DEF N, base
  <2> QED
    BY <1>6
<1>9. 0 \in T
  <2>1. 0 \in 0 .. N
    BY <1>1
  <2> HIDE DEF N, base
  <2> QED
    BY <1>2, <1>8, <2>1
<1>10. ASSUME NEW k \in Nat, k \in T PROVE k + 1 \in T
  <2> SUFFICES ASSUME k + 1 <= N PROVE g[k + 1] \in Takings
    OBVIOUS
  <2> HIDE DEF base
  <2>1. k + 1 \in 0 .. N /\ k + 1 # 0 /\ (k + 1) - 1 = k /\ k + 1 \in 1 .. N /\ k <= N
    BY <1>1
  <2>2. g[k] \in Takings
    BY <1>10, <2>1
  <2>3. g[k + 1] = TakeField(g[k], model.fields[k + 1])
    BY <1>8, <2>1
  <2> QED
    BY <1>1, <2>1, <2>2, <2>3, TakeFieldFits
<1>11. N \in T
  <2> HIDE DEF T
  <2> QED
    BY <1>1, <1>9, <1>10, InductionOnNat
<1> QED
  BY <1>1, <1>7, <1>11

-----------------------------------------------------------------------------
(* The invariant.                                                          *)

\* What is known of a name for which _setattr_handler() has chosen h.  Unlike
\* HandlersUpToDate it says so of frozen fields too.
HandlerFits(n, h) ==
    /\ n \notin model.classVars
    /\ h = "private" => n \in model.privates
    /\ h = "cached_property" => n \in model.cached
    /\ h = "model_field" => n \in Fields
    /\ h = "extra_known" => n \in attributes
    /\ h = "validate_assignment" => model.validateAssignment /\ n \notin Underscored

HandlersFit == \A n \in Names : handlers[n] # NoHandler => HandlerFits(n, handlers[n])

ClassTypeOK ==
    /\ model \in Models
    /\ resolved \in BOOLEAN
    /\ attributes \subseteq Names \ (Fields \cup Underscored)
    /\ handlers \in [Names -> Memoized \cup {NoHandler}]

ClassInv == ClassTypeOK /\ HandlersFit /\ HandlersUpToDate

ObjectTypeOK ==
    /\ made \subseteq Instances
    /\ dict \in [Instances -> Object] /\ extra \in [Instances -> Object]
    /\ fieldsSet \in [Instances -> SUBSET Names] /\ setOf \in [Instances -> Instances]
    /\ private \in [Instances -> Object] /\ privateOf \in [Instances -> Instances]
    /\ borrowed \in [Instances -> BOOLEAN]

\* Whose set and whose private dictionary an instance has.
Owned ==
    \A i \in made :
        /\ setOf[i] \in made /\ privateOf[i] \in made
        /\ borrowed[i] \/ setOf[i] = i
        /\ model.root \/ privateOf[i] = i

\* The names that a class with extra attributes has in the __dict__ of its
\* instances; any other name is in __pydantic_extra__.
DictNames == Fields \cup model.cached \cup Underscored \cup attributes

Placed == model.extra = "allow" => \A i \in made : DOMAIN dict[i] \subseteq DictNames

ObjectInv == ObjectTypeOK /\ Owned /\ Placed /\ UnsetFieldsHoldDefaults

InstanceInv == ClassInv /\ ObjectInv

\* ObjectInv when the attributes of one instance changed.
LEMMA ChangeKeepsObjectInv ==
    ASSUME ClassInv, ObjectInv, NEW i \in made, UNCHANGED <<class, made, setOf, privateOf, borrowed>>,
           NEW d \in Object, dict' = [dict EXCEPT ![i] = d],
           extra' \in [Instances -> Object], private' \in [Instances -> Object],
           NEW S \in SUBSET Names, AddToSet(i, S),
           \A f \in DOMAIN d \cap Fields :
              f \in S \/ (f \in DOMAIN dict[i] /\ d[f] = dict[i][f]),
           model.extra = "allow" => DOMAIN d \subseteq DictNames
    PROVE  ObjectInv'
<1>1. i \in Instances /\ dict \in [Instances -> Object] /\ setOf[i] \in Instances
      /\ fieldsSet \in [Instances -> SUBSET Names]
  BY DEF ObjectInv, ObjectTypeOK
<1>2. fieldsSet' = [fieldsSet EXCEPT ![setOf[i]] = fieldsSet[setOf[i]] \cup S]
  BY DEF AddToSet
<1>3. ObjectTypeOK'
  <2>1. dict' \in [Instances -> Object] /\ fieldsSet' \in [Instances -> SUBSET Names]
    BY <1>1, <1>2
  <2> QED
    BY <2>1 DEF ObjectInv, ObjectTypeOK
<1>4. Owned'
  BY DEF class, ObjectInv, Owned
<1>5. Placed'
  <2>1. \A j \in made : dict'[j] = IF j = i THEN d ELSE dict[j]
    BY <1>1 DEF ObjectInv, ObjectTypeOK
  <2> QED
    BY <2>1 DEF class, ObjectInv, Placed, DictNames, Fields
<1>6. UnsetFieldsHoldDefaults'
  <2> SUFFICES ASSUME NEW j \in made, ~borrowed[j],
                      NEW f \in (DOMAIN dict'[j] \cap Fields) \ FieldsSet(j)'
               PROVE  f \notin model.required /\ dict'[j][f] = model.default[f]
    BY DEF UnsetFieldsHoldDefaults, class, Fields
  <2>1. j \in Instances /\ setOf[j] \in Instances
    BY DEF ObjectInv, ObjectTypeOK
  <2>2. FieldsSet(j)' = IF setOf[j] = setOf[i] THEN FieldsSet(j) \cup S ELSE FieldsSet(j)
    BY <1>1, <1>2, <2>1 DEF FieldsSet
  <2>3. f \in DOMAIN dict[j] /\ dict'[j][f] = dict[j][f]
    <3>1. CASE j = i
      BY <1>1, <2>2, <3>1
    <3>2. CASE j # i
      BY <1>1, <2>1, <3>2
    <3> QED
      BY <3>1, <3>2
  <2>4. f \in (DOMAIN dict[j] \cap Fields) \ FieldsSet(j)
    BY <2>2, <2>3
  <2> QED
    BY <2>3, <2>4 DEF ObjectInv, UnsetFieldsHoldDefaults
<1> QED
  BY <1>3, <1>4, <1>5, <1>6 DEF ObjectInv

\* ObjectInv when an instance was made: s and p are the instances whose set and
\* whose private dictionary it has.
LEMMA MakeKeepsObjectInv ==
    ASSUME ClassInv, ObjectInv, UNCHANGED class, NEW j \in Instances, j \notin made,
           made' = made \cup {j},
           NEW d \in Object, dict' = [dict EXCEPT ![j] = d],
           NEW x \in Object, extra' = [extra EXCEPT ![j] = x],
           private' \in [Instances -> Object],
           NEW p \in made \cup {j}, privateOf' = [privateOf EXCEPT ![j] = p],
           model.root \/ p = j,
           NEW S \in SUBSET Names,
           NEW s \in made \cup {j}, setOf' = [setOf EXCEPT ![j] = s],
           NEW b \in BOOLEAN, borrowed' = [borrowed EXCEPT ![j] = b],
           IF s = j THEN fieldsSet' = [fieldsSet EXCEPT ![j] = S]
                    ELSE b /\ UNCHANGED fieldsSet,
           model.extra = "allow" => DOMAIN d \subseteq DictNames,
           ~b => \A f \in (DOMAIN d \cap Fields) \ S :
                    f \notin model.required /\ d[f] = model.default[f]
    PROVE  ObjectInv'
<1>1. /\ made \subseteq Instances /\ dict \in [Instances -> Object]
      /\ fieldsSet \in [Instances -> SUBSET Names]
      /\ setOf \in [Instances -> Instances] /\ privateOf \in [Instances -> Instances]
      /\ borrowed \in [Instances -> BOOLEAN] /\ extra \in [Instances -> Object]
  BY DEF ObjectInv, ObjectTypeOK
<1>2. /\ made' \subseteq Instances /\ dict' \in [Instances -> Object]
      /\ fieldsSet' \in [Instances -> SUBSET Names]
      /\ setOf' \in [Instances -> Instances] /\ privateOf' \in [Instances -> Instances]
      /\ borrowed' \in [Instances -> BOOLEAN] /\ extra' \in [Instances -> Object]
  <2>1. s \in Instances /\ p \in Instances
    BY <1>1
  <2>2. fieldsSet' \in [Instances -> SUBSET Names]
    BY <1>1
  <2> QED
    BY <1>1, <2>1, <2>2
<1>3. ObjectTypeOK'
  BY <1>2 DEF ObjectTypeOK
<1>4. /\ dict'[j] = d /\ setOf'[j] = s /\ privateOf'[j] = p /\ borrowed'[j] = b
      /\ \A i \in made : /\ dict'[i] = dict[i] /\ setOf'[i] = setOf[i]
                         /\ privateOf'[i] = privateOf[i] /\ borrowed'[i] = borrowed[i]
  BY <1>1
<1>5. \A i \in made : fieldsSet'[i] = fieldsSet[i]
  BY <1>1
<1>6. Owned'
  <2>1. \A i \in made : /\ setOf[i] \in made /\ privateOf[i] \in made
                        /\ borrowed[i] \/ setOf[i] = i
                        /\ model.root \/ privateOf[i] = i
    BY DEF ObjectInv, Owned
  <2>2. b \/ s = j
    OBVIOUS
  <2> QED
    BY <1>4, <2>1, <2>2 DEF Owned, class
<1>7. Placed'
  <2>1. model.extra = "allow" => \A i \in made : DOMAIN dict[i] \subseteq DictNames
    BY DEF ObjectInv, Placed
  <2> QED
    BY <1>4, <2>1 DEF Placed, DictNames, Fields, class
<1>8. UnsetFieldsHoldDefaults'
  <2> SUFFICES ASSUME NEW i \in made \cup {j}, ~borrowed'[i],
                      NEW f \in (DOMAIN dict'[i] \cap Fields) \ FieldsSet(i)'
               PROVE  f \notin model.required /\ dict'[i][f] = model.default[f]
    BY DEF UnsetFieldsHoldDefaults, class, Fields
  <2>1. CASE i = j
    <3>1. ~b /\ s = j
      BY <1>4, <2>1
    <3>2. FieldsSet(i)' = S
      BY <1>1, <1>4, <2>1, <3>1 DEF FieldsSet
    <3> QED
      BY <1>4, <2>1, <3>1, <3>2
  <2>2. CASE i \in made
    <3>1. setOf[i] \in made
      BY <2>2 DEF ObjectInv, Owned
    <3>2. FieldsSet(i)' = FieldsSet(i)
      BY <1>4, <1>5, <2>2, <3>1 DEF FieldsSet
    <3>3. dict'[i] = dict[i] /\ ~borrowed[i]
      BY <1>4, <2>2
    <3> QED
      BY <2>2, <3>2, <3>3 DEF ObjectInv, UnsetFieldsHoldDefaults
  <2> QED
    BY <2>1, <2>2
<1> QED
  BY <1>3, <1>6, <1>7, <1>8 DEF ObjectInv

LEMMA SameClassKeepsClassInv ==
    ASSUME ClassInv, UNCHANGED <<class, handlers>>
    PROVE  ClassInv'
BY DEF ClassInv, ClassTypeOK, HandlersFit, HandlersUpToDate, HandlerFits, SetattrHandler,
       Frozen, Fields, class

-----------------------------------------------------------------------------
(* Assignments.                                                            *)

\* The handler an assignment of n uses.
HandlerOf(n) == IF handlers[n] # NoHandler THEN handlers[n] ELSE SetattrHandler(n)

LEMMA HandlerChosen ==
    ASSUME ClassInv, NEW n \in Names, NEW h, h = HandlerOf(n), h # "error"
    PROVE  /\ h \in Memoized \cup {"direct", "extra"}
           /\ HandlerFits(n, h)
           /\ h = SetattrHandler(n) \/ (n \in model.lateFrozen /\ resolved)
           /\ h = "direct" => n \in Underscored
           /\ h = "extra" => /\ model.extra = "allow"
                             /\ n \notin DictNames
<1>1. CASE handlers[n] # NoHandler
  <2>1. h = handlers[n] /\ h \in Memoized
    BY <1>1 DEF HandlerOf, ClassInv, ClassTypeOK
  <2>2. HandlerFits(n, h) /\ (h = SetattrHandler(n) \/ (n \in model.lateFrozen /\ resolved))
    BY <1>1, <2>1 DEF ClassInv, HandlersFit, HandlersUpToDate
  <2>3. h # "direct" /\ h # "extra"
    BY <2>1 DEF Memoized
  <2> QED
    BY <2>1, <2>2, <2>3
<1>2. CASE handlers[n] = NoHandler
  <2>1. h = SetattrHandler(n)
    BY <1>2 DEF HandlerOf
  <2>2. n \notin model.classVars
    BY <2>1 DEF SetattrHandler
  <2>3. CASE n \in Underscored
    BY <2>1, <2>2, <2>3 DEF SetattrHandler, HandlerFits, Memoized
  <2>4. CASE n \notin Underscored
    BY <2>1, <2>2, <2>4 DEF SetattrHandler, HandlerFits, Memoized, DictNames
  <2> QED
    BY <2>3, <2>4
<1> QED
  BY <1>1, <1>2

\* Remembering the chosen handler keeps what is known of the handlers.
LEMMA RememberKeepsClassInv ==
    ASSUME ClassInv, NEW n \in Names, NEW h, h = HandlerOf(n), h # "error",
           UNCHANGED class, Remember(h, n)
    PROVE  ClassInv'
<1>1. CASE h \notin Memoized
  BY <1>1, SameClassKeepsClassInv DEF Remember
<1>2. CASE h \in Memoized
  <2>1. handlers' = [handlers EXCEPT ![n] = h] /\ handlers \in [Names -> Memoized \cup {NoHandler}]
    BY <1>2 DEF Remember, ClassInv, ClassTypeOK
  <2>2. ClassTypeOK'
    BY <1>2, <2>1 DEF ClassInv, ClassTypeOK, class, Fields
  <2>3. HandlerFits(n, h) /\ (h = SetattrHandler(n) \/ (n \in model.lateFrozen /\ resolved))
    BY HandlerChosen
  <2>4. \A m \in Names : handlers'[m] = IF m = n THEN h ELSE handlers[m]
    BY <2>1
  <2>5. \A m \in Names : handlers'[m] # NoHandler =>
          /\ HandlerFits(m, handlers'[m])
          /\ handlers'[m] = SetattrHandler(m) \/ (m \in model.lateFrozen /\ resolved)
    BY <2>3, <2>4 DEF ClassInv, HandlersFit, HandlersUpToDate
  <2>6. ASSUME NEW m \in Names, NEW k
        PROVE  (HandlerFits(m, k))' <=> HandlerFits(m, k')
    BY DEF HandlerFits, class, Fields
  <2>7. ASSUME NEW m \in Names
        PROVE  SetattrHandler(m)' = SetattrHandler(m)
    BY DEF SetattrHandler, Frozen, class, Fields
  <2>8. HandlersFit' /\ HandlersUpToDate'
    BY <2>5, <2>7 DEF HandlersFit, HandlersUpToDate, HandlerFits, class, Fields
  <2> QED
    BY <2>2, <2>8 DEF ClassInv
<1> QED
  BY <1>1, <1>2

\* The three places an assignment of n to instance i may write to, and what is
\* known of n in each case.
WritesDict(i, n, v) ==
    /\ SetInDict(i, n, v)
    /\ n \in DictNames

WritesExtra(i, n, v) ==
    /\ SetInExtra(i, n, v)
    /\ model.extra = "allow"
    /\ n \notin Fields \cup model.cached \cup Underscored \cup model.classVars
    /\ n \in attributes => model.validateAssignment

WritesPrivate(i, n, v) ==
    /\ SetInPrivate(i, n, v)
    /\ n \in model.privates \ model.classVars

LEMMA AssignmentWrites ==
    ASSUME InstanceInv, NEW i \in made, NEW n \in Names, NEW v \in Values, SetAttr(i, n, v)
    PROVE  /\ UNCHANGED <<class, made, setOf, privateOf, borrowed>>
           /\ HandlerOf(n) # "error" /\ Remember(HandlerOf(n), n)
           /\ \/ /\ WritesDict(i, n, v)
                 /\ \E S \in SUBSET {n} : AddToSet(i, S) /\ (n \in Fields => n \in S)
              \/ /\ WritesExtra(i, n, v)
                 /\ \E S \in SUBSET {n} : AddToSet(i, S)
              \/ WritesPrivate(i, n, v) /\ UNCHANGED fieldsSet
<1> DEFINE h == HandlerOf(n)
           W == \/ /\ WritesDict(i, n, v)
                   /\ \E S \in SUBSET {n} : AddToSet(i, S) /\ (n \in Fields => n \in S)
                \/ /\ WritesExtra(i, n, v)
                   /\ \E S \in SUBSET {n} : AddToSet(i, S)
                \/ WritesPrivate(i, n, v) /\ UNCHANGED fieldsSet
<1>1. Handle(h, i, n, v) /\ Remember(h, n) /\ UNCHANGED <<class, made, setOf, privateOf, borrowed>>
  BY DEF SetAttr, HandlerOf
<1>2. h # "error"
  BY <1>1 DEF Handle
<1> HIDE DEF h
<1>3. /\ HandlerFits(n, h)
      /\ h = SetattrHandler(n) \/ (n \in model.lateFrozen /\ resolved)
      /\ h = "direct" => n \in Underscored
      /\ h = "extra" => model.extra = "allow" /\ n \notin DictNames
  BY <1>2, HandlerChosen DEF h, InstanceInv
<1>4. /\ Fields \cap (Underscored \cup model.cached) = {}
      /\ model.privates \subseteq Underscored
      /\ model.lateFrozen \subseteq Fields
  BY ModelFits DEF InstanceInv, ClassInv, ClassTypeOK
<1>5. attributes \cap (Fields \cup Underscored) = {}
  BY DEF InstanceInv, ClassInv, ClassTypeOK
<1>6. UNCHANGED fieldsSet => AddToSet(i, {})
  <2>1. fieldsSet \in [Instances -> SUBSET Names]
    BY DEF InstanceInv, ObjectInv, ObjectTypeOK
  <2> QED
    BY <2>1 DEF AddToSet
<1>7. ASSUME h = "model_field" PROVE W
  BY <1>1, <1>3, <1>7 DEF Handle, HandlerFits, WritesDict, DictNames
<1>8. ASSUME h = "validate_assignment" /\ n \in Fields PROVE W
  BY <1>1, <1>3, <1>8 DEF Handle, ValidateAssignment, WritesDict, DictNames
<1>9. ASSUME h = "validate_assignment" /\ n \notin Fields PROVE W
  <2>1. SetInExtra(i, n, v) /\ model.extra = "allow" /\ AddToSet(i, {n}) /\ model.validateAssignment
    BY <1>1, <1>3, <1>9 DEF Handle, ValidateAssignment, HandlerFits
  <2>2. n \notin model.cached
    BY <1>3, <1>4, <1>9 DEF SetattrHandler
  <2> QED
    BY <1>3, <1>9, <2>1, <2>2 DEF WritesExtra, HandlerFits
<1>10. ASSUME h \in {"cached_property", "extra_known", "direct"} PROVE W
  <2>1. SetInDict(i, n, v) /\ UNCHANGED fieldsSet
    BY <1>1, <1>10 DEF Handle
  <2>2. n \in DictNames \ Fields
    BY <1>3, <1>4, <1>5, <1>10 DEF HandlerFits, DictNames
  <2> QED
    BY <1>6, <2>1, <2>2 DEF WritesDict
<1>11. ASSUME h = "extra" PROVE W
  <2>1. SetInExtra(i, n, v) /\ UNCHANGED fieldsSet
    BY <1>1, <1>11 DEF Handle
  <2> QED
    BY <1>3, <1>6, <1>11, <2>1 DEF WritesExtra, DictNames, HandlerFits
<1>12. ASSUME h = "private" PROVE W
  BY <1>1, <1>3, <1>12 DEF Handle, WritesPrivate, HandlerFits
<1>13. \/ h = "model_field" \/ h = "validate_assignment" \/ h = "extra" \/ h = "private"
       \/ h \in {"cached_property", "extra_known", "direct"}
  BY <1>1 DEF Handle
<1>14. W
  BY <1>7, <1>8, <1>9, <1>10, <1>11, <1>12, <1>13
<1> QED
  BY <1>1, <1>2, <1>14 DEF h

\* What the dictionaries of an instance hold.
LEMMA ObjectsOf ==
    ASSUME ObjectInv, NEW i \in made
    PROVE  /\ i \in Instances /\ setOf[i] \in Instances /\ privateOf[i] \in Instances
           /\ dict[i] \in Object /\ extra[i] \in Object
           /\ Private(i) \in Object /\ FieldsSet(i) \in SUBSET Names
BY DEF ObjectInv, ObjectTypeOK, Private, FieldsSet

\* A step that leaves __dict__ and the sets alone keeps ObjectInv.
LEMMA OtherPlaceKeepsObjectInv ==
    ASSUME ClassInv, ObjectInv, NEW i \in made,
           UNCHANGED <<class, made, setOf, privateOf, borrowed, dict>>,
           extra' \in [Instances -> Object], private' \in [Instances -> Object],
           NEW S \in SUBSET Names, AddToSet(i, S)
    PROVE  ObjectInv'
<1>1. dict[i] \in Object /\ dict' = [dict EXCEPT ![i] = dict[i]]
  BY ObjectsOf DEF ObjectInv, ObjectTypeOK
<1>2. model.extra = "allow" => DOMAIN dict[i] \subseteq DictNames
  BY DEF ObjectInv, Placed
<1> DEFINE d == dict[i]
<1>3. \A f \in DOMAIN d \cap Fields : f \in DOMAIN dict[i] /\ d[f] = dict[i][f]
  OBVIOUS
<1>4. d \in Object /\ dict' = [dict EXCEPT ![i] = d]
      /\ (model.extra = "allow" => DOMAIN d \subseteq DictNames)
  BY <1>1, <1>2
<1> HIDE DEF d
<1> QED
  BY <1>3, <1>4, ChangeKeepsObjectInv

LEMMA UnchangedSet ==
    ASSUME ObjectInv, NEW i \in made, UNCHANGED fieldsSet
    PROVE  AddToSet(i, {})
<1>1. fieldsSet \in [Instances -> SUBSET Names] /\ setOf[i] \in Instances
  BY ObjectsOf DEF ObjectInv, ObjectTypeOK
<1> QED
  BY <1>1 DEF AddToSet

\* A value that is put into __dict__ keeps ObjectInv, if a field counts as set then.
LEMMA DictWriteKeepsObjectInv ==
    ASSUME ClassInv, ObjectInv, NEW i \in made, NEW n \in Names, NEW v \in Values,
           UNCHANGED <<class, made, setOf, privateOf, borrowed>>, WritesDict(i, n, v),
           NEW S \in SUBSET {n}, AddToSet(i, S), n \in Fields => n \in S
    PROVE  ObjectInv'
<1> DEFINE d == Put(dict[i], n, v)
<1>1. dict' = [dict EXCEPT ![i] = d] /\ UNCHANGED <<extra, private>>
  BY DEF WritesDict, SetInDict
<1>2. /\ d \in Object /\ DOMAIN d = DOMAIN dict[i] \cup {n}
      /\ \A m \in DOMAIN dict[i] : m # n => d[m] = dict[i][m]
  BY ObjectsOf, PutObject
<1> HIDE DEF d
<1>3. \A f \in DOMAIN d \cap Fields : f \in S \/ (f \in DOMAIN dict[i] /\ d[f] = dict[i][f])
  BY <1>2
<1>4. model.extra = "allow" => DOMAIN d \subseteq DictNames
  BY <1>2 DEF WritesDict, ObjectInv, Placed
<1>5. extra' \in [Instances -> Object] /\ private' \in [Instances -> Object] /\ S \in SUBSET Names
  BY <1>1 DEF ObjectInv, ObjectTypeOK
<1> QED
  BY <1>1, <1>2, <1>3, <1>4, <1>5, ChangeKeepsObjectInv

LEMMA SetAttrKeepsInv ==
    ASSUME InstanceInv, NEW i \in Instances, NEW n \in Names, NEW v \in Values,
           SetAttr(i, n, v)
    PROVE  InstanceInv'
<1>0. i \in made
  BY DEF SetAttr
<1>1. UNCHANGED <<class, made, setOf, privateOf, borrowed>>
      /\ HandlerOf(n) # "error" /\ Remember(HandlerOf(n), n)
  BY <1>0, AssignmentWrites
<1>2. ClassInv'
  BY <1>1, RememberKeepsClassInv DEF InstanceInv
<1>3. /\ dict \in [Instances -> Object] /\ extra \in [Instances -> Object]
      /\ private \in [Instances -> Object]
  BY DEF InstanceInv, ObjectInv, ObjectTypeOK
<1>4. ASSUME WritesDict(i, n, v), NEW S \in SUBSET {n}, AddToSet(i, S), n \in Fields => n \in S
      PROVE  ObjectInv'
  BY <1>0, <1>1, <1>4, DictWriteKeepsObjectInv DEF InstanceInv
<1>5. ASSUME WritesExtra(i, n, v), NEW S \in SUBSET {n}, AddToSet(i, S) PROVE ObjectInv'
  <2>1. extra' = [extra EXCEPT ![i] = Put(extra[i], n, v)] /\ UNCHANGED <<dict, private>>
    BY <1>5 DEF WritesExtra, SetInExtra
  <2>2. Put(extra[i], n, v) \in Object
    BY <1>0, ObjectsOf, PutObject DEF InstanceInv
  <2>3. extra' \in [Instances -> Object] /\ private' \in [Instances -> Object] /\ S \in SUBSET Names
    BY <1>3, <2>1, <2>2
  <2> QED
    BY <1>0, <1>1, <1>5, <2>1, <2>3, OtherPlaceKeepsObjectInv DEF InstanceInv
<1>6. ASSUME WritesPrivate(i, n, v), UNCHANGED fieldsSet PROVE ObjectInv'
  <2>1. private' = [private EXCEPT ![privateOf[i]] = Put(private[privateOf[i]], n, v)]
        /\ UNCHANGED <<dict, extra>>
    BY <1>6 DEF WritesPrivate, SetInPrivate
  <2>2. Put(private[privateOf[i]], n, v) \in Object
    BY <1>0, ObjectsOf, PutObject DEF InstanceInv, Private
  <2>3. extra' \in [Instances -> Object] /\ private' \in [Instances -> Object]
    BY <1>3, <2>1, <2>2
  <2>4. AddToSet(i, {})
    BY <1>0, <1>6, UnchangedSet DEF InstanceInv
  <2> QED
    BY <1>0, <1>1, <2>1, <2>3, <2>4, OtherPlaceKeepsObjectInv DEF InstanceInv
<1> QED
  BY <1>0, <1>2, <1>4, <1>5, <1>6, AssignmentWrites DEF InstanceInv

LEMMA ReadCachedKeepsInv ==
    ASSUME InstanceInv, NEW i \in Instances, NEW n \in Names, NEW v \in Values,
           ReadCached(i, n, v)
    PROVE  InstanceInv'
<1>1. /\ i \in made /\ n \in model.cached /\ SetInDict(i, n, v)
      /\ UNCHANGED <<class, handlers, made, fieldsSet, setOf, privateOf, borrowed>>
  BY DEF ReadCached
<1>2. n \notin Fields
  BY <1>1, ModelFits DEF InstanceInv, ClassInv, ClassTypeOK
<1>3. WritesDict(i, n, v)
  BY <1>1 DEF WritesDict, DictNames
<1>4. AddToSet(i, {})
  BY <1>1, UnchangedSet DEF InstanceInv
<1>5. ClassInv'
  BY <1>1, SameClassKeepsClassInv DEF InstanceInv
<1>6. ObjectInv'
  BY <1>1, <1>2, <1>3, <1>4, DictWriteKeepsObjectInv DEF InstanceInv
<1> QED
  BY <1>5, <1>6 DEF InstanceInv

LEMMA DelAttrKeepsInv ==
    ASSUME InstanceInv, NEW i \in Instances, NEW n \in Names, DelAttr(i, n)
    PROVE  InstanceInv'
<1>1. /\ i \in made
      /\ UNCHANGED <<class, handlers, made, fieldsSet, setOf, privateOf, borrowed>>
  BY DEF DelAttr
<1>2. AddToSet(i, {})
  BY <1>1, UnchangedSet DEF InstanceInv
<1>3. ClassInv'
  BY <1>1, SameClassKeepsClassInv DEF InstanceInv
<1>4. /\ dict \in [Instances -> Object] /\ extra \in [Instances -> Object]
      /\ private \in [Instances -> Object]
  BY DEF InstanceInv, ObjectInv, ObjectTypeOK
<1>5. /\ dict[i] \in Object /\ Without(extra[i], {n}) \in Object
      /\ Without(private[privateOf[i]], {n}) \in Object
  BY <1>1, ObjectsOf, WithoutObject DEF InstanceInv, Private
<1>6. ASSUME private' = [private EXCEPT ![privateOf[i]] = Without(@, {n})],
             UNCHANGED <<dict, extra>>
      PROVE  ObjectInv'
  <2>1. private' \in [Instances -> Object] /\ extra' \in [Instances -> Object]
    BY <1>4, <1>5, <1>6
  <2> QED
    BY <1>1, <1>2, <1>6, <2>1, OtherPlaceKeepsObjectInv DEF InstanceInv
<1>7. ASSUME extra' = [extra EXCEPT ![i] = Without(@, {n})], UNCHANGED <<dict, private>>
      PROVE  ObjectInv'
  <2>1. private' \in [Instances -> Object] /\ extra' \in [Instances -> Object]
    BY <1>4, <1>5, <1>7
  <2> QED
    BY <1>1, <1>2, <1>7, <2>1, OtherPlaceKeepsObjectInv DEF InstanceInv
<1>8. ASSUME dict' = [dict EXCEPT ![i] = Without(@, {n})], UNCHANGED <<extra, private>>
      PROVE  ObjectInv'
  <2> DEFINE d == Without(dict[i], {n})
  <2>1. /\ d \in Object /\ DOMAIN d = DOMAIN dict[i] \ {n}
        /\ \A m \in DOMAIN dict[i] \ {n} : d[m] = dict[i][m]
    BY <1>5, WithoutObject
  <2>2. dict' = [dict EXCEPT ![i] = d]
    BY <1>8
  <2> HIDE DEF d
  <2>3. \A f \in DOMAIN d \cap Fields : f \in DOMAIN dict[i] /\ d[f] = dict[i][f]
    BY <2>1
  <2>4. model.extra = "allow" => DOMAIN d \subseteq DictNames
    BY <1>1, <2>1 DEF InstanceInv, ObjectInv, Placed
  <2>5. private' \in [Instances -> Object] /\ extra' \in [Instances -> Object]
    BY <1>4, <1>8
  <2> QED
    BY <1>1, <1>2, <2>1, <2>2, <2>3, <2>4, <2>5, ChangeKeepsObjectInv DEF InstanceInv
<1>9. \/ private' = [private EXCEPT ![privateOf[i]] = Without(@, {n})] /\ UNCHANGED <<dict, extra>>
      \/ extra' = [extra EXCEPT ![i] = Without(@, {n})] /\ UNCHANGED <<dict, private>>
      \/ dict' = [dict EXCEPT ![i] = Without(@, {n})] /\ UNCHANGED <<extra, private>>
  BY DEF DelAttr
<1> QED
  BY <1>3, <1>6, <1>7, <1>8, <1>9 DEF InstanceInv

-----------------------------------------------------------------------------
(* New instances.                                                          *)

\* An instance with a private dictionary of its own.
LEMMA MadeKeepsInv ==
    ASSUME InstanceInv, UNCHANGED <<class, handlers>>, NEW i \in Instances, i \notin made,
           NEW d \in Object, NEW x \in Object, NEW p \in Object, Make(i, d, x, p),
           NEW S \in SUBSET Names, NEW s \in made \cup {i}, NEW b \in BOOLEAN,
           setOf' = [setOf EXCEPT ![i] = s], borrowed' = [borrowed EXCEPT ![i] = b],
           IF s = i THEN fieldsSet' = [fieldsSet EXCEPT ![i] = S]
                    ELSE b /\ UNCHANGED fieldsSet,
           DOMAIN d \subseteq Fields,
           ~b => \A f \in DOMAIN d \ S : f \notin model.required /\ d[f] = model.default[f]
    PROVE  InstanceInv'
<1>1. ClassInv'
  BY SameClassKeepsClassInv DEF InstanceInv
<1>2. /\ made' = made \cup {i} /\ dict' = [dict EXCEPT ![i] = d]
      /\ extra' = [extra EXCEPT ![i] = x] /\ privateOf' = [privateOf EXCEPT ![i] = i]
      /\ private' = [private EXCEPT ![i] = p]
  BY DEF Make
<1>3. private' \in [Instances -> Object]
  BY <1>2 DEF InstanceInv, ObjectInv, ObjectTypeOK
<1>4. model.extra = "allow" => DOMAIN d \subseteq DictNames
  BY DEF DictNames
<1>5. ~b => \A f \in (DOMAIN d \cap Fields) \ S :
               f \notin model.required /\ d[f] = model.default[f]
  OBVIOUS
<1>6. ObjectInv'
  <2>1. ClassInv /\ ObjectInv
    BY DEF InstanceInv
  <2> QED
    BY <1>2, <1>3, <1>4, <1>5, <2>1, MakeKeepsObjectInv, ZenonT(60)
<1> QED
  BY <1>1, <1>6 DEF InstanceInv

LEMMA ModelInitKeepsInv ==
    ASSUME InstanceInv, NEW i \in Instances, NEW data \in Inputs(model.uses), ModelInit(i, data)
    PROVE  InstanceInv'
<1>0. model \in Models
  BY DEF InstanceInv, ClassInv, ClassTypeOK
<1>1. model.uses \in SUBSET Names /\ Fields \subseteq Names
  BY <1>0, ModelFits DEF Model
<1>2. data \in Object
  BY <1>1, InputObject
<1> DEFINE d == Update(Defaults(Fields), Only(data, Fields))
           x == IF model.extra = "allow" THEN Without(data, Fields) ELSE Empty
           S == DOMAIN data \cap Fields
<1>3. /\ Make(i, d, x, PrivateDefaults) /\ OwnSet(i, S, FALSE)
      /\ i \notin made /\ UNCHANGED <<class, handlers>>
  BY DEF ModelInit
<1>4. Only(data, Fields) \in Object /\ DOMAIN Only(data, Fields) = S
  BY <1>2, OnlyObject
<1>5. /\ Defaults(Fields) \in Object
      /\ DOMAIN Defaults(Fields) = Fields \ model.required
      /\ \A n \in Fields \ model.required : Defaults(Fields)[n] = model.default[n]
  BY <1>0, <1>1, DefaultsObject
<1>6. /\ d \in Object /\ DOMAIN d \subseteq Fields
      /\ \A f \in DOMAIN d \ S : f \notin model.required /\ d[f] = model.default[f]
  <2> DEFINE e == Defaults(Fields)
             g == Only(data, Fields)
  <2>1. /\ d \in Object /\ DOMAIN d = DOMAIN e \cup DOMAIN g
        /\ \A m \in DOMAIN e \ DOMAIN g : d[m] = e[m]
    <3>1. d = Update(e, g) /\ e \in Object /\ g \in Object
      BY <1>4, <1>5
    <3> HIDE DEF d, e, g
    <3> QED
      BY <3>1, UpdateObject
  <2> HIDE DEF d
  <2> QED
    BY <1>4, <1>5, <2>1
<1>7. x \in Object /\ PrivateDefaults \in Object
  BY <1>0, <1>2, EmptyObject, WithoutObject, PrivateDefaultsObject
<1>8. S \in SUBSET Names
  BY <1>1
<1>9. /\ setOf' = [setOf EXCEPT ![i] = i] /\ borrowed' = [borrowed EXCEPT ![i] = FALSE]
      /\ fieldsSet' = [fieldsSet EXCEPT ![i] = S]
  BY <1>3 DEF OwnSet
<1> HIDE DEF d, x, S
<1> QED
  BY <1>3, <1>6, <1>7, <1>8, <1>9, MadeKeepsInv

LEMMA ModelConstructKeepsInv ==
    ASSUME InstanceInv, NEW i \in Instances, NEW data \in Inputs(model.uses),
           NEW lender \in Instances, ModelConstruct(i, data, lender)
    PROVE  InstanceInv'
<1>0. model \in Models
  BY DEF InstanceInv, ClassInv, ClassTypeOK
<1>1. model.uses \in SUBSET Names /\ Fields \subseteq Names
  BY <1>0, ModelFits DEF Model
<1>2. data \in Object
  BY <1>1, InputObject
<1> DEFINE taken == Taken(data)
           d == Update(Defaults(Fields), taken.got)
           x == IF model.extra = "allow" THEN taken.left ELSE Empty
           p == Update(PrivateDefaults, Only(taken.left, model.privates))
           S == DOMAIN taken.got
<1>3. /\ Make(i, d, x, p)
      /\ \/ lender = i /\ OwnSet(i, S, FALSE)
         \/ /\ lender # i
            /\ setOf' = [setOf EXCEPT ![i] = setOf[lender]]
            /\ borrowed' = [borrowed EXCEPT ![i] = TRUE]
            /\ UNCHANGED fieldsSet
      /\ i \notin made /\ lender \in made \cup {i} /\ UNCHANGED <<class, handlers>>
  BY DEF ModelConstruct
<1>4. taken.got \in Object /\ S \subseteq Fields /\ taken.left \in Object
  BY <1>0, <1>2, TakenFits DEF Takings
<1> HIDE DEF taken
<1>5. /\ Defaults(Fields) \in Object
      /\ DOMAIN Defaults(Fields) = Fields \ model.required
      /\ \A n \in Fields \ model.required : Defaults(Fields)[n] = model.default[n]
  BY <1>0, <1>1, DefaultsObject
<1>6. /\ d \in Object /\ DOMAIN d \subseteq Fields
      /\ \A f \in DOMAIN d \ S : f \notin model.required /\ d[f] = model.default[f]
  <2> DEFINE e == Defaults(Fields)
             g == taken.got
  <2>1. /\ d \in Object /\ DOMAIN d = DOMAIN e \cup DOMAIN g
        /\ \A m \in DOMAIN e \ DOMAIN g : d[m] = e[m]
    <3>1. d = Update(e, g) /\ e \in Object /\ g \in Object
      BY <1>4, <1>5
    <3> HIDE DEF d, e, g
    <3> QED
      BY <3>1, UpdateObject
  <2> HIDE DEF d
  <2> QED
    BY <1>4, <1>5, <2>1
<1>7. x \in Object /\ p \in Object
  <2>1. PrivateDefaults \in Object /\ Only(taken.left, model.privates) \in Object
    BY <1>0, <1>4, OnlyObject, PrivateDefaultsObject
  <2> QED
    BY <1>4, <2>1, EmptyObject, UpdateObject
<1>8. S \in SUBSET Names
  BY <1>1, <1>4
<1> HIDE DEF d, x, p, S
<1>9. CASE lender = i
  <2>1. /\ setOf' = [setOf EXCEPT ![i] = i] /\ borrowed' = [borrowed EXCEPT ![i] = FALSE]
        /\ fieldsSet' = [fieldsSet EXCEPT ![i] = S]
    BY <1>3, <1>9 DEF OwnSet
  <2> QED
    BY <1>3, <1>6, <1>7, <1>8, <2>1, MadeKeepsInv
<1>10. CASE lender # i
  <2>1. setOf[lender] \in made /\ setOf[lender] # i
    BY <1>3, <1>10 DEF InstanceInv, ObjectInv, Owned
  <2>2. PICK s \in made : s # i /\ setOf' = [setOf EXCEPT ![i] = s]
    BY <1>3, <1>10, <2>1
  <2>3. borrowed' = [borrowed EXCEPT ![i] = TRUE] /\ UNCHANGED fieldsSet
    BY <1>3, <1>10
  <2> QED
    BY <1>3, <1>6, <1>7, <1>8, <2>2, <2>3, MadeKeepsInv
<1> QED
  BY <1>9, <1>10

LEMMA UpdatesAreObjects ==
    ASSUME model \in Models, NEW u \in Updates
    PROVE  u \in Object
<1>1. model.uses \subseteq Names
  BY ModelFits DEF Model
<1>2. CASE u = Empty
  BY <1>2, EmptyObject
<1>3. ASSUME NEW n \in model.uses, NEW v \in Values, u = Put(Empty, n, v) PROVE u \in Object
  BY <1>1, <1>3, EmptyObject, PutObject
<1> QED
  BY <1>2, <1>3 DEF Updates

LEMMA ModelCopyKeepsInv ==
    ASSUME InstanceInv, NEW i \in Instances, NEW j \in Instances, NEW deep \in BOOLEAN,
           NEW update \in Object, ModelCopy(i, j, deep, update)
    PROVE  InstanceInv'
<1> DEFINE inDict == IF model.extra = "allow" THEN Only(update, Fields) ELSE update
           inExtra == IF model.extra = "allow" THEN Without(update, Fields) ELSE Empty
           d == Update(dict[i], inDict)
           x == Update(extra[i], inExtra)
           S == FieldsSet(i) \cup DOMAIN update
           b == borrowed[i]
<1>1. /\ i \in made /\ j \notin made /\ made' = made \cup {j}
      /\ dict' = [dict EXCEPT ![j] = d] /\ extra' = [extra EXCEPT ![j] = x]
      /\ CopyPrivate(i, j, deep) /\ CopySet(i, j, update) /\ UNCHANGED <<class, handlers>>
  BY DEF ModelCopy
<1>2. /\ dict[i] \in Object /\ extra[i] \in Object /\ Private(i) \in Object
      /\ FieldsSet(i) \in SUBSET Names /\ b \in BOOLEAN
  BY <1>1, ObjectsOf DEF InstanceInv, ObjectInv, ObjectTypeOK
<1>3. /\ inDict \in Object /\ DOMAIN inDict \subseteq DOMAIN update
      /\ model.extra = "allow" => DOMAIN inDict \subseteq Fields
      /\ inExtra \in Object
  <2>1. Only(update, Fields) \in Object /\ DOMAIN Only(update, Fields) = DOMAIN update \cap Fields
    BY OnlyObject
  <2>2. Without(update, Fields) \in Object /\ Empty \in Object
    BY WithoutObject, EmptyObject
  <2> QED
    BY <2>1, <2>2
<1> HIDE DEF inDict, inExtra
<1>4. /\ d \in Object /\ x \in Object
      /\ DOMAIN d = DOMAIN dict[i] \cup DOMAIN inDict
      /\ \A m \in DOMAIN dict[i] \ DOMAIN inDict : d[m] = dict[i][m]
  BY <1>2, <1>3, UpdateObject
<1> HIDE DEF d, x
<1>5. model.extra = "allow" => DOMAIN d \subseteq DictNames
  BY <1>1, <1>3, <1>4 DEF DictNames, InstanceInv, ObjectInv, Placed
<1>6. ~b => \A f \in (DOMAIN d \cap Fields) \ S :
               f \notin model.required /\ d[f] = model.default[f]
  BY <1>1, <1>3, <1>4 DEF InstanceInv, ObjectInv, UnsetFieldsHoldDefaults
<1>7. PICK p \in made \cup {j} :
        /\ privateOf' = [privateOf EXCEPT ![j] = p]
        /\ model.root \/ p = j
        /\ private' \in [Instances -> Object]
  <2>1. private \in [Instances -> Object]
    BY DEF InstanceInv, ObjectInv, ObjectTypeOK
  <2>2. CASE model.root /\ ~deep
    <3>1. privateOf[i] \in made
      BY <1>1 DEF InstanceInv, ObjectInv, Owned
    <3> QED
      BY <1>1, <2>1, <2>2, <3>1 DEF CopyPrivate
  <2>3. CASE ~(model.root /\ ~deep)
    BY <1>1, <1>2, <2>1, <2>3 DEF CopyPrivate
  <2> QED
    BY <2>2, <2>3
<1>8. /\ setOf' = [setOf EXCEPT ![j] = j] /\ borrowed' = [borrowed EXCEPT ![j] = b]
      /\ fieldsSet' = [fieldsSet EXCEPT ![j] = S]
  BY <1>1 DEF CopySet, OwnSet
<1>9. S \in SUBSET Names
  <2>1. DOMAIN update \subseteq Names
    BY ObjectIs
  <2> QED
    BY <1>2, <2>1
<1>10. ClassInv'
  BY <1>1, SameClassKeepsClassInv DEF InstanceInv
<1> HIDE DEF S, b
<1>11. ObjectInv'
  BY <1>1, <1>2, <1>4, <1>5, <1>6, <1>7, <1>8, <1>9, MakeKeepsObjectInv DEF InstanceInv
<1> QED
  BY <1>10, <1>11 DEF InstanceInv

-----------------------------------------------------------------------------
(* The class changes under its instances.                                  *)

LEMMA ClassStepKeepsObjectInv ==
    ASSUME ObjectInv, UNCHANGED <<model, objects>>, attributes \subseteq attributes'
    PROVE  ObjectInv'
<1>1. ObjectTypeOK' /\ Owned'
  BY DEF ObjectInv, ObjectTypeOK, Owned, objects
<1>2. Placed'
  BY DEF ObjectInv, Placed, DictNames, Fields, objects
<1>3. UnsetFieldsHoldDefaults'
  BY DEF ObjectInv, UnsetFieldsHoldDefaults, FieldsSet, Fields, objects
<1> QED
  BY <1>1, <1>2, <1>3 DEF ObjectInv

LEMMA RebuildKeepsInv ==
    ASSUME InstanceInv, Rebuild
    PROVE  InstanceInv'
<1>1. ~resolved /\ resolved' = TRUE /\ UNCHANGED <<model, attributes, handlers, objects>>
  BY DEF Rebuild
<1>2. ClassTypeOK' /\ HandlersFit'
  BY <1>1 DEF InstanceInv, ClassInv, ClassTypeOK, HandlersFit, HandlerFits, Fields
<1>3. ASSUME NEW n \in Names, n \notin model.lateFrozen
      PROVE  SetattrHandler(n)' = SetattrHandler(n)
  BY <1>1, <1>3 DEF SetattrHandler, Frozen, Fields
<1>4. HandlersUpToDate'
  <2> SUFFICES ASSUME NEW n \in Names, handlers[n] # NoHandler, n \notin model.lateFrozen
               PROVE  handlers[n] = SetattrHandler(n)'
    BY <1>1 DEF HandlersUpToDate
  <2> QED
    BY <1>3 DEF InstanceInv, ClassInv, HandlersUpToDate
<1>5. ObjectInv'
  BY <1>1, ClassStepKeepsObjectInv DEF InstanceInv
<1> QED
  BY <1>2, <1>4, <1>5 DEF InstanceInv, ClassInv

\* The handlers of names that turn into attributes of the class were not remembered.
LEMMA SetClassAttributeKeepsInv ==
    ASSUME InstanceInv, NEW n \in Names, SetClassAttribute(n)
    PROVE  InstanceInv'
<1>1. /\ n \notin Fields \cup Underscored \cup attributes
      /\ attributes' = attributes \cup {n} /\ UNCHANGED <<model, resolved, handlers, objects>>
  BY DEF SetClassAttribute
<1>2. ClassTypeOK' /\ HandlersFit'
  BY <1>1 DEF InstanceInv, ClassInv, ClassTypeOK, HandlersFit, HandlerFits, Fields
<1>3. ASSUME NEW m \in Names, SetattrHandler(m) # "extra"
      PROVE  SetattrHandler(m)' = SetattrHandler(m)
  BY <1>1, <1>3 DEF SetattrHandler, Frozen, Fields
<1>4. HandlersUpToDate'
  <2> SUFFICES ASSUME NEW m \in Names, handlers[m] # NoHandler,
                      ~(m \in model.lateFrozen /\ resolved)
               PROVE  handlers[m] = SetattrHandler(m)'
    BY <1>1 DEF HandlersUpToDate
  <2>1. handlers[m] = SetattrHandler(m) /\ handlers[m] \in Memoized
    BY DEF InstanceInv, ClassInv, ClassTypeOK, HandlersUpToDate
  <2> QED
    BY <1>3, <2>1 DEF Memoized
<1>5. ObjectInv'
  BY <1>1, ClassStepKeepsObjectInv DEF InstanceInv
<1> QED
  BY <1>2, <1>4, <1>5 DEF InstanceInv, ClassInv

LEMMA InitInv == Init => InstanceInv
<1> SUFFICES ASSUME Init PROVE InstanceInv
  OBVIOUS
<1>1. ClassInv
  BY DEF Init, ClassInv, ClassTypeOK, HandlersFit, HandlersUpToDate
<1>2. ObjectTypeOK
  <2>1. Empty \in Object
    BY EmptyObject
  <2> QED
    BY <2>1 DEF Init, ObjectTypeOK
<1>3. Owned /\ Placed /\ UnsetFieldsHoldDefaults
  BY DEF Init, Owned, Placed, UnsetFieldsHoldDefaults
<1> QED
  BY <1>1, <1>2, <1>3 DEF InstanceInv, ObjectInv

\* The steps of Next, with what is known of their parameters.
LEMMA NextCases ==
    ASSUME model \in Models, Next
    PROVE  \/ \E i \in Instances, data \in Inputs(model.uses) : ModelInit(i, data)
           \/ \E i \in Instances, data \in Inputs(model.uses), lender \in Instances :
                 ModelConstruct(i, data, lender)
           \/ \E i, j \in Instances, deep \in BOOLEAN, update \in Object :
                 ModelCopy(i, j, deep, update)
           \/ \E i \in Instances, n \in Names, v \in Values : SetAttr(i, n, v)
           \/ \E i \in Instances, n \in Names, v \in Values : ReadCached(i, n, v)
           \/ \E i \in Instances, n \in Names : DelAttr(i, n)
           \/ Rebuild
           \/ \E n \in Names : SetClassAttribute(n)
<1>1. model.uses \subseteq Names
  BY ModelFits DEF Model
<1>2. Updates \subseteq Object /\ Empty \in Object
  BY UpdatesAreObjects, EmptyObject
<1>3. ASSUME NEW i \in Instances, NEW j \in Instances, Unpickle(i, j)
      PROVE  \E deep \in BOOLEAN, update \in Object : ModelCopy(i, j, deep, update)
  BY <1>2, <1>3 DEF Unpickle
<1> QED
  BY <1>1, <1>2, <1>3 DEF Next

LEMMA NextInv == InstanceInv /\ [Next]_vars => InstanceInv'
<1> SUFFICES ASSUME InstanceInv, [Next]_vars PROVE InstanceInv'
  OBVIOUS
<1>0. model \in Models
  BY DEF InstanceInv, ClassInv, ClassTypeOK
<1>1. ASSUME NEW i \in Instances, NEW data \in Inputs(model.uses), ModelInit(i, data)
      PROVE  InstanceInv'
  BY <1>1, ModelInitKeepsInv
<1>2. ASSUME NEW i \in Instances, NEW data \in Inputs(model.uses), NEW lender \in Instances,
             ModelConstruct(i, data, lender)
      PROVE  InstanceInv'
  BY <1>2, ModelConstructKeepsInv
<1>3. ASSUME NEW i \in Instances, NEW j \in Instances, NEW deep \in BOOLEAN,
             NEW update \in Object, ModelCopy(i, j, deep, update)
      PROVE  InstanceInv'
  BY <1>3, ModelCopyKeepsInv
<1>4. ASSUME NEW i \in Instances, NEW n \in Names, NEW v \in Values, SetAttr(i, n, v)
      PROVE  InstanceInv'
  BY <1>4, SetAttrKeepsInv
<1>5. ASSUME NEW i \in Instances, NEW n \in Names, NEW v \in Values, ReadCached(i, n, v)
      PROVE  InstanceInv'
  BY <1>5, ReadCachedKeepsInv
<1>6. ASSUME NEW i \in Instances, NEW n \in Names, DelAttr(i, n) PROVE InstanceInv'
  BY <1>6, DelAttrKeepsInv
<1>7. CASE Rebuild
  BY <1>7, RebuildKeepsInv
<1>8. ASSUME NEW n \in Names, SetClassAttribute(n) PROVE InstanceInv'
  BY <1>8, SetClassAttributeKeepsInv
<1>9. CASE UNCHANGED vars
  <2>1. UNCHANGED <<class, handlers>> /\ UNCHANGED <<model, objects>> /\ attributes \subseteq attributes'
    BY <1>9 DEF vars, class
  <2> QED
    BY <2>1, SameClassKeepsClassInv, ClassStepKeepsObjectInv DEF InstanceInv
<1> QED
  BY <1>0, <1>1, <1>2, <1>3, <1>4, <1>5, <1>6, <1>7, <1>8, <1>9, NextCases

\* The inductive invariant holds in every reachable state.
THEOREM InvHolds == Spec => []InstanceInv
<1>1. Init => InstanceInv
  BY InitInv
<1>2. InstanceInv /\ [Next]_vars => InstanceInv'
  BY NextInv
<1> QED
  BY <1>1, <1>2, PTL DEF Spec

\* The places an instance keeps its attributes in hold what the code puts there.
THEOREM TypeCorrect == Spec => []TypeOK
<1>1. InstanceInv => TypeOK
  BY DEF InstanceInv, ClassInv, ClassTypeOK, ObjectInv, ObjectTypeOK, TypeOK
<1> QED
  BY <1>1, InvHolds, PTL

\* The handler that __setattr__ remembers for a name is the one it would choose
\* now, but for fields that turned out to be frozen (main.py:994-1000).
THEOREM HandlersStayRight == Spec => []HandlersUpToDate
<1>1. InstanceInv => HandlersUpToDate
  BY DEF InstanceInv, ClassInv
<1> QED
  BY <1>1, InvHolds, PTL

\* A field that does not count as set holds its default, however the instance was
\* made and whatever was done to it (model_construct, model_copy, __setattr__).
THEOREM UnsetFieldsAreDefaults == Spec => []UnsetFieldsHoldDefaults
<1>1. InstanceInv => UnsetFieldsHoldDefaults
  BY DEF InstanceInv, ObjectInv
<1> QED
  BY <1>1, InvHolds, PTL

-----------------------------------------------------------------------------
(* Equality.                                                               *)

\* Two dictionaries give the fields the same values or the same lack of one.
LEMMA SameFields ==
    ASSUME NEW f \in Object, NEW g \in Object
    PROVE  Only(f, Fields) = Only(g, Fields) <=>
              \A n \in Fields : /\ n \in DOMAIN f <=> n \in DOMAIN g
                                /\ n \in DOMAIN f => f[n] = g[n]
<1>1. /\ DOMAIN Only(f, Fields) = DOMAIN f \cap Fields
      /\ \A m \in DOMAIN f \cap Fields : Only(f, Fields)[m] = f[m]
      /\ DOMAIN Only(g, Fields) = DOMAIN g \cap Fields
      /\ \A m \in DOMAIN g \cap Fields : Only(g, Fields)[m] = g[m]
  BY OnlyObject
<1>2. ASSUME Only(f, Fields) = Only(g, Fields), NEW n \in Fields
      PROVE  /\ n \in DOMAIN f <=> n \in DOMAIN g
             /\ n \in DOMAIN f => f[n] = g[n]
  <2>1. DOMAIN f \cap Fields = DOMAIN g \cap Fields
    BY <1>1, <1>2
  <2>2. n \in DOMAIN f <=> n \in DOMAIN g
    BY <2>1
  <2>3. n \in DOMAIN f => f[n] = g[n]
    BY <1>1, <1>2, <2>2
  <2> QED
    BY <2>2, <2>3
<1>3. ASSUME \A n \in Fields : /\ n \in DOMAIN f <=> n \in DOMAIN g
                               /\ n \in DOMAIN f => f[n] = g[n]
      PROVE  Only(f, Fields) = Only(g, Fields)
  BY <1>3 DEF Only
<1> QED
  BY <1>2, <1>3

LEMMA SameHash ==
    ASSUME ObjectInv, NEW i \in made, NEW j \in made
    PROVE  Hash(i) = Hash(j) <=> Only(dict[i], Fields) = Only(dict[j], Fields)
<1> DEFINE f == dict[i]
           g == dict[j]
           h(d) == [n \in Fields |-> IF n \in DOMAIN d THEN d[n] ELSE NoValue]
<1>1. f \in Object /\ g \in Object
  BY ObjectsOf
<1>2. Hash(i) = h(f) /\ Hash(j) = h(g)
  BY DEF Hash
<1> HIDE DEF f, g
<1>3. /\ \A n \in DOMAIN f : f[n] # NoValue
      /\ \A n \in DOMAIN g : g[n] # NoValue
  BY <1>1, ObjectIs, NamesAssumption
<1>4. ASSUME h(f) = h(g), NEW n \in Fields
      PROVE  /\ n \in DOMAIN f <=> n \in DOMAIN g
             /\ n \in DOMAIN f => f[n] = g[n]
  <2>1. h(f)[n] = h(g)[n]
    BY <1>4
  <2>2. (IF n \in DOMAIN f THEN f[n] ELSE NoValue) = (IF n \in DOMAIN g THEN g[n] ELSE NoValue)
    BY <2>1
  <2> QED
    BY <1>3, <2>2
<1>5. ASSUME \A n \in Fields : /\ n \in DOMAIN f <=> n \in DOMAIN g
                               /\ n \in DOMAIN f => f[n] = g[n]
      PROVE  h(f) = h(g)
  BY <1>5
<1> HIDE DEF h
<1>6. h(f) = h(g) <=> Only(f, Fields) = Only(g, Fields)
  BY <1>1, <1>4, <1>5, SameFields
<1> QED
  BY <1>2, <1>6 DEF f, g

LEMMA AllFields ==
    ASSUME NEW f \in Object, DOMAIN f \subseteq Fields
    PROVE  Only(f, Fields) = f
<1>1. f = [n \in DOMAIN f |-> f[n]]
  BY ObjectIs
<1>2. DOMAIN f \cap Fields = DOMAIN f
  OBVIOUS
<1> QED
  BY <1>1, <1>2 DEF Only

LEMMA EqualityFits ==
    ASSUME ObjectInv, NEW i \in made, NEW j \in made
    PROVE  PyEq(i, j) <=> /\ Hash(i) = Hash(j)
                          /\ extra[i] = extra[j] /\ Private(i) = Private(j)
<1>1. dict[i] \in Object /\ dict[j] \in Object
  BY ObjectsOf
<1>2. DOMAIN dict[i] \subseteq Fields /\ DOMAIN dict[j] \subseteq Fields =>
        (Only(dict[i], Fields) = Only(dict[j], Fields) <=> dict[i] = dict[j])
  BY <1>1, AllFields
<1>3. dict[i] = dict[j] => Only(dict[i], Fields) = Only(dict[j], Fields)
  OBVIOUS
<1> QED
  BY <1>2, <1>3, SameHash DEF PyEq

\* __eq__ compares the fields, the extra and the private values of two instances
\* and nothing else, is symmetric, and equal instances have equal hashes, in spite
\* of its fast paths (main.py:1113-1160).
THEOREM EqualityOfTheModel == Spec => []EqualityIsOfTheModel
<1>1. InstanceInv => EqualityIsOfTheModel
  <2> SUFFICES ASSUME InstanceInv, NEW i \in made, NEW j \in made
               PROVE  /\ PyEq(i, j) <=> /\ Hash(i) = Hash(j)
                                        /\ extra[i] = extra[j] /\ Private(i) = Private(j)
                      /\ PyEq(i, j) <=> PyEq(j, i)
    BY DEF EqualityIsOfTheModel
  <2> QED
    BY EqualityFits DEF InstanceInv
<1> QED
  BY <1>1, InvHolds, PTL

-----------------------------------------------------------------------------
(* What a step may never do.                                               *)

\* A step that writes to the dictionaries and the set of instance k only.
WritesOnly(k) ==
    /\ UNCHANGED <<model, made, setOf, privateOf>>
    /\ \A l \in made \ {k} : dict'[l] = dict[l] /\ extra'[l] = extra[l]
    /\ \A l \in made : setOf[l] # setOf[k] => fieldsSet'[setOf[l]] = fieldsSet[setOf[l]]
    /\ \/ UNCHANGED private
       \/ /\ UNCHANGED <<dict, extra, fieldsSet>>
          /\ \A l \in made : privateOf[l] # privateOf[k] =>
                private'[privateOf[l]] = private[privateOf[l]]

\* Instances i and j may change together.
MayShare(i, j) ==
    \/ borrowed[i] \/ borrowed[j]
    \/ model.root /\ privateOf[i] = privateOf[j]

LEMMA WriterShares ==
    ASSUME InstanceInv, NEW k \in made, WritesOnly(k),
           NEW i \in made, NEW j \in made, i # j,
           Seen(i)' # Seen(i), Seen(j)' # Seen(j)
    PROVE  MayShare(i, j)
<1>1. \A l \in made : /\ borrowed[l] \/ setOf[l] = l
                      /\ model.root \/ privateOf[l] = l
  BY DEF InstanceInv, ObjectInv, Owned
<1>2. CASE UNCHANGED private
  <2>1. ASSUME NEW l \in made, Seen(l)' # Seen(l) PROVE setOf[l] = setOf[k]
    BY <1>2, <2>1 DEF WritesOnly, Seen, Private, FieldsSet
  <2>2. setOf[i] = setOf[j]
    BY <2>1
  <2> QED
    BY <1>1, <2>2 DEF MayShare
<1>3. CASE /\ UNCHANGED <<dict, extra, fieldsSet>>
           /\ \A l \in made : privateOf[l] # privateOf[k] =>
                private'[privateOf[l]] = private[privateOf[l]]
  <2>1. ASSUME NEW l \in made, Seen(l)' # Seen(l) PROVE privateOf[l] = privateOf[k]
    BY <1>3, <2>1 DEF WritesOnly, Seen, Private, FieldsSet
  <2>2. privateOf[i] = privateOf[j]
    BY <2>1
  <2> QED
    BY <1>1, <2>2 DEF MayShare
<1> QED
  BY <1>2, <1>3 DEF WritesOnly

\* The three places a write may go to.
LEMMA PlacesWriteOnly ==
    ASSUME InstanceInv, NEW k \in made, UNCHANGED <<class, made, setOf, privateOf>>,
           NEW d, \/ /\ dict' = [dict EXCEPT ![k] = d] /\ UNCHANGED <<extra, private>>
                     /\ \E S : AddToSet(k, S)
                  \/ /\ extra' = [extra EXCEPT ![k] = d] /\ UNCHANGED <<dict, private>>
                     /\ \E S : AddToSet(k, S)
                  \/ /\ private' = [private EXCEPT ![privateOf[k]] = d]
                     /\ UNCHANGED <<dict, extra, fieldsSet>>
    PROVE  WritesOnly(k)
<1>1. /\ dict \in [Instances -> Object] /\ extra \in [Instances -> Object]
      /\ private \in [Instances -> Object] /\ fieldsSet \in [Instances -> SUBSET Names]
      /\ made \subseteq Instances /\ \A l \in made : setOf[l] \in Instances /\ privateOf[l] \in Instances
  BY DEF InstanceInv, ObjectInv, ObjectTypeOK
<1>2. UNCHANGED model
  BY DEF class
<1>3. ASSUME NEW S, AddToSet(k, S)
      PROVE  \A l \in made : setOf[l] # setOf[k] => fieldsSet'[setOf[l]] = fieldsSet[setOf[l]]
  BY <1>1, <1>3 DEF AddToSet
<1>4. CASE dict' = [dict EXCEPT ![k] = d] /\ UNCHANGED <<extra, private>> /\ \E S : AddToSet(k, S)
  <2>1. \A l \in made \ {k} : dict'[l] = dict[l] /\ extra'[l] = extra[l]
    BY <1>1, <1>4
  <2> QED
    BY <1>2, <1>3, <1>4, <2>1 DEF WritesOnly
<1>5. CASE extra' = [extra EXCEPT ![k] = d] /\ UNCHANGED <<dict, private>> /\ \E S : AddToSet(k, S)
  <2>1. \A l \in made \ {k} : dict'[l] = dict[l] /\ extra'[l] = extra[l]
    BY <1>1, <1>5
  <2> QED
    BY <1>2, <1>3, <1>5, <2>1 DEF WritesOnly
<1>6. CASE private' = [private EXCEPT ![privateOf[k]] = d] /\ UNCHANGED <<dict, extra, fieldsSet>>
  <2>1. \A l \in made : privateOf[l] # privateOf[k] => private'[privateOf[l]] = private[privateOf[l]]
    BY <1>1, <1>6
  <2> QED
    BY <1>2, <1>6, <2>1 DEF WritesOnly
<1> QED
  BY <1>4, <1>5, <1>6

LEMMA ChangesWriteOnly ==
    ASSUME InstanceInv, NEW k \in Instances, NEW n \in Names, NEW v \in Values,
           SetAttr(k, n, v) \/ ReadCached(k, n, v) \/ DelAttr(k, n)
    PROVE  k \in made /\ WritesOnly(k)
<1>0. k \in made
  BY DEF SetAttr, ReadCached, DelAttr
<1>1. CASE SetAttr(k, n, v)
  <2>1. /\ UNCHANGED <<class, made, setOf, privateOf>>
        /\ \/ SetInDict(k, n, v) /\ \E S : AddToSet(k, S)
           \/ SetInExtra(k, n, v) /\ \E S : AddToSet(k, S)
           \/ SetInPrivate(k, n, v) /\ UNCHANGED fieldsSet
    BY <1>0, <1>1, AssignmentWrites DEF WritesDict, WritesExtra, WritesPrivate
  <2>2. CASE SetInDict(k, n, v) /\ \E S : AddToSet(k, S)
    BY <1>0, <2>1, <2>2, PlacesWriteOnly DEF SetInDict
  <2>3. CASE SetInExtra(k, n, v) /\ \E S : AddToSet(k, S)
    BY <1>0, <2>1, <2>3, PlacesWriteOnly DEF SetInExtra
  <2>4. CASE SetInPrivate(k, n, v) /\ UNCHANGED fieldsSet
    BY <1>0, <2>1, <2>4, PlacesWriteOnly DEF SetInPrivate
  <2> QED
    BY <1>0, <2>1, <2>2, <2>3, <2>4
<1>2. CASE ReadCached(k, n, v)
  <2>1. SetInDict(k, n, v) /\ UNCHANGED <<class, made, fieldsSet, setOf, privateOf>>
    BY <1>2 DEF ReadCached
  <2>2. \E S : AddToSet(k, S)
    BY <1>0, <2>1, UnchangedSet DEF InstanceInv
  <2> QED
    BY <1>0, <2>1, <2>2, PlacesWriteOnly DEF SetInDict
<1>3. CASE DelAttr(k, n)
  <2>1. /\ UNCHANGED <<class, made, fieldsSet, setOf, privateOf>>
        /\ \E d : \/ dict' = [dict EXCEPT ![k] = d] /\ UNCHANGED <<extra, private>>
                  \/ extra' = [extra EXCEPT ![k] = d] /\ UNCHANGED <<dict, private>>
                  \/ private' = [private EXCEPT ![privateOf[k]] = d] /\ UNCHANGED <<dict, extra>>
    BY <1>3 DEF DelAttr
  <2>2. \E S : AddToSet(k, S)
    BY <1>0, <2>1, UnchangedSet DEF InstanceInv
  <2> QED
    BY <1>0, <2>1, <2>2, PlacesWriteOnly
<1> QED
  BY <1>0, <1>1, <1>2, <1>3

\* Making an instance leaves those that exist alone.
LEMMA MakingLeavesOthers ==
    ASSUME InstanceInv, NEW k \in Instances, k \notin made,
           NEW d, dict' = [dict EXCEPT ![k] = d], NEW x, extra' = [extra EXCEPT ![k] = x],
           NEW p, private' = [private EXCEPT ![k] = p] \/ UNCHANGED private,
           NEW q, privateOf' = [privateOf EXCEPT ![k] = q],
           NEW S, fieldsSet' = [fieldsSet EXCEPT ![k] = S] \/ UNCHANGED fieldsSet,
           NEW s, setOf' = [setOf EXCEPT ![k] = s],
           NEW i \in made
    PROVE  Seen(i)' = Seen(i)
<1>1. /\ dict \in [Instances -> Object] /\ extra \in [Instances -> Object]
      /\ private \in [Instances -> Object] /\ fieldsSet \in [Instances -> SUBSET Names]
      /\ setOf \in [Instances -> Instances] /\ privateOf \in [Instances -> Instances]
      /\ made \subseteq Instances
  BY DEF InstanceInv, ObjectInv, ObjectTypeOK
<1>2. setOf[i] \in made /\ privateOf[i] \in made
  BY DEF InstanceInv, ObjectInv, Owned
<1>3. dict'[i] = dict[i] /\ extra'[i] = extra[i] /\ setOf'[i] = setOf[i] /\ privateOf'[i] = privateOf[i]
  BY <1>1
<1>4. private'[privateOf[i]] = private[privateOf[i]] /\ fieldsSet'[setOf[i]] = fieldsSet[setOf[i]]
  BY <1>1, <1>2
<1> QED
  BY <1>3, <1>4 DEF Seen, Private, FieldsSet

LEMMA NextIndependent ==
    ASSUME InstanceInv, [Next]_vars, NEW i \in made, NEW j \in made, i # j,
           Seen(i)' # Seen(i), Seen(j)' # Seen(j)
    PROVE  MayShare(i, j)
<1>0. model \in Models
  BY DEF InstanceInv, ClassInv, ClassTypeOK
<1>1. ASSUME NEW k \in Instances, NEW n \in Names, NEW v \in Values,
             SetAttr(k, n, v) \/ ReadCached(k, n, v)
      PROVE  MayShare(i, j)
  BY <1>1, ChangesWriteOnly, WriterShares
<1>2. ASSUME NEW k \in Instances, NEW n \in Names, DelAttr(k, n) PROVE MayShare(i, j)
  <2>1. CASE Values = {}
    <3>1. \A o \in Object : DOMAIN o = {}
      BY <2>1, ObjectIs
    <3>2. k \in made /\ dict[k] \in Object /\ extra[k] \in Object /\ Private(k) \in Object
      BY <1>2, ObjectsOf DEF DelAttr, InstanceInv
    <3> QED
      BY <1>2, <3>1, <3>2 DEF DelAttr
  <2>2. CASE Values # {}
    BY <1>2, <2>2, ChangesWriteOnly, WriterShares
  <2> QED
    BY <2>1, <2>2
<1>3. ASSUME NEW k \in Instances, NEW data \in Inputs(model.uses), ModelInit(k, data)
      PROVE  MayShare(i, j)
  <2>1. Seen(i)' = Seen(i)
    BY <1>3, MakingLeavesOthers DEF ModelInit, Make, OwnSet
  <2> QED
    BY <2>1
<1>4. ASSUME NEW k \in Instances, NEW data \in Inputs(model.uses), NEW lender \in Instances,
             ModelConstruct(k, data, lender)
      PROVE  MayShare(i, j)
  <2>1. Seen(i)' = Seen(i)
    BY <1>4, MakingLeavesOthers DEF ModelConstruct, Make, OwnSet
  <2> QED
    BY <2>1
<1>5. ASSUME NEW l \in Instances, NEW k \in Instances, NEW deep \in BOOLEAN,
             NEW update \in Object, ModelCopy(l, k, deep, update)
      PROVE  MayShare(i, j)
  <2>1. Seen(i)' = Seen(i)
    BY <1>5, MakingLeavesOthers DEF ModelCopy, CopyPrivate, CopySet, OwnSet
  <2> QED
    BY <2>1
<1>6. CASE UNCHANGED objects
  BY <1>6 DEF objects, Seen, Private, FieldsSet
<1> QED
  BY <1>0, <1>1, <1>2, <1>3, <1>4, <1>5, <1>6, NextCases DEF Rebuild, SetClassAttribute, vars

\* Whatever is done to one instance shows in no other, but for sets that were
\* handed to model_construct() and the private dictionaries of RootModels.
THEOREM InstancesStayIndependent == Spec => InstancesIndependent
<1>1. InstanceInv /\ [Next]_vars =>
        [\A i, j \in made :
            i # j /\ Seen(i)' # Seen(i) /\ Seen(j)' # Seen(j) =>
                \/ borrowed[i] \/ borrowed[j]
                \/ model.root /\ privateOf[i] = privateOf[j]]_vars
  BY NextIndependent DEF MayShare
<1> QED
  BY <1>1, InvHolds, PTL DEF Spec, InstancesIndependent

-----------------------------------------------------------------------------
(* Reading back.                                                           *)

\* A read that finds the same things in the same places answers the same.
LEMMA GetAttrSame ==
    ASSUME NEW i, NEW m, UNCHANGED class,
           m \in DOMAIN dict'[i] <=> m \in DOMAIN dict[i],
           m \in DOMAIN dict[i] => dict'[i][m] = dict[i][m],
           m \in DOMAIN extra'[i] <=> m \in DOMAIN extra[i],
           m \in DOMAIN extra[i] => extra'[i][m] = extra[i][m],
           m \in DOMAIN Private(i)' <=> m \in DOMAIN Private(i),
           m \in DOMAIN Private(i) => Private(i)'[m] = Private(i)[m]
    PROVE  GetAttr(i, m)' = GetAttr(i, m)
<1>1. model' = model /\ attributes' = attributes
  BY DEF class
<1> DEFINE p == Private(i)
<1>2. CASE m \in DOMAIN dict[i]
  BY <1>2 DEF GetAttr
<1>3. CASE m \notin DOMAIN dict[i] /\ m \in attributes \cup model.classVars
  BY <1>1, <1>3 DEF GetAttr
<1>4. CASE m \notin DOMAIN dict[i] /\ m \notin attributes \cup model.classVars
  <2>1. GetAttr(i, m) = IF m \in model.privates
                        THEN IF m \in DOMAIN Private(i) THEN Private(i)[m] ELSE NoValue
                        ELSE IF m \in DOMAIN extra[i] THEN extra[i][m] ELSE NoValue
    BY <1>4 DEF GetAttr
  <2>2. GetAttr(i, m)' = IF m \in model.privates
                         THEN IF m \in DOMAIN Private(i)' THEN Private(i)'[m] ELSE NoValue
                         ELSE IF m \in DOMAIN extra'[i] THEN extra'[i][m] ELSE NoValue
    BY <1>1, <1>4 DEF GetAttr
  <2> QED
    BY <2>1, <2>2
<1> QED
  BY <1>2, <1>3, <1>4

LEMMA AssignmentReads ==
    ASSUME InstanceInv, NEW i \in made, NEW n \in Names, NEW v \in Values,
           SetAttr(i, n, v), ~Shadowed(i, n)
    PROVE  /\ GetAttr(i, n)' = v
           /\ \A m \in Names \ {n} : GetAttr(i, m)' = GetAttr(i, m)
<1>1. /\ UNCHANGED <<class, made, setOf, privateOf, borrowed>>
      /\ WritesDict(i, n, v) \/ WritesExtra(i, n, v) \/ WritesPrivate(i, n, v)
  BY AssignmentWrites
<1>2. /\ dict \in [Instances -> Object] /\ extra \in [Instances -> Object]
      /\ private \in [Instances -> Object]
      /\ i \in Instances /\ privateOf[i] \in Instances
      /\ dict[i] \in Object /\ extra[i] \in Object /\ Private(i) \in Object
  BY ObjectsOf DEF InstanceInv, ObjectInv, ObjectTypeOK
<1>3. model' = model /\ attributes' = attributes /\ privateOf' = privateOf
  BY <1>1 DEF class
<1>4. /\ model.privates \subseteq Underscored /\ attributes \cap Underscored = {}
  BY ModelFits DEF InstanceInv, ClassInv, ClassTypeOK
<1>5. CASE WritesDict(i, n, v)
  <2>1. dict' = [dict EXCEPT ![i] = Put(dict[i], n, v)] /\ UNCHANGED <<extra, private>>
    BY <1>5 DEF WritesDict, SetInDict
  <2>2. dict'[i] = Put(dict[i], n, v)
    BY <1>2, <2>1
  <2>3. /\ DOMAIN dict'[i] = DOMAIN dict[i] \cup {n} /\ dict'[i][n] = v
        /\ \A m \in DOMAIN dict[i] : m # n => dict'[i][m] = dict[i][m]
    <3> DEFINE f == dict[i]
               g == Put(f, n, v)
    <3>1. /\ DOMAIN g = DOMAIN f \cup {n} /\ g[n] = v
          /\ \A m \in DOMAIN f : m # n => g[m] = f[m]
      <4>1. f \in Object
        BY <1>2
      <4> HIDE DEF f
      <4> QED
        BY <4>1, PutObject
    <3> QED
      BY <2>2, <3>1
  <2>4. GetAttr(i, n)' = v
    BY <2>3 DEF GetAttr
  <2>5. Private(i)' = Private(i)
    BY <1>3, <2>1 DEF Private
  <2> QED
    BY <1>1, <2>1, <2>3, <2>4, <2>5, GetAttrSame
<1>6. CASE WritesExtra(i, n, v)
  <2>1. extra' = [extra EXCEPT ![i] = Put(extra[i], n, v)] /\ UNCHANGED <<dict, private>>
    BY <1>6 DEF WritesExtra, SetInExtra
  <2>2. extra'[i] = Put(extra[i], n, v)
    BY <1>2, <2>1
  <2>3. /\ DOMAIN extra'[i] = DOMAIN extra[i] \cup {n} /\ extra'[i][n] = v
        /\ \A m \in DOMAIN extra[i] : m # n => extra'[i][m] = extra[i][m]
    <3> DEFINE f == extra[i]
               g == Put(f, n, v)
    <3>1. /\ DOMAIN g = DOMAIN f \cup {n} /\ g[n] = v
          /\ \A m \in DOMAIN f : m # n => g[m] = f[m]
      <4>1. f \in Object
        BY <1>2
      <4> HIDE DEF f
      <4> QED
        BY <4>1, PutObject
    <3> QED
      BY <2>2, <3>1
  <2>4. n \notin attributes \cup model.classVars \cup model.privates
    BY <1>4, <1>6 DEF WritesExtra, Shadowed
  <2>5. n \notin DOMAIN dict[i]
    <3>1. DOMAIN dict[i] \subseteq DictNames
      BY <1>6 DEF WritesExtra, InstanceInv, ObjectInv, Placed
    <3> QED
      BY <1>6, <2>4, <3>1 DEF WritesExtra, DictNames
  <2>6. GetAttr(i, n)' = v
    BY <1>3, <2>1, <2>3, <2>4, <2>5 DEF GetAttr
  <2>7. Private(i)' = Private(i)
    BY <1>3, <2>1 DEF Private
  <2> QED
    BY <1>1, <2>1, <2>3, <2>6, <2>7, GetAttrSame
<1>7. CASE WritesPrivate(i, n, v)
  <2>1. private' = [private EXCEPT ![privateOf[i]] = Put(Private(i), n, v)]
        /\ UNCHANGED <<dict, extra>>
    BY <1>7 DEF WritesPrivate, SetInPrivate, Private
  <2>2. Private(i)' = Put(Private(i), n, v)
    BY <1>2, <1>3, <2>1 DEF Private
  <2>3. /\ DOMAIN Private(i)' = DOMAIN Private(i) \cup {n} /\ Private(i)'[n] = v
        /\ \A m \in DOMAIN Private(i) : m # n => Private(i)'[m] = Private(i)[m]
    <3> DEFINE f == Private(i)
               g == Put(f, n, v)
    <3>1. /\ DOMAIN g = DOMAIN f \cup {n} /\ g[n] = v
          /\ \A m \in DOMAIN f : m # n => g[m] = f[m]
      <4>1. f \in Object
        BY <1>2
      <4> HIDE DEF f
      <4> QED
        BY <4>1, PutObject
    <3> QED
      BY <2>2, <3>1
  <2>4. n \in model.privates /\ n \notin attributes \cup model.classVars
    BY <1>4, <1>7 DEF WritesPrivate
  <2>5. n \notin DOMAIN dict[i]
    BY <2>4 DEF Shadowed
  <2>6. GetAttr(i, n)' = v
    BY <1>3, <2>1, <2>3, <2>4, <2>5 DEF GetAttr
  <2> QED
    BY <1>1, <2>1, <2>3, <2>6, GetAttrSame
<1> QED
  BY <1>1, <1>5, <1>6, <1>7

\* An attribute reads as what was assigned to it and no other attribute of the
\* instance reads differently, whichever place _setattr_handler() chose, unless
\* another place hides it from __getattr__.
THEOREM AssignmentsReadBack == Spec => AssignmentReadsBack
<1>1. ASSUME InstanceInv, NEW i \in made, NEW n \in model.uses, NEW v \in Values,
             SetAttr(i, n, v), ~Shadowed(i, n)
      PROVE  /\ GetAttr(i, n)' = v
             /\ \A m \in model.uses \ {n} : GetAttr(i, m)' = GetAttr(i, m)
  <2>1. model.uses \subseteq Names
    BY <1>1, ModelFits DEF Model, InstanceInv, ClassInv, ClassTypeOK
  <2> QED
    BY <1>1, <2>1, AssignmentReads
<1>2. InstanceInv /\ [Next]_vars =>
        [\A i \in made, n \in model.uses, v \in Values :
            SetAttr(i, n, v) /\ ~Shadowed(i, n) =>
                /\ GetAttr(i, n)' = v
                /\ \A m \in model.uses \ {n} : GetAttr(i, m)' = GetAttr(i, m)]_vars
  BY <1>1
<1> QED
  BY <1>2, InvHolds, PTL DEF Spec, AssignmentReadsBack
=============================================================================
