-------------------- MODULE GenericParametrizationProofs --------------------
(***************************************************************************)
(* What GenericParametrization promises for every program: any generic     *)
(* models, nested in one another in any way, any arguments, classes that   *)
(* fail at any moment and a garbage collector that runs at any moment.     *)
(***************************************************************************)
EXTENDS GenericParametrization, InductionLemmas, FiniteSetTheorems, SequenceTheorems, TLAPS

-----------------------------------------------------------------------------
(* Arguments, and what the keys say of them.                               *)

Parts == UNION {Members(a) : a \in AllAsked \cup AskedAgain}

\* A union has no member twice, T is alone, and a single type is one object, and
\* not written with `|`.
Arguments ==
    {a \in [ctor : {"plain", "list"}, pipe : BOOLEAN, of : Seq(Parts),
            object : Objects \cup {1}] :
        /\ a.of # <<>>
        /\ a.pipe => Len(a.of) > 1
        /\ \A i, j \in DOMAIN a.of : a.of[i] = a.of[j] => i = j
        /\ T \in Members(a) => a.of = <<T>>
        /\ a.ctor = "plain" /\ Len(a.of) = 1 => a.object = 1}

\* What submodels are made for.
MadeFor(arg) ==
    /\ arg \in Arguments
    /\ arg # TypeVar
    /\ \/ arg \in Evaluated(AllAsked)
       \/ /\ T \notin Members(arg)
          /\ \E a \in Evaluated(AllAsked), b \in Evaluated(AskedAgain) : arg = Replace(a, b)

\* The arguments whose order, if they are unions, the keys know.
Ordered(val) == val.ctor = "plain" /\ ~val.pipe

SameText(a, b) == a.pipe = b.pipe /\ a.of = b.of

\* The argument val given last amounts to arg: it is arg, or the union in the list.
Amounts(arg, val) ==
    \/ arg = val
    \/ arg.ctor = "list" /\ val.ctor = "plain" /\ SameText(arg, val)

\* The model o asks for the model p, through any number of models.
Elements(seq) == {seq[i] : i \in DOMAIN seq}
Children(o) == Elements(Nested[o])

Leads(o, p) ==
    \A S \in SUBSET Origins : o \in S /\ (\A q \in S : Children(q) \subseteq S) => p \in S

Models == Origins \cup DOMAIN fields

-----------------------------------------------------------------------------
(* The invariant.                                                          *)

CachedAs(key, class) == key \in DOMAIN cache /\ cache[key] = class

\* x is what Model[val] asks of c, as far as the early key tells.
Answers(x, c, val) ==
    IF val = TypeVar THEN x = c
    ELSE /\ x \in DOMAIN fields
         /\ x.origin = OriginOf(c)
         /\ Same(x.arg) = Same(ArgOf(c, val))
         /\ Ordering(x.arg) = Ordering(ArgOf(c, val))
         /\ Ordered(val) => SameText(x.arg, ArgOf(c, val))

\* The same for the late key.
AnswersLate(x, o, arg, val) ==
    /\ x \in DOMAIN fields
    /\ x.origin = o
    /\ Same(x.arg) = Same(arg)
    /\ Ordering(x.arg) = Ordering(arg)
    /\ Ordered(val) => SameText(x.arg, arg)

EarlyKeyFits(k, x) ==
    \E c \in Models, val \in Arguments : k = EarlyKey(c, val) /\ Answers(x, c, val)

LateKeyFits(k, x) ==
    \E o \in Origins, arg \in Arguments, val \in Arguments :
        Amounts(arg, val) /\ k = LateKey(o, arg, val) /\ AnswersLate(x, o, arg, val)

CacheFits == \A k \in DOMAIN cache : EarlyKeyFits(k, cache[k]) \/ LateKeyFits(k, cache[k])

\* The types of the fields of a class with this argument are still found under
\* the keys they were asked with.
TypesCached(arg, types) == \A x \in types : CachedAs(EarlyKey(x.origin, arg), x)

\* s, the fields of a class or frame with this argument, has an answer for the
\* field of model o.
Answered(arg, s, o) ==
    \/ \E x \in s.types : CachedAs(EarlyKey(o, arg), x)
    \/ TypeRef(o, arg) \in s.awaits

CachedLate(c) ==
    \E val \in Arguments :
        Amounts(c.arg, val) /\ CachedAs(LateKey(c.origin, c.arg, val), c)

\* A class that exists: all its fields have a type or a placeholder; if a
\* placeholder is for another class, that one was asking for it.
ClassFits(c) ==
    /\ c \in Submodels
    /\ MadeFor(c.arg)
    /\ fields[c].types \subseteq DOMAIN fields
    /\ fields[c].awaits \subseteq {TypeRef(o, c.arg) : o \in Origins}
    /\ TypesCached(c.arg, fields[c].types)
    /\ \A o \in Children(c.origin) : Answered(c.arg, fields[c], o)
    /\ \A o \in Origins \ {c.origin} :
          TypeRef(o, c.arg) \in fields[c].awaits =>
              Leads(o, c.origin) /\ CachedAs(EarlyKey(c.origin, c.arg), c)
    /\ CachedLate(c)

Frames ==
    [cls : Origins \cup Submodels, val : Arguments, origin : Origins, arg : Arguments,
     todo : Seq(Origins), types : SUBSET Submodels, awaits : SUBSET (Origins \X Arguments)]

\* A call in progress, apart from the others.
FrameFits(f) ==
    /\ MadeFor(f.arg) /\ f.val # TypeVar /\ Amounts(f.arg, f.val)
    /\ f.cls \in Models
    /\ f.origin = OriginOf(f.cls) /\ f.arg = ArgOf(f.cls, f.val)
    /\ f.types \subseteq DOMAIN fields
    /\ TypesCached(f.arg, f.types)

\* The class being made is not to be found in the cache.
Fresh(f) ==
    /\ EarlyKey(f.cls, f.val) \notin DOMAIN cache
    /\ LateKey(f.origin, f.arg, f.val) \notin DOMAIN cache

\* The frames above the first are calls of replace_types(), each for a field of
\* the class below, all with the same argument.
NestedFrame(i) ==
    i > 1 => /\ stack[i].cls = stack[i].origin
             /\ stack[i].val = stack[i].arg
             /\ stack[i].arg = stack[1].arg

BeingAsked(i, o) == i < Len(stack) /\ stack[i + 1].origin = o

FrameDone(i) ==
    \A o \in Children(stack[i].origin) :
        \/ o \in Elements(stack[i].todo)
        \/ BeingAsked(i, o)
        \/ Answered(stack[i].arg, stack[i], o)

FrameAwaits(i) ==
    stack[i].awaits \subseteq {TypeRef(stack[j].origin, stack[j].arg) : j \in 1 .. i}

CallFits(i) ==
    /\ FrameFits(stack[i])
    /\ Fresh(stack[i])
    /\ NestedFrame(i)
    /\ Elements(stack[i].todo) \subseteq Children(stack[i].origin)
    /\ FrameDone(i)
    /\ FrameAwaits(i)
    /\ \A j \in 1 .. i : Leads(stack[j].origin, stack[i].origin)

StackFits == stack \in Seq(Frames) /\ \A i \in DOMAIN stack : CallFits(i)

FieldsFit ==
    /\ IsFiniteSet(DOMAIN fields)
    /\ \A c \in DOMAIN fields : ClassFits(c)

GenericInv ==
    /\ asked \in Programs
    /\ held \subseteq DOMAIN fields
    /\ FieldsFit
    /\ CacheFits
    /\ StackFits
    /\ GuardIsStack

-----------------------------------------------------------------------------
(* Lemmas about arguments and keys.                                        *)

LEMMA ArgumentParts ==
    ASSUME NEW a \in Arguments
    PROVE  /\ a.ctor \in {"plain", "list"}
           /\ a.of \in Seq(Parts) /\ Len(a.of) \in Nat \ {0}
           /\ DOMAIN a.of = 1 .. Len(a.of)
           /\ a.pipe \in BOOLEAN /\ (a.pipe => Len(a.of) > 1)
           /\ a = Arg(a.ctor, a.pipe, a.of, a.object)
           /\ T \in Members(a) => a.of = <<T>>
BY DEF Arguments, Arg

LEMMA OrderedUnion ==
    ASSUME NEW a \in Arguments, Ordered(a), Len(a.of) # 1
    PROVE  Ordering(a) = a.of /\ a.of # <<>>
<1>1. a.of \in Seq(Parts) /\ Len(a.of) \in Nat \ {0}
  BY ArgumentParts
<1>2. \A n \in Nat \ {0} : n # 1 => n > 1
  OBVIOUS
<1>3. Len(a.of) > 1
  BY <1>1, <1>2
<1> QED
  BY <1>3 DEF Ordering, Ordered, Arguments

LEMMA SingleIsNoPipe ==
    ASSUME NEW a \in Arguments, Len(a.of) = 1
    PROVE  ~a.pipe
<1>1. ~(Len(a.of) > 1)
  OBVIOUS
<1>2. a.pipe => Len(a.of) > 1
  BY ArgumentParts
<1> QED
  BY <1>1, <1>2

\* A union of one member is that member.
LEMMA SingleMember ==
    ASSUME NEW a \in Arguments, NEW m, Members(a) = {m}
    PROVE  a.of = <<m>> /\ Len(a.of) = 1 /\ ~a.pipe
<1>1. /\ a.of \in Seq(Parts) /\ Len(a.of) \in Nat \ {0} /\ DOMAIN a.of = 1 .. Len(a.of)
      /\ \A i, j \in DOMAIN a.of : a.of[i] = a.of[j] => i = j
  BY ArgumentParts DEF Arguments
<1>2. \A i \in DOMAIN a.of : a.of[i] = m
  BY DEF Members
<1>3. Len(a.of) = 1
  <2>1. CASE Len(a.of) > 1
    <3>1. PICK n \in Nat : n = Len(a.of) /\ n > 1 /\ DOMAIN a.of = 1 .. n
      BY <1>1, <2>1
    <3>2. 1 \in DOMAIN a.of /\ 2 \in DOMAIN a.of
      BY <3>1
    <3> QED
      BY <1>1, <1>2, <3>2
  <2>2. \A n \in Nat \ {0} : ~(n > 1) => n = 1
    OBVIOUS
  <2> QED
    BY <1>1, <2>1, <2>2
<1>4. ~a.pipe
  BY <1>3, SingleIsNoPipe
<1> QED
  BY <1>1, <1>2, <1>3, <1>4

LEMMA OneMember ==
    ASSUME NEW a \in Arguments, Len(a.of) = 1
    PROVE  Members(a) = {a.of[1]} /\ a.of = <<a.of[1]>> /\ ~a.pipe
<1>1. a.of \in Seq(Parts) /\ DOMAIN a.of = 1 .. 1 /\ a.pipe \in BOOLEAN
  BY ArgumentParts
<1>2. ~a.pipe
  BY SingleIsNoPipe
<1> QED
  BY <1>1, <1>2 DEF Members

LEMMA TypeVarParts ==
    /\ TypeVar.ctor = "plain" /\ ~TypeVar.pipe
    /\ TypeVar.of = <<T>> /\ TypeVar.object = 1
    /\ Members(TypeVar) = {T}
    /\ Same(TypeVar) = <<"plain", {T}>>
<1>1. /\ TypeVar.ctor = "plain" /\ TypeVar.pipe = FALSE
      /\ TypeVar.of = <<T>> /\ TypeVar.object = 1
  BY DEF TypeVar, Written, Arg
<1>2. Members(TypeVar) = {T}
  BY <1>1 DEF Members
<1> QED
  BY <1>1, <1>2 DEF Same

\* An argument that looks like the type variable is it.
LEMMA TypeVarOnly ==
    ASSUME NEW a \in Arguments, a.ctor = "plain", Members(a) = {T}
    PROVE  a = TypeVar
<1>1. a.of = <<T>> /\ a.pipe = FALSE /\ Len(a.of) = 1
  BY SingleMember, ArgumentParts
<1>2. a.object = 1
  BY <1>1 DEF Arguments
<1> QED
  BY <1>1, <1>2, ArgumentParts DEF TypeVar, Written

\* Equal keys: the same argument but for the object, and the order in a list.
LEMMA KeyDetermines ==
    ASSUME NEW a \in Arguments, NEW b \in Arguments, Same(a) = Same(b), Ordering(a) = Ordering(b)
    PROVE  /\ a.ctor = b.ctor /\ Members(a) = Members(b)
           /\ Ordered(a) => SameText(a, b) /\ Ordered(b)
           /\ a = TypeVar <=> b = TypeVar
<1>1. a.ctor = b.ctor /\ Members(a) = Members(b)
  BY DEF Same
<1>2. ASSUME Ordered(a) PROVE SameText(a, b) /\ Ordered(b)
  <2>1. CASE Len(a.of) = 1
    <3>1. Members(b) = {a.of[1]} /\ a.of = <<a.of[1]>>
      BY <2>1, <1>1, OneMember
    <3>2. b.of = a.of /\ ~b.pipe
      BY <3>1, SingleMember
    <3> QED
      BY <1>1, <1>2, <3>2, ArgumentParts DEF Ordered, SameText
  <2>2. CASE Len(a.of) # 1
    <3>1. Ordering(b) = a.of /\ a.of # <<>>
      BY <1>2, <2>2, OrderedUnion
    <3>2. b.ctor = "plain" /\ ~b.pipe /\ b.of = a.of
      BY <3>1 DEF Ordering
    <3> QED
      BY <1>2, <3>2, ArgumentParts DEF Ordered, SameText
  <2> QED
    BY <2>1, <2>2
<1>3. a = TypeVar <=> b = TypeVar
  BY <1>1, TypeVarParts, TypeVarOnly
<1> QED
  BY <1>1, <1>2, <1>3

LEMMA EarlyKeyDetermines ==
    ASSUME NEW c, NEW d, NEW a \in Arguments, NEW b \in Arguments,
           EarlyKey(c, a) = EarlyKey(d, b)
    PROVE  /\ c = d /\ Same(a) = Same(b) /\ Ordering(a) = Ordering(b)
           /\ a.ctor = b.ctor /\ Members(a) = Members(b)
           /\ Ordered(a) => SameText(a, b) /\ Ordered(b)
           /\ a = TypeVar <=> b = TypeVar
<1>1. c = d /\ Same(a) = Same(b) /\ Ordering(a) = Ordering(b)
  BY DEF EarlyKey
<1> QED
  BY <1>1, KeyDetermines

LEMMA LateKeyDetermines ==
    ASSUME NEW o, NEW p, NEW a \in Arguments, NEW b \in Arguments,
           NEW v \in Arguments, NEW w \in Arguments, Amounts(a, v), Amounts(b, w),
           LateKey(o, a, v) = LateKey(p, b, w)
    PROVE  /\ o = p /\ Same(a) = Same(b) /\ Ordering(a) = Ordering(b)
           /\ Ordered(v) => SameText(a, b)
<1>1. o = p /\ Same(a) = Same(b) /\ Ordering(v) = Ordering(w)
  BY DEF LateKey
<1>2. a.ctor = b.ctor /\ Members(a) = Members(b)
  BY <1>1 DEF Same
<1>3. Ordering(a) = Ordering(b)
  <2>1. CASE a.ctor = "list"
    BY <1>2, <2>1 DEF Ordering
  <2>2. CASE a.ctor # "list"
    BY <1>1, <1>2, <2>2 DEF Amounts
  <2> QED
    BY <2>1, <2>2
<1>4. ASSUME Ordered(v) PROVE SameText(a, b)
  <2>1. SameText(a, v) /\ SameText(b, w)
    BY DEF Amounts, SameText
  <2>2. CASE Len(v.of) = 1
    <3>1. Members(b) = {a.of[1]} /\ a.of = <<a.of[1]>> /\ ~a.pipe
      BY <1>2, <2>1, <2>2, OneMember DEF SameText
    <3>2. b.of = a.of /\ ~b.pipe
      BY <3>1, SingleMember
    <3> QED
      BY <3>1, <3>2, ArgumentParts DEF SameText
  <2>3. CASE Len(v.of) # 1
    <3>1. Ordering(w) = v.of /\ v.of # <<>>
      BY <1>1, <1>4, <2>3, OrderedUnion
    <3>2. ~w.pipe /\ w.of = v.of
      BY <3>1 DEF Ordering
    <3> QED
      BY <1>4, <2>1, <3>2, ArgumentParts DEF SameText, Ordered
  <2> QED
    BY <2>2, <2>3
<1> QED
  BY <1>1, <1>3, <1>4

LEMMA KeysApart ==
    ASSUME NEW c, NEW v, NEW o, NEW a, NEW w
    PROVE  EarlyKey(c, v) # LateKey(o, a, w)
BY DEF EarlyKey, LateKey

\* The argument of the class does not depend on the object, nor, unless it is a
\* list, on anything an early key leaves out.
LEMMA ArgOfSame ==
    ASSUME NEW c, NEW a \in Arguments, NEW b \in Arguments,
           Same(a) = Same(b), Ordering(a) = Ordering(b)
    PROVE  /\ Same(ArgOf(c, a)) = Same(ArgOf(c, b))
           /\ Ordering(ArgOf(c, a)) = Ordering(ArgOf(c, b))
           /\ Ordered(a) => SameText(ArgOf(c, a), ArgOf(c, b))
<1>1. /\ a.ctor = b.ctor /\ Members(a) = Members(b)
      /\ Ordered(a) => SameText(a, b)
  BY KeyDetermines
<1>2. CASE c \in Origins
  BY <1>1, <1>2 DEF ArgOf
<1>3. CASE c \notin Origins /\ T \notin Members(c.arg)
  BY <1>3 DEF ArgOf, Replace, SameText
<1>4. CASE c \notin Origins /\ T \in Members(c.arg) /\ c.arg.ctor # "list"
  BY <1>1, <1>4 DEF ArgOf, Replace
<1>5. CASE c \notin Origins /\ T \in Members(c.arg) /\ c.arg.ctor = "list"
  <2>1. /\ ArgOf(c, a).ctor = "list" /\ SameText(ArgOf(c, a), a)
        /\ ArgOf(c, b).ctor = "list" /\ SameText(ArgOf(c, b), b)
    BY <1>5 DEF ArgOf, Replace, Arg, SameText
  <2>2. Members(ArgOf(c, a)) = Members(a) /\ Members(ArgOf(c, b)) = Members(b)
    BY <2>1 DEF Members, SameText
  <2>3. Ordering(ArgOf(c, a)) = <<>> /\ Ordering(ArgOf(c, b)) = <<>>
    BY <2>1 DEF Ordering
  <2> QED
    BY <1>1, <2>1, <2>2, <2>3 DEF Same, SameText
<1> QED
  BY <1>2, <1>3, <1>4, <1>5

\* What a program writes is an argument, whichever object it is.
LEMMA EvaluatedArguments ==
    ASSUME NEW args \in SUBSET (AllAsked \cup AskedAgain), NEW e \in Evaluated(args)
    PROVE  e \in Arguments
<1>1. PICK a \in args : \E n \in IF a.ctor = "plain" /\ Len(a.of) = 1 THEN {1} ELSE Objects :
         e = [a EXCEPT !.object = n]
  BY DEF Evaluated
<1>2. PICK n \in IF a.ctor = "plain" /\ Len(a.of) = 1 THEN {1} ELSE Objects :
         e = [a EXCEPT !.object = n]
  BY <1>1
<1>3. /\ a \in {Written(a.ctor, a.of), Piped(a.ctor, a.of)}
      /\ a.ctor \in {"plain", "list"}
      /\ a.pipe => Len(a.of) > 1
      /\ a.of \in Seq(Members(a)) \ {<<>>}
      /\ \A i, j \in DOMAIN a.of : a.of[i] = a.of[j] => i = j
      /\ T \in Members(a) => a.of = <<T>>
  BY <1>1, GenericAssumption
<1>4. PICK p \in BOOLEAN : a = Arg(a.ctor, p, a.of, 1)
  BY <1>3 DEF Written, Piped
<1>5. /\ e = [ctor |-> a.ctor, pipe |-> p, of |-> a.of, object |-> n]
      /\ e.ctor = a.ctor /\ e.pipe = a.pipe /\ e.of = a.of /\ e.object = n
  BY <1>2, <1>4 DEF Arg
<1>6. Members(e) = Members(a)
  BY <1>5 DEF Members
<1>7. a.of \in Seq(Parts)
  <2>1. Members(a) \subseteq Parts
    BY <1>1 DEF Parts
  <2> QED
    BY <1>3, <2>1
<1>8. n \in Objects \cup {1} /\ (e.ctor = "plain" /\ Len(e.of) = 1 => n = 1)
  BY <1>2, <1>5
<1> QED
  BY <1>3, <1>4, <1>5, <1>6, <1>7, <1>8 DEF Arguments

\* A class that still contains T has it in a list; with T replaced it amounts to
\* what replaced it.
LEMMA ReplaceInClass ==
    ASSUME NEW a, MadeFor(a), T \in Members(a), NEW val \in Evaluated(AskedAgain), val # TypeVar
    PROVE  /\ MadeFor(Replace(a, val))
           /\ Amounts(Replace(a, val), val)
           /\ val.ctor = "plain"
<1>1. val \in Arguments
  BY EvaluatedArguments
<1>2. val.ctor = "plain"
  <2>1. PICK b \in AskedAgain : \E n : val = [b EXCEPT !.object = n]
    BY DEF Evaluated
  <2>2. b \in {Written(b.ctor, b.of), Piped(b.ctor, b.of)} /\ b.ctor = "plain"
    BY GenericAssumption
  <2> QED
    BY <2>1, <2>2 DEF Written, Piped, Arg
<1>3. a.ctor = "list"
  <2>1. a \in Arguments /\ a # TypeVar
    BY DEF MadeFor
  <2>2. a.of = <<T>>
    BY <2>1, ArgumentParts
  <2>3. Members(a) = {T}
    BY <2>2 DEF Members
  <2> QED
    BY <2>1, <2>3, TypeVarOnly, ArgumentParts
<1> DEFINE r == Replace(a, val)
<1>4. r = Arg("list", val.pipe, val.of, val.object)
  BY <1>3 DEF Replace
<1>5. r.ctor = "list" /\ r.pipe = val.pipe /\ r.of = val.of /\ Members(r) = Members(val)
  BY <1>4 DEF Arg, Members
<1>6. T \notin Members(val)
  <2>1. ASSUME T \in Members(val) PROVE FALSE
    <3>1. val.of = <<T>>
      BY <1>1, <2>1, ArgumentParts
    <3>2. Members(val) = {T}
      BY <3>1 DEF Members
    <3> QED
      BY <1>1, <1>2, <3>2, TypeVarOnly
  <2> QED
    BY <2>1
<1>7. r \in Arguments
  <2>1. /\ val \in [ctor : {"plain", "list"}, pipe : BOOLEAN, of : Seq(Parts),
                   object : Objects \cup {1}]
        /\ val.of # <<>> /\ (val.pipe => Len(val.of) > 1)
        /\ \A i, j \in DOMAIN val.of : val.of[i] = val.of[j] => i = j
    BY <1>1 DEF Arguments
  <2>2. r \in [ctor : {"plain", "list"}, pipe : BOOLEAN, of : Seq(Parts),
               object : Objects \cup {1}]
    BY <1>4, <2>1 DEF Arg
  <2> HIDE DEF r
  <2> QED
    BY <1>5, <1>6, <2>1, <2>2 DEF Arguments
<1>8. r # TypeVar
  BY <1>5, TypeVarParts
<1>9. \E x \in Evaluated(AllAsked), y \in Evaluated(AskedAgain) : r = Replace(x, y)
  <2>1. a \in Evaluated(AllAsked)
    BY DEF MadeFor
  <2> QED
    BY <2>1
<1>10. Amounts(r, val)
  BY <1>2, <1>5 DEF Amounts, SameText
<1> HIDE DEF r
<1>11. MadeFor(r)
  BY <1>5, <1>6, <1>7, <1>8, <1>9 DEF MadeFor
<1> QED
  BY <1>2, <1>10, <1>11 DEF r

-----------------------------------------------------------------------------
(* What From() computes: the least set that has the start and is closed.    *)

Further(near, edge) == near \cup UNION {edge[c] : c \in near}

\* g holds the first k steps of the recursion of From().
Reached(k, some, edge, g) ==
    g = [n \in 0 .. k |-> IF n = 0 THEN some
                          ELSE LET near == g[n - 1] IN near \cup UNION {edge[c] : c \in near}]

LEMMA ReachedExists ==
    ASSUME NEW some, NEW edge, NEW k \in Nat
    PROVE  \E g : Reached(k, some, edge, g)
<1> DEFINE R == {j \in Nat : \E g : Reached(j, some, edge, g)}
<1>1. 0 \in R
  <2> DEFINE g == [n \in 0 .. 0 |-> some]
  <2>1. Reached(0, some, edge, g)
    BY DEF Reached
  <2> QED
    BY <2>1
<1>2. ASSUME NEW j \in Nat, j \in R PROVE j + 1 \in R
  <2>1. PICK g : Reached(j, some, edge, g)
    BY <1>2
  <2> DEFINE h == [n \in 0 .. j + 1 |-> IF n <= j THEN g[n] ELSE Further(g[j], edge)]
  <2>2. /\ \A n \in 0 .. j : h[n] = g[n]
        /\ h[j + 1] = Further(g[j], edge)
    OBVIOUS
  <2>3. \A n \in 0 .. j : g[n] = IF n = 0 THEN some ELSE Further(g[n - 1], edge)
    BY <2>1 DEF Reached, Further
  <2>4. ASSUME NEW n \in 0 .. j + 1
        PROVE  h[n] = IF n = 0 THEN some ELSE Further(h[n - 1], edge)
    <3>1. CASE n = j + 1
      <4>1. h[n - 1] = g[j] /\ n # 0
        BY <2>2, <3>1
      <4> HIDE DEF h
      <4> QED
        BY <2>2, <3>1, <4>1
    <3>2. CASE n \in 0 .. j /\ n # 0
      <4>1. n - 1 \in 0 .. j
        BY <3>2
      <4>2. h[n] = g[n] /\ h[n - 1] = g[n - 1]
        BY <2>2, <3>2, <4>1
      <4>3. g[n] = Further(g[n - 1], edge)
        BY <2>3, <3>2
      <4> HIDE DEF h
      <4> QED
        BY <3>2, <4>2, <4>3
    <3>3. CASE n = 0
      <4>1. 0 \in 0 .. j
        OBVIOUS
      <4>2. h[0] = g[0] /\ g[0] = some
        <5> HIDE DEF h
        <5> QED
          BY <2>2, <2>3, <4>1
      <4> HIDE DEF h
      <4> QED
        BY <3>3, <4>2
    <3> QED
      BY <3>1, <3>2, <3>3
  <2>5. Reached(j + 1, some, edge, h)
    <3>1. h = [n \in 0 .. j + 1 |-> h[n]]
      BY Zenon
    <3>2. [n \in 0 .. j + 1 |-> h[n]] =
             [n \in 0 .. j + 1 |-> IF n = 0 THEN some ELSE Further(h[n - 1], edge)]
      <4> HIDE DEF h
      <4> QED
        BY <2>4, Zenon
    <3> HIDE DEF h
    <3> QED
      BY <3>1, <3>2, Zenon DEF Reached, Further
  <2> HIDE DEF h
  <2> QED
    BY <2>5
<1> HIDE DEF R
<1>3. k \in R
  BY <1>1, <1>2, InductionOnNat
<1> QED
  BY <1>3 DEF R

\* From() in terms of the steps of its recursion.
LEMMA FromSteps ==
    ASSUME NEW some, NEW edge, IsFiniteSet(DOMAIN fields),
           NEW N, N = Cardinality(DOMAIN fields)
    PROVE  /\ N \in Nat
           /\ \E g : /\ From(some, edge) = g[N]
                    /\ g[0] = some
                    /\ \A i \in Nat : i + 1 <= N => g[i + 1] = Further(g[i], edge)
<1>1. N \in Nat
  BY FS_CardinalityType
<1>2. \E g : Reached(N, some, edge, g)
  BY <1>1, ReachedExists
<1> DEFINE G == CHOOSE g : Reached(N, some, edge, g)
<1>3. Reached(N, some, edge, G)
  BY <1>2
<1>4. From(some, edge) = G[N]
  BY <1>1 DEF From, Reached
<1> HIDE DEF G
<1>5. \A n \in 0 .. N :
         G[n] = IF n = 0 THEN some
                ELSE LET near == G[n - 1] IN near \cup UNION {edge[c] : c \in near}
  BY <1>3 DEF Reached
<1>6. G[0] = some
  <2>1. 0 \in 0 .. N
    BY <1>1
  <2> QED
    BY <1>5, <2>1
<1>7. ASSUME NEW i \in Nat, i + 1 <= N PROVE G[i + 1] = Further(G[i], edge)
  <2>1. i + 1 \in 0 .. N /\ i + 1 # 0 /\ (i + 1) - 1 = i
    BY <1>1, <1>7
  <2> QED
    BY <1>5, <2>1 DEF Further
<1> QED
  BY <1>1, <1>4, <1>6, <1>7

\* The set is inside every set that has the start and is closed.
LEMMA FromLeast ==
    ASSUME NEW some, NEW edge, IsFiniteSet(DOMAIN fields), some \subseteq DOMAIN fields,
           \A c \in DOMAIN fields : edge[c] \subseteq DOMAIN fields,
           NEW S, some \subseteq S, \A c \in S : edge[c] \subseteq S
    PROVE  From(some, edge) \subseteq S
<1> DEFINE N == Cardinality(DOMAIN fields)
<1>0. N \in Nat
  BY FromSteps
<1>1. PICK g :
        /\ From(some, edge) = g[N]
        /\ g[0] = some
        /\ \A i \in Nat : i + 1 <= N => g[i + 1] = Further(g[i], edge)
  BY FromSteps
<1> HIDE DEF N
<1> DEFINE R == {i \in Nat : i <= N => g[i] \subseteq S}
<1>2. 0 \in R
  BY <1>1
<1>3. ASSUME NEW i \in Nat, i \in R PROVE i + 1 \in R
  <2>1. ASSUME i + 1 <= N PROVE g[i + 1] \subseteq S
    <3>1. g[i] \subseteq S
      BY <1>0, <1>1, <1>3, <2>1
    <3>2. g[i + 1] = Further(g[i], edge)
      BY <1>1, <2>1
    <3> QED
      BY <3>1, <3>2 DEF Further
  <2> QED
    BY <2>1
<1>4. N \in R
  <2> HIDE DEF R
  <2> QED
    BY <1>0, <1>2, <1>3, InductionOnNat
<1> QED
  BY <1>0, <1>1, <1>4

\* The set has the start and is closed: there are no more steps that add something
\* than there are classes.
LEMMA FromClosed ==
    ASSUME NEW some, NEW edge, IsFiniteSet(DOMAIN fields), some \subseteq DOMAIN fields,
           \A c \in DOMAIN fields : edge[c] \subseteq DOMAIN fields
    PROVE  /\ some \subseteq From(some, edge)
           /\ From(some, edge) \subseteq DOMAIN fields
           /\ \A c \in From(some, edge) : edge[c] \subseteq From(some, edge)
<1> DEFINE D == DOMAIN fields
           N == Cardinality(D)
<1>1. PICK g :
        /\ From(some, edge) = g[N]
        /\ g[0] = some
        /\ \A i \in Nat : i + 1 <= N => g[i + 1] = Further(g[i], edge)
  BY FromSteps
<1>0. /\ N \in Nat /\ N = Cardinality(D)
      /\ IsFiniteSet(D) /\ some \subseteq D /\ \A c \in D : edge[c] \subseteq D
  BY FromSteps
<1> HIDE DEF N, D
<1> DEFINE Closed(S) == \A c \in S : edge[c] \subseteq S
           Enough(i) == Closed(g[i]) \/ Cardinality(g[i]) >= i
           R == {i \in Nat : i <= N => some \subseteq g[i] /\ g[i] \subseteq D /\ Enough(i)}
<1>2. \A S \in SUBSET D : IsFiniteSet(S) /\ Cardinality(S) \in Nat
                          /\ (Cardinality(S) >= Cardinality(D) => S = D)
  <2>1. ASSUME NEW S \in SUBSET D
        PROVE  IsFiniteSet(S) /\ Cardinality(S) \in Nat
               /\ (Cardinality(S) >= Cardinality(D) => S = D)
    BY <1>0, FS_Subset, FS_CardinalityType
  <2> QED
    BY <2>1
<1>3. 0 \in R
  <2>1. Cardinality(some) >= 0
    BY <1>0, <1>2
  <2> QED
    BY <1>0, <1>1, <2>1
<1>4. ASSUME NEW i \in Nat, i \in R PROVE i + 1 \in R
  <2> SUFFICES ASSUME i + 1 <= N
               PROVE  some \subseteq g[i + 1] /\ g[i + 1] \subseteq D /\ Enough(i + 1)
    OBVIOUS
  <2>1. some \subseteq g[i] /\ g[i] \subseteq D /\ Enough(i)
    <3> HIDE DEF Enough
    <3> QED
      BY <1>0, <1>1, <1>4
  <2>2. g[i + 1] = Further(g[i], edge)
    BY <1>1
  <2>3. /\ g[i] \subseteq g[i + 1] /\ g[i + 1] \subseteq D
        /\ \A c \in g[i] : edge[c] \subseteq g[i + 1]
    BY <1>0, <2>1, <2>2 DEF Further
  <2>4. CASE g[i + 1] = g[i]
    <3>1. Closed(g[i + 1])
      BY <2>3, <2>4
    <3> QED
      BY <2>1, <2>3, <3>1
  <2>5. CASE Closed(g[i])
    <3>1. g[i + 1] = g[i]
      BY <2>2, <2>5 DEF Further
    <3> QED
      BY <2>4, <3>1
  <2>6. CASE ~Closed(g[i]) /\ g[i + 1] # g[i]
    <3>1. Cardinality(g[i]) >= i
      BY <2>1, <2>6
    <3>2. g[i] \in SUBSET D /\ g[i + 1] \in SUBSET D
      BY <2>1, <2>3
    <3>3. Cardinality(g[i]) < Cardinality(g[i + 1])
      <4>1. Cardinality(g[i]) <= Cardinality(g[i + 1])
            /\ Cardinality(g[i]) # Cardinality(g[i + 1])
        BY <1>2, <2>3, <2>6, <3>2, FS_Subset
      <4> QED
        BY <1>2, <3>2, <4>1
    <3>4. Cardinality(g[i + 1]) >= i + 1
      BY <1>2, <3>1, <3>2, <3>3
    <3> QED
      BY <2>1, <2>3, <3>4
  <2> QED
    BY <2>4, <2>5, <2>6
<1>5. N \in R
  <2> HIDE DEF R
  <2> QED
    BY <1>0, <1>3, <1>4, InductionOnNat
<1>6. some \subseteq g[N] /\ g[N] \subseteq D /\ Enough(N)
  <2> HIDE DEF Enough
  <2> QED
    BY <1>0, <1>1, <1>5
<1>7. Closed(g[N])
  <2>1. CASE Cardinality(g[N]) >= N
    <3>1. g[N] = D
      BY <1>0, <1>2, <1>6, <2>1
    <3> QED
      BY <1>0, <3>1
  <2> QED
    BY <1>6, <2>1
<1> QED
  BY <1>1, <1>6, <1>7 DEF D

-----------------------------------------------------------------------------
(* What the cache answers.                                                 *)

LEMMA EarlyAnswer ==
    ASSUME CacheFits, NEW c, NEW val \in Arguments, EarlyKey(c, val) \in DOMAIN cache
    PROVE  c \in Models /\ Answers(cache[EarlyKey(c, val)], c, val)
<1> DEFINE k == EarlyKey(c, val)
           x == cache[k]
<1>1. EarlyKeyFits(k, x)
  <2>1. ~LateKeyFits(k, x)
    BY KeysApart DEF LateKeyFits
  <2> QED
    BY <2>1 DEF CacheFits
<1>2. PICK d \in Models, w \in Arguments : k = EarlyKey(d, w) /\ Answers(x, d, w)
  BY <1>1 DEF EarlyKeyFits
<1>3. /\ d = c /\ Same(w) = Same(val) /\ Ordering(w) = Ordering(val)
      /\ w.ctor = val.ctor /\ (w = TypeVar <=> val = TypeVar)
  BY <1>2, EarlyKeyDetermines
<1>4. /\ Same(ArgOf(c, w)) = Same(ArgOf(c, val))
      /\ Ordering(ArgOf(c, w)) = Ordering(ArgOf(c, val))
      /\ Ordered(val) => Ordered(w) /\ SameText(ArgOf(c, w), ArgOf(c, val))
  BY <1>3, ArgOfSame, KeyDetermines
<1> HIDE DEF x, k
<1>5. Answers(x, c, val)
  BY <1>2, <1>3, <1>4 DEF Answers, SameText
<1> QED
  BY <1>2, <1>3, <1>5 DEF x, k

LEMMA LateAnswer ==
    ASSUME CacheFits, FieldsFit,
           NEW o, NEW arg \in Arguments, NEW val \in Arguments, Amounts(arg, val),
           LateKey(o, arg, val) \in DOMAIN cache
    PROVE  AnswersLate(cache[LateKey(o, arg, val)], o, arg, val)
<1> DEFINE k == LateKey(o, arg, val)
           x == cache[k]
<1>1. LateKeyFits(k, x)
  <2>1. ~EarlyKeyFits(k, x)
    BY KeysApart DEF EarlyKeyFits
  <2> QED
    BY <2>1 DEF CacheFits
<1>2. PICK p \in Origins, b \in Arguments, w \in Arguments :
         Amounts(b, w) /\ k = LateKey(p, b, w) /\ AnswersLate(x, p, b, w)
  BY <1>1 DEF LateKeyFits
<1>3. /\ o = p /\ Same(arg) = Same(b) /\ Ordering(arg) = Ordering(b)
      /\ Ordered(val) => SameText(arg, b)
  BY <1>2, LateKeyDetermines
<1>4. x.arg \in Arguments
  BY <1>2 DEF AnswersLate, FieldsFit, ClassFits, MadeFor
<1>5. ASSUME Ordered(val) PROVE SameText(x.arg, arg)
  <2>1. CASE Ordered(w)
    BY <1>2, <1>3, <1>5, <2>1 DEF AnswersLate, SameText
  <2>2. CASE ~Ordered(w)
    <3>1. Ordering(val) = <<>>
      BY <1>2, <2>2 DEF LateKey, Ordering, Ordered
    <3>2. Len(val.of) = 1
      BY <1>5, <3>1, OrderedUnion
    <3>3. SameText(arg, val)
      BY DEF Amounts, SameText
    <3>4. Members(arg) = {arg.of[1]} /\ arg.of = <<arg.of[1]>> /\ ~arg.pipe
      BY <3>2, <3>3, OneMember DEF SameText
    <3>5. Members(x.arg) = Members(arg)
      BY <1>2, <1>3 DEF AnswersLate, Same
    <3>6. x.arg.of = arg.of /\ ~x.arg.pipe
      BY <1>4, <3>4, <3>5, SingleMember
    <3> QED
      BY <1>4, <3>4, <3>6, ArgumentParts DEF SameText
  <2> QED
    BY <2>1, <2>2
<1> HIDE DEF x, k
<1>6. AnswersLate(x, o, arg, val)
  BY <1>2, <1>3, <1>5 DEF AnswersLate
<1> QED
  BY <1>6 DEF x, k

-----------------------------------------------------------------------------
(* What a step keeps.  Classes may be added or freed, keys of freed classes *)
(* go; nothing else of the cache or of a class that stays changes.          *)

Keeping ==
    /\ \A k \in DOMAIN cache :
          cache[k] \in Models' => k \in DOMAIN cache' /\ cache'[k] = cache[k]
    /\ \A c \in DOMAIN fields \cap DOMAIN fields' : fields'[c] = fields[c]

LEMMA CachedKept ==
    ASSUME Keeping, NEW k, NEW x, x \in DOMAIN fields', CachedAs(k, x)
    PROVE  CachedAs(k, x)'
BY DEF Keeping, CachedAs, Models

LEMMA AnsweredKept ==
    ASSUME Keeping, NEW arg, NEW s, NEW o, s.types \subseteq DOMAIN fields',
           Answered(arg, s, o)
    PROVE  Answered(arg, s, o)'
<1>1. CASE TypeRef(o, arg) \in s.awaits
  BY <1>1 DEF Answered
<1>2. CASE \E x \in s.types : CachedAs(EarlyKey(o, arg), x)
  <2>1. PICK x \in s.types : CachedAs(EarlyKey(o, arg), x)
    BY <1>2
  <2>2. CachedAs(EarlyKey(o, arg), x)'
    BY <2>1, CachedKept
  <2> QED
    BY <2>2 DEF Answered
<1> QED
  BY <1>1, <1>2 DEF Answered

LEMMA TypesKept ==
    ASSUME Keeping, NEW arg, NEW types, types \subseteq DOMAIN fields', TypesCached(arg, types)
    PROVE  TypesCached(arg, types)'
BY CachedKept DEF TypesCached

LEMMA ClassKept ==
    ASSUME Keeping, NEW c \in DOMAIN fields, c \in DOMAIN fields', ClassFits(c),
           fields[c].types \subseteq DOMAIN fields'
    PROVE  ClassFits(c)'
<1>1. fields'[c] = fields[c]
  BY DEF Keeping
<1> DEFINE Fits(s) ==
      /\ TypesCached(c.arg, s.types)
      /\ s.awaits \subseteq {TypeRef(o, c.arg) : o \in Origins}
      /\ \A o \in Children(c.origin) : Answered(c.arg, s, o)
      /\ \A o \in Origins \ {c.origin} :
            TypeRef(o, c.arg) \in s.awaits =>
                Leads(o, c.origin) /\ CachedAs(EarlyKey(c.origin, c.arg), c)
<1>2. ASSUME NEW s, Fits(s), s.types \subseteq DOMAIN fields' PROVE Fits(s)'
  <2>1. TypesCached(c.arg, s.types)'
    BY <1>2, TypesKept
  <2>2. ASSUME NEW o \in Children(c.origin) PROVE Answered(c.arg, s, o)'
    BY <1>2, AnsweredKept
  <2>3. CachedAs(EarlyKey(c.origin, c.arg), c) => CachedAs(EarlyKey(c.origin, c.arg), c)'
    BY CachedKept
  <2> QED
    BY <1>2, <2>1, <2>2, <2>3
<1>3. Fits(fields[c])
  BY DEF ClassFits
<1>4. PICK s : s = fields[c]
  OBVIOUS
<1>5. Fits(s)'
  <2> HIDE DEF Fits
  <2> QED
    BY <1>2, <1>3, <1>4
<1>6. CachedLate(c)'
  <2>1. PICK val \in Arguments : Amounts(c.arg, val) /\ CachedAs(LateKey(c.origin, c.arg, val), c)
    BY DEF ClassFits, CachedLate
  <2>2. CachedAs(LateKey(c.origin, c.arg, val), c)'
    BY <2>1, CachedKept
  <2> QED
    BY <2>1, <2>2 DEF CachedLate
<1> QED
  BY <1>1, <1>4, <1>5, <1>6 DEF ClassFits

\* The key of a submodel that stays fits if the class it is asked of stays too.
LEMMA KeyKept ==
    ASSUME FieldsFit, NEW k, NEW x, x \in Models', EarlyKeyFits(k, x) \/ LateKeyFits(k, x),
           k[1] = "early" => k[2] \in Models'
    PROVE  EarlyKeyFits(k, x)' \/ LateKeyFits(k, x)'
<1>0. x \in DOMAIN fields => x \in DOMAIN fields'
  BY DistinctAssumption DEF FieldsFit, ClassFits, Models
<1>1. CASE EarlyKeyFits(k, x)
  <2>1. PICK c \in Models, val \in Arguments : k = EarlyKey(c, val) /\ Answers(x, c, val)
    BY <1>1 DEF EarlyKeyFits
  <2>2. c \in Models'
    BY <2>1 DEF EarlyKey
  <2>3. Answers(x, c, val)'
    BY <1>0, <2>1 DEF Answers
  <2> QED
    BY <2>1, <2>2, <2>3 DEF EarlyKeyFits
<1>2. CASE LateKeyFits(k, x)
  BY <1>0, <1>2 DEF LateKeyFits, AnswersLate
<1> QED
  BY <1>1, <1>2

\* A call that stays in progress: it may have got the types of some fields.
SameCall(f, g) == f.cls = g.cls /\ f.val = g.val /\ f.origin = g.origin /\ f.arg = g.arg

LEMMA CallKept ==
    ASSUME Keeping, StackFits, NEW i \in DOMAIN stack, i \in DOMAIN stack',
           stack' \in Seq(Frames),
           NEW f, f = stack[i], NEW g, g = stack'[i],
           \A j \in 1 .. i : SameCall(stack[j], stack'[j]),
           f.cls \in Models', Fresh(g)',
           Elements(g.todo) \subseteq Elements(f.todo),
           f.types \subseteq g.types, g.types \subseteq DOMAIN fields',
           \A x \in g.types \ f.types : CachedAs(EarlyKey(x.origin, f.arg), x)',
           f.awaits \subseteq g.awaits,
           \A ref \in g.awaits \ f.awaits :
               \E j \in 1 .. i : ref = TypeRef(stack[j].origin, stack[j].arg),
           \A o \in Elements(f.todo) :
               o \in Elements(g.todo) \/ BeingAsked(i, o)' \/ Answered(f.arg, g, o)',
           \A o : BeingAsked(i, o) => BeingAsked(i, o)' \/ Answered(f.arg, g, o)'
    PROVE  CallFits(i)'
<1>0. i \in Nat \ {0} /\ i \in 1 .. i /\ 1 \in 1 .. i
  BY DEF StackFits
<1>1. SameCall(f, g) /\ SameCall(stack[1], stack'[1]) /\ CallFits(i)
  BY <1>0 DEF StackFits
<1>2. /\ FrameFits(f) /\ Elements(f.todo) \subseteq Children(f.origin)
  BY <1>1 DEF CallFits
<1>3. FrameFits(g)'
  <2>1. TypesCached(f.arg, f.types)'
    BY <1>2, TypesKept DEF FrameFits
  <2>2. TypesCached(g.arg, g.types)'
    BY <1>1, <2>1 DEF TypesCached, SameCall
  <2> QED
    BY <1>1, <1>2, <2>2 DEF FrameFits, SameCall
<1>4. NestedFrame(i)'
  BY <1>1 DEF CallFits, NestedFrame, SameCall
<1>5. Elements(g.todo) \subseteq Children(g.origin)
  BY <1>1, <1>2 DEF SameCall
<1>6. ASSUME NEW o \in Children(g.origin)
      PROVE  o \in Elements(g.todo) \/ BeingAsked(i, o)' \/ Answered(g.arg, g, o)'
  <2>1. o \in Elements(f.todo) \/ BeingAsked(i, o) \/ Answered(f.arg, f, o)
    BY <1>1, <1>6 DEF CallFits, FrameDone, SameCall
  <2>2. CASE Answered(f.arg, f, o)
    <3>1. Answered(f.arg, f, o)'
      <4>1. f.types \subseteq DOMAIN fields'
        OBVIOUS
      <4> QED
        BY <2>2, <4>1, AnsweredKept
    <3>2. Answered(f.arg, g, o)'
      BY <3>1 DEF Answered
    <3> QED
      BY <1>1, <3>2 DEF SameCall
  <2>3. f.arg = g.arg
    BY <1>1 DEF SameCall
  <2> QED
    BY <2>1, <2>2, <2>3
<1>7. FrameAwaits(i)'
  <2>1. f.awaits \subseteq {TypeRef(stack[j].origin, stack[j].arg) : j \in 1 .. i}
    BY <1>1 DEF CallFits, FrameAwaits
  <2>2. ASSUME NEW ref \in g.awaits
        PROVE  ref \in {TypeRef(stack'[j].origin, stack'[j].arg) : j \in 1 .. i}
    <3>1. PICK j \in 1 .. i : ref = TypeRef(stack[j].origin, stack[j].arg)
      BY <2>1
    <3>2. stack[j].origin = stack'[j].origin /\ stack[j].arg = stack'[j].arg
      BY DEF SameCall
    <3> QED
      BY <3>1, <3>2
  <2> QED
    BY <2>2 DEF FrameAwaits
<1>8. \A j \in 1 .. i : Leads(stack'[j].origin, stack'[i].origin)
  <2>1. ASSUME NEW j \in 1 .. i PROVE Leads(stack'[j].origin, stack'[i].origin)
    <3>1. stack[j].origin = stack'[j].origin /\ stack[i].origin = stack'[i].origin
      BY <1>0 DEF SameCall
    <3>2. Leads(stack[j].origin, stack[i].origin)
      BY <1>1 DEF CallFits
    <3> QED
      BY <3>1, <3>2
  <2> QED
    BY <2>1
<1>9. FrameDone(i)'
  BY <1>6 DEF FrameDone
<1> QED
  BY <1>3, <1>4, <1>5, <1>7, <1>8, <1>9 DEF CallFits

\* A key that fits is one of a class that exists.
LEMMA FittingKey ==
    ASSUME NEW k, NEW x, EarlyKeyFits(k, x) \/ LateKeyFits(k, x)
    PROVE  /\ x \in Models
           /\ k[1] = "early" => k[2] \in Models
BY DEF EarlyKeyFits, LateKeyFits, Answers, AnswersLate, EarlyKey, LateKey, Models

LEMMA StoredHere ==
    ASSUME NEW c, NEW val, NEW o, NEW arg, NEW x, cache' = Store(c, val, o, arg, x)
    PROVE  cache'[EarlyKey(c, val)] = x /\ cache'[LateKey(o, arg, val)] = x
BY KeysApart DEF Store, Put

LEMMA StoredElsewhere ==
    ASSUME NEW c, NEW val, NEW o, NEW arg, NEW x, cache' = Store(c, val, o, arg, x)
    PROVE  /\ DOMAIN cache' = DOMAIN cache \cup {LateKey(o, arg, val), EarlyKey(c, val)}
           /\ \A k \in DOMAIN cache \ {LateKey(o, arg, val), EarlyKey(c, val)} :
                 cache'[k] = cache[k]
BY DEF Store, Put

LEMMA CacheGrows ==
    ASSUME FieldsFit, CacheFits, DOMAIN fields \subseteq DOMAIN fields',
           \A k \in DOMAIN cache' :
              \/ k \in DOMAIN cache /\ cache'[k] = cache[k]
              \/ EarlyKeyFits(k, cache[k])'
              \/ LateKeyFits(k, cache[k])'
    PROVE  CacheFits'
<1>1. ASSUME NEW k \in DOMAIN cache', k \in DOMAIN cache, cache'[k] = cache[k]
      PROVE  EarlyKeyFits(k, cache[k])' \/ LateKeyFits(k, cache[k])'
  <2>1. PICK x : x = cache[k]
    OBVIOUS
  <2>2. EarlyKeyFits(k, x) \/ LateKeyFits(k, x)
    BY <1>1, <2>1 DEF CacheFits
  <2>3. x \in Models' /\ (k[1] = "early" => k[2] \in Models')
    BY <2>2, FittingKey DEF Models
  <2>4. EarlyKeyFits(k, x)' \/ LateKeyFits(k, x)'
    BY <2>2, <2>3, KeyKept
  <2> QED
    BY <1>1, <2>1, <2>4
<1> QED
  BY <1>1 DEF CacheFits

LEMMA FieldsStay ==
    ASSUME FieldsFit, Keeping, UNCHANGED fields
    PROVE  FieldsFit'
<1>1. ASSUME NEW c \in DOMAIN fields' PROVE ClassFits(c)'
  <2>1. c \in DOMAIN fields /\ ClassFits(c) /\ fields[c].types \subseteq DOMAIN fields'
    BY DEF FieldsFit, ClassFits
  <2> QED
    BY <2>1, ClassKept
<1> QED
  BY <1>1 DEF FieldsFit

-----------------------------------------------------------------------------
(* What __class_getitem__ does before it makes a class.                     *)

\* A class for Model[val] is found, and is from now on under the early key.
Found(c, val, got) ==
    /\ UNCHANGED <<fields, guard>>
    /\ Keeping /\ CacheFits'
    /\ Answers(got, c, val) /\ CachedAs(EarlyKey(c, val), got)'
    /\ DOMAIN cache' \subseteq DOMAIN cache \cup {EarlyKey(c, val)}
    /\ \/ UNCHANGED cache
       \/ val = TypeVar
       \/ LateKey(OriginOf(c), ArgOf(c, val), val) \in DOMAIN cache

LEMMA FoundEarly ==
    ASSUME CacheFits, NEW c, NEW val \in Arguments, EarlyKey(c, val) \in DOMAIN cache,
           UNCHANGED <<fields, cache, guard>>
    PROVE  Found(c, val, cache[EarlyKey(c, val)])
<1>1. Keeping
  BY DEF Keeping
<1>2. CacheFits'
  BY DEF CacheFits, EarlyKeyFits, LateKeyFits, Answers, AnswersLate, Models
<1>3. Answers(cache[EarlyKey(c, val)], c, val)
  BY EarlyAnswer
<1> QED
  BY <1>1, <1>2, <1>3 DEF Found, CachedAs

LEMMA FoundTypeVar ==
    ASSUME FieldsFit, CacheFits, NEW c \in Models, TypeVar \in Arguments,
           EarlyKey(c, TypeVar) \notin DOMAIN cache,
           cache' = Put(cache, EarlyKey(c, TypeVar), c),
           UNCHANGED <<fields, guard>>
    PROVE  Found(c, TypeVar, c)
<1> DEFINE early == EarlyKey(c, TypeVar)
<1>1. /\ DOMAIN cache' = DOMAIN cache \cup {early} /\ cache'[early] = c
      /\ \A k \in DOMAIN cache \ {early} : cache'[k] = cache[k]
  BY DEF Put
<1>2. Keeping
  BY <1>1 DEF Keeping
<1>3. EarlyKeyFits(early, c)'
  BY DEF EarlyKeyFits, Answers, Models
<1> HIDE DEF early
<1>4. CacheFits'
  <2>1. EarlyKeyFits(early, cache[early])'
    BY <1>1, <1>3
  <2> QED
    BY <1>1, <2>1, CacheGrows
<1> QED
  BY <1>1, <1>2, <1>4 DEF Found, CachedAs, Answers, early

LEMMA FoundLate ==
    ASSUME FieldsFit, CacheFits, NEW c \in Models, NEW val \in Arguments, val # TypeVar,
           NEW o \in Origins, o = OriginOf(c),
           NEW arg \in Arguments, arg = ArgOf(c, val), Amounts(arg, val),
           EarlyKey(c, val) \notin DOMAIN cache, LateKey(o, arg, val) \in DOMAIN cache,
           cache' = Store(c, val, o, arg, cache[LateKey(o, arg, val)]),
           UNCHANGED <<fields, guard>>
    PROVE  /\ Found(c, val, cache[LateKey(o, arg, val)])
           /\ AnswersLate(cache[LateKey(o, arg, val)], o, arg, val)
<1>1. PICK early, late, x :
         early = EarlyKey(c, val) /\ late = LateKey(o, arg, val) /\ x = cache[late]
  OBVIOUS
<1>2. /\ DOMAIN cache' = DOMAIN cache \cup {late, early}
      /\ cache'[early] = x /\ cache'[late] = x
      /\ \A k \in DOMAIN cache \ {late, early} : cache'[k] = cache[k]
  <2>1. cache' = Store(c, val, o, arg, x)
    BY <1>1 DEF Store
  <2> QED
    <3>1. /\ DOMAIN cache' = DOMAIN cache \cup {LateKey(o, arg, val), EarlyKey(c, val)}
          /\ cache'[EarlyKey(c, val)] = x
          /\ cache'[LateKey(o, arg, val)] = x
          /\ \A k \in DOMAIN cache \ {LateKey(o, arg, val), EarlyKey(c, val)} :
                cache'[k] = cache[k]
      BY <2>1, StoredHere, StoredElsewhere
    <3> QED
      BY <1>1, <3>1
<1>3. AnswersLate(x, o, arg, val)
  BY <1>1, LateAnswer
<1>4. Keeping
  BY <1>1, <1>2 DEF Keeping
<1>5. Answers(x, c, val)
  BY <1>3 DEF Answers, AnswersLate
<1>6. EarlyKeyFits(early, x)'
  BY <1>1, <1>5 DEF EarlyKeyFits, Answers, Models
<1>7. CacheFits'
  <2>1. EarlyKeyFits(early, cache[early])'
    BY <1>2, <1>6
  <2> QED
    BY <1>1, <1>2, <2>1, CacheGrows
<1> QED
  BY <1>1, <1>2, <1>3, <1>4, <1>5, <1>7 DEF Found, CachedAs

\* A class has to be made.
Started(c, val, below) ==
    /\ val # TypeVar
    /\ EarlyKey(c, val) \notin DOMAIN cache
    /\ LateKey(OriginOf(c), ArgOf(c, val), val) \notin DOMAIN cache
    /\ TypeRef(OriginOf(c), ArgOf(c, val)) \notin guard
    /\ stack' = Append(below, Frame(c, val, OriginOf(c), ArgOf(c, val)))
    /\ guard' = guard \cup {TypeRef(OriginOf(c), ArgOf(c, val))}
    /\ reply' = Nothing
    /\ UNCHANGED <<fields, cache, held>>

LEMMA Outcomes ==
    ASSUME FieldsFit, CacheFits, NEW c \in Models, NEW val \in Arguments,
           OriginOf(c) \in Origins,
           val # TypeVar => ArgOf(c, val) \in Arguments /\ Amounts(ArgOf(c, val), val),
           NEW below, GetItem(c, val, below)
    PROVE  \/ \E got : Found(c, val, got) /\ Deliver(c, val, got, below)
           \/ /\ val # TypeVar /\ TypeRef(OriginOf(c), ArgOf(c, val)) \in guard
              /\ Deliver(c, val, Placeholder, below)
              /\ UNCHANGED <<fields, cache, guard>>
           \/ Started(c, val, below)
<1>1. PICK o, arg, early, late :
         /\ o = OriginOf(c) /\ arg = ArgOf(c, val)
         /\ early = EarlyKey(c, val) /\ late = LateKey(o, arg, val)
  OBVIOUS
<1>2. CASE early \in DOMAIN cache /\ Deliver(c, val, cache[early], below)
           /\ UNCHANGED <<fields, cache, guard>>
  BY <1>1, <1>2, FoundEarly
<1>3. CASE /\ early \notin DOMAIN cache /\ val = TypeVar
           /\ cache' = Put(cache, early, c)
           /\ Deliver(c, val, c, below)
           /\ UNCHANGED <<fields, guard>>
  <2>1. Found(c, TypeVar, c)
    BY <1>1, <1>3, FoundTypeVar
  <2> QED
    BY <1>3, <2>1
<1>4. CASE early \notin DOMAIN cache /\ val # TypeVar
  <2>1. arg \in Arguments /\ o \in Origins /\ Amounts(arg, val)
    BY <1>1, <1>4
  <2>2. CASE /\ late \in DOMAIN cache
             /\ cache' = Store(c, val, o, arg, cache[late])
             /\ Deliver(c, val, cache[late], below)
             /\ UNCHANGED <<fields, guard>>
    <3>1. cache' = Store(c, val, o, arg, cache[LateKey(o, arg, val)])
      BY <1>1, <2>2
    <3>2. Found(c, val, cache[LateKey(o, arg, val)])
      BY <1>1, <1>4, <2>1, <2>2, <3>1, FoundLate
    <3>3. Found(c, val, cache[late])
      BY <1>1, <3>2
    <3> QED
      BY <2>2, <3>3
  <2>3. CASE /\ late \notin DOMAIN cache /\ TypeRef(o, arg) \in guard
             /\ Deliver(c, val, Placeholder, below)
             /\ UNCHANGED <<fields, cache, guard>>
    BY <1>1, <1>4, <2>3
  <2>4. CASE /\ late \notin DOMAIN cache /\ TypeRef(o, arg) \notin guard
             /\ stack' = Append(below, Frame(c, val, o, arg))
             /\ guard' = guard \cup {TypeRef(o, arg)}
             /\ reply' = Nothing
             /\ UNCHANGED <<fields, cache, held>>
    BY <1>1, <1>4, <2>4 DEF Started
  <2>5. \/ /\ late \in DOMAIN cache
           /\ cache' = Store(c, val, o, arg, cache[late])
           /\ Deliver(c, val, cache[late], below)
           /\ UNCHANGED <<fields, guard>>
        \/ /\ late \notin DOMAIN cache /\ TypeRef(o, arg) \in guard
           /\ Deliver(c, val, Placeholder, below)
           /\ UNCHANGED <<fields, cache, guard>>
        \/ /\ late \notin DOMAIN cache /\ TypeRef(o, arg) \notin guard
           /\ stack' = Append(below, Frame(c, val, o, arg))
           /\ guard' = guard \cup {TypeRef(o, arg)}
           /\ reply' = Nothing
           /\ UNCHANGED <<fields, cache, held>>
    BY <1>1, <1>4 DEF GetItem
  <2> QED
    BY <2>2, <2>3, <2>4, <2>5
<1> QED
  BY <1>1, <1>2, <1>3, <1>4 DEF GetItem

\* What the program may ask is an argument, and what it amounts to is too.
LEMMA AskedFits ==
    ASSUME GenericInv, NEW c, NEW val, Ask(c, val)
    PROVE  /\ c \in Models /\ val \in Arguments /\ OriginOf(c) \in Origins
           /\ val # TypeVar => MadeFor(ArgOf(c, val)) /\ Amounts(ArgOf(c, val), val)
<1>1. CASE c \in Origins /\ val \in Evaluated(asked[c])
  <2>1. asked[c] \subseteq AllAsked
    BY <1>1, GenericAssumption DEF GenericInv, AllAsked
  <2>2. val \in Arguments
    BY <1>1, <2>1, EvaluatedArguments
  <2>3. val \in Evaluated(AllAsked)
    BY <1>1, <2>1 DEF Evaluated
  <2> QED
    BY <1>1, <2>2, <2>3 DEF Models, OriginOf, ArgOf, MadeFor, Amounts
<1>2. CASE c \in held /\ T \in Members(c.arg) /\ val \in Evaluated(AskedAgain)
  <2>1. c \in DOMAIN fields /\ ClassFits(c)
    BY <1>2 DEF GenericInv, FieldsFit
  <2>2. c \in Submodels /\ MadeFor(c.arg)
    BY <2>1 DEF ClassFits
  <2>3. c \notin Origins /\ c.origin \in Origins
    BY <2>2, DistinctAssumption DEF Submodels
  <2>4. val \in Arguments
    BY <1>2, EvaluatedArguments
  <2>5. OriginOf(c) = c.origin /\ ArgOf(c, val) = Replace(c.arg, val)
    BY <2>3 DEF OriginOf, ArgOf
  <2>6. val # TypeVar => MadeFor(ArgOf(c, val)) /\ Amounts(ArgOf(c, val), val)
    BY <1>2, <2>2, <2>5, ReplaceInClass
  <2> QED
    BY <2>1, <2>3, <2>4, <2>5, <2>6 DEF Models
<1> QED
  BY <1>1, <1>2 DEF Ask

LEMMA FrameParts ==
    ASSUME NEW c, NEW val, NEW o, NEW arg
    PROVE  LET f == Frame(c, val, o, arg) IN
           /\ f.cls = c /\ f.val = val /\ f.origin = o /\ f.arg = arg
           /\ f.todo = Nested[o] /\ f.types = {} /\ f.awaits = {}
BY DEF Frame

LEMMA FrameType ==
    ASSUME NEW c \in Origins \cup Submodels, NEW val \in Arguments, NEW o \in Origins,
           NEW arg \in Arguments
    PROVE  Frame(c, val, o, arg) \in Frames
BY GenericAssumption DEF Frame, Frames

\* The call that has just been started.
LEMMA NewCall ==
    ASSUME NEW c, c \in Models', NEW val \in Arguments, val # TypeVar,
           NEW o \in Origins, NEW arg, o = OriginOf(c), arg = ArgOf(c, val),
           MadeFor(arg), Amounts(arg, val),
           EarlyKey(c, val) \notin DOMAIN cache', LateKey(o, arg, val) \notin DOMAIN cache',
           NEW i \in Nat \ {0}, stack'[i] = Frame(c, val, o, arg),
           i > 1 => c = o /\ val = arg /\ arg = stack'[1].arg,
           \A j \in 1 .. i : Leads(stack'[j].origin, o)
    PROVE  CallFits(i)'
<1>1. PICK f : f = stack'[i]
  OBVIOUS
<1>2. /\ f.cls = c /\ f.val = val /\ f.origin = o /\ f.arg = arg
      /\ f.todo = Nested[o] /\ f.types = {} /\ f.awaits = {}
  BY <1>1, FrameParts
<1>3. FrameFits(f)'
  BY <1>2 DEF FrameFits, TypesCached
<1>4. Fresh(f)'
  BY <1>2 DEF Fresh
<1>5. NestedFrame(i)'
  BY <1>1, <1>2 DEF NestedFrame
<1>6. Elements(f.todo) = Children(f.origin)
  BY <1>2 DEF Children
<1>7. FrameDone(i)'
  BY <1>1, <1>6 DEF FrameDone
<1>8. FrameAwaits(i)'
  BY <1>1, <1>2 DEF FrameAwaits
<1> QED
  BY <1>1, <1>2, <1>3, <1>4, <1>5, <1>6, <1>7, <1>8 DEF CallFits

LEMMA LeadsToSelf == \A o : Leads(o, o)
BY DEF Leads

LEMMA LeadsToChildren ==
    ASSUME NEW o, NEW p, NEW q \in Children(p), Leads(o, p)
    PROVE  Leads(o, q)
BY DEF Leads

-----------------------------------------------------------------------------
(* The steps.                                                              *)

LEMMA AskKeepsInv ==
    ASSUME GenericInv, NEW c, NEW val, Ask(c, val)
    PROVE  GenericInv'
<1>0. /\ stack = <<>> /\ asked' = asked /\ GetItem(c, val, <<>>)
      /\ FieldsFit /\ CacheFits /\ GuardIsStack
  BY DEF Ask, GenericInv
<1>1. guard = {}
  BY <1>0 DEF GuardIsStack
<1>2. /\ c \in Models /\ val \in Arguments /\ OriginOf(c) \in Origins
      /\ val # TypeVar => MadeFor(ArgOf(c, val)) /\ Amounts(ArgOf(c, val), val)
  BY AskedFits
<1>3. \/ \E got : Found(c, val, got) /\ Deliver(c, val, got, <<>>)
      \/ Started(c, val, <<>>)
  <2>1. val # TypeVar => ArgOf(c, val) \in Arguments /\ Amounts(ArgOf(c, val), val)
    BY <1>2 DEF MadeFor
  <2> QED
    BY <1>0, <1>1, <1>2, <2>1, Outcomes
<1>4. ASSUME NEW got, Found(c, val, got), Deliver(c, val, got, <<>>) PROVE GenericInv'
  <2>1. FieldsFit' /\ CacheFits'
    BY <1>0, <1>4, FieldsStay DEF Found
  <2>2. stack' = <<>> /\ guard' = {}
    BY <1>1, <1>4 DEF Found, Deliver
  <2>3. StackFits' /\ GuardIsStack'
    BY <2>2 DEF StackFits, GuardIsStack
  <2>4. held' \subseteq DOMAIN fields'
    <3>1. got \in Models
      BY <1>2, <1>4 DEF Found, Answers, Models
    <3>2. held' = held \cup ({got} \ (Origins \cup {Placeholder})) /\ fields' = fields
      BY <1>4 DEF Deliver, Found
    <3> QED
      BY <3>1, <3>2 DEF GenericInv, Models
  <2> QED
    BY <1>0, <2>1, <2>3, <2>4 DEF GenericInv
<1>5. ASSUME Started(c, val, <<>>) PROVE GenericInv'
  <2>1. PICK o, arg : o = OriginOf(c) /\ arg = ArgOf(c, val)
    OBVIOUS
  <2>2. /\ MadeFor(arg) /\ Amounts(arg, val) /\ val # TypeVar /\ o \in Origins
        /\ arg \in Arguments
    BY <1>2, <1>5, <2>1 DEF Started, MadeFor
  <2>3. PICK f : f = Frame(c, val, o, arg)
    OBVIOUS
  <2>4. stack' = <<f>> /\ guard' = {TypeRef(o, arg)} /\ UNCHANGED <<fields, cache, held>>
    BY <1>1, <1>5, <2>1, <2>3 DEF Started
  <2>5. f \in Frames
    <3>1. c \in Origins \cup Submodels
      BY <1>0, <1>2 DEF Models, FieldsFit, ClassFits
    <3> QED
      BY <1>2, <2>2, <2>3, <3>1, FrameType
  <2>6. f.origin = o /\ f.arg = arg
    BY <2>3, FrameParts
  <2>7. CallFits(1)'
    <3>1. /\ EarlyKey(c, val) \notin DOMAIN cache' /\ LateKey(o, arg, val) \notin DOMAIN cache'
      BY <1>5, <2>1, <2>4 DEF Started
    <3>2. stack'[1] = Frame(c, val, o, arg)
      BY <2>3, <2>4
    <3>3. \A j \in 1 .. 1 : Leads(stack'[j].origin, o)
      BY <2>4, <2>6, LeadsToSelf
    <3>4. c \in Models'
      BY <1>2, <2>4 DEF Models
    <3> QED
      BY <1>2, <2>1, <2>2, <3>1, <3>2, <3>3, <3>4, NewCall
  <2>8. StackFits'
    BY <2>4, <2>5, <2>7 DEF StackFits
  <2>9. GuardIsStack'
    BY <2>4, <2>6 DEF GuardIsStack
  <2>10. FieldsFit' /\ CacheFits'
    BY <1>0, <2>4 DEF FieldsFit, CacheFits, ClassFits, TypesCached, Answered, CachedAs,
       CachedLate, EarlyKeyFits, LateKeyFits, Answers, AnswersLate, Models
  <2> QED
    BY <1>0, <2>4, <2>8, <2>9, <2>10 DEF GenericInv
<1> QED
  BY <1>3, <1>4, <1>5

LEMMA StackParts ==
    ASSUME StackFits, stack # <<>>, NEW n, n = Len(stack)
    PROVE  /\ n \in Nat \ {0} /\ DOMAIN stack = 1 .. n
           /\ \A i \in 1 .. n : stack[i] \in Frames /\ CallFits(i) /\ FrameFits(stack[i])
BY DEF StackFits, CallFits

\* Calls below one that stays in progress are not touched by a step that frees
\* nothing.
LEMMA CallsBelow ==
    ASSUME StackFits, Keeping, DOMAIN fields \subseteq DOMAIN fields',
           stack' \in Seq(Frames),
           NEW m \in Nat, m <= Len(stack), m <= Len(stack'),
           \A j \in 1 .. m - 1 : stack'[j] = stack[j],
           SameCall(stack[m], stack'[m]),
           NEW i \in 1 .. m - 1, Fresh(stack[i])'
    PROVE  CallFits(i)'
<1>1. /\ i \in DOMAIN stack /\ i \in DOMAIN stack' /\ i \in Nat \ {0} /\ i < m
      /\ i < Len(stack) /\ i < Len(stack') /\ m - 1 \in Nat
  BY DEF StackFits
<1>2. PICK f : f = stack[i]
  OBVIOUS
<1>3. stack'[i] = f
  BY <1>2
<1>4. CallFits(i) /\ FrameFits(f)
  BY <1>1, <1>2 DEF StackFits, CallFits
<1>5. \A j \in 1 .. i : SameCall(stack[j], stack'[j])
  BY <1>1 DEF SameCall
<1>6. f.cls \in Models' /\ f.types \subseteq DOMAIN fields'
  BY <1>4 DEF FrameFits, Models
<1>7. \A o : BeingAsked(i, o) => BeingAsked(i, o)'
  <2>1. stack'[i + 1].origin = stack[i + 1].origin
    <3>1. CASE i + 1 = m
      BY <3>1 DEF SameCall
    <3>2. CASE i + 1 # m
      <4>1. i + 1 \in 1 .. m - 1
        BY <1>1, <3>2
      <4> QED
        BY <4>1
    <3> QED
      BY <3>1, <3>2
  <2> QED
    BY <1>1, <2>1 DEF BeingAsked
<1>8. Fresh(f)'
  BY <1>3
<1> QED
  BY <1>1, <1>2, <1>3, <1>5, <1>6, <1>7, <1>8, CallKept

LEMMA TopReplaced ==
    ASSUME NEW s \in Seq(Frames), NEW n, n = Len(s), s # <<>>, NEW g \in Frames,
           NEW t, t = [s EXCEPT ![n] = g]
    PROVE  /\ t \in Seq(Frames) /\ Len(t) = n /\ t[n] = g
           /\ \A i \in 1 .. n - 1 : t[i] = s[i]
OBVIOUS

LEMMA NextField ==
    ASSUME NEW todo \in Seq(Origins), todo # <<>>
    PROVE  /\ Head(todo) \in Origins /\ Tail(todo) \in Seq(Origins)
           /\ Head(todo) \in Elements(todo)
           /\ Elements(Tail(todo)) \subseteq Elements(todo)
           /\ Elements(todo) \subseteq Elements(Tail(todo)) \cup {Head(todo)}
<1>1. /\ Len(todo) \in Nat \ {0} /\ DOMAIN todo = 1 .. Len(todo)
      /\ Head(todo) = todo[1] /\ Head(todo) \in Origins
      /\ Tail(todo) \in Seq(Origins) /\ DOMAIN Tail(todo) = 1 .. Len(todo) - 1
      /\ \A i \in 1 .. Len(todo) - 1 : Tail(todo)[i] = todo[i + 1]
  OBVIOUS
<1>2. PICK n \in Nat \ {0} : n = Len(todo)
  BY <1>1
<1>3. ASSUME NEW i \in 1 .. n - 1 PROVE Tail(todo)[i] \in Elements(todo)
  <2>1. i + 1 \in 1 .. n /\ Tail(todo)[i] = todo[i + 1]
    BY <1>1, <1>2
  <2> QED
    BY <1>1, <1>2, <2>1 DEF Elements
<1>4. ASSUME NEW i \in 1 .. n PROVE todo[i] \in Elements(Tail(todo)) \cup {Head(todo)}
  <2>1. CASE i = 1
    BY <1>1, <2>1
  <2>2. CASE i # 1
    <3>1. i - 1 \in 1 .. n - 1 /\ (i - 1) + 1 = i
      BY <1>2, <2>2
    <3>2. Tail(todo)[i - 1] = todo[i]
      BY <1>1, <1>2, <3>1
    <3> QED
      BY <1>1, <1>2, <3>1, <3>2 DEF Elements
  <2> QED
    BY <2>1, <2>2
<1> QED
  BY <1>1, <1>2, <1>3, <1>4 DEF Elements

LEMMA GuardStays ==
    ASSUME GuardIsStack, UNCHANGED guard, StackFits, stack' \in Seq(Frames),
           Len(stack') = Len(stack), \A i \in 1 .. Len(stack) : SameCall(stack[i], stack'[i])
    PROVE  GuardIsStack'
<1>1. DOMAIN stack = 1 .. Len(stack) /\ DOMAIN stack' = DOMAIN stack
  BY DEF StackFits
<1>2. \A i \in DOMAIN stack :
         TypeRef(stack'[i].origin, stack'[i].arg) = TypeRef(stack[i].origin, stack[i].arg)
  BY <1>1 DEF SameCall
<1> QED
  BY <1>1, <1>2 DEF GuardIsStack

\* The call on top got a type for the next field, and nothing else happened.
LEMMA TopGot ==
    ASSUME GenericInv, Keeping, CacheFits', UNCHANGED <<asked, fields, guard, held>>,
           stack # <<>>, NEW n, n = Len(stack), NEW f, f = stack[n], f.todo # <<>>,
           NEW o, o = Head(f.todo),
           NEW g \in Frames, SameCall(f, g), g.todo = Tail(f.todo),
           f.types \subseteq g.types, g.types \subseteq DOMAIN fields,
           \A x \in g.types \ f.types : CachedAs(EarlyKey(x.origin, f.arg), x)',
           f.awaits \subseteq g.awaits,
           \A ref \in g.awaits \ f.awaits :
               \E j \in 1 .. n : ref = TypeRef(stack[j].origin, stack[j].arg),
           Answered(f.arg, g, o)',
           stack' \in Seq(Frames), Len(stack') = n, stack'[n] = g,
           \A i \in 1 .. n - 1 : stack'[i] = stack[i],
           \A i \in 1 .. n : Fresh(stack[i])'
    PROVE  GenericInv'
<1>1. /\ n \in Nat \ {0} /\ DOMAIN stack = 1 .. n /\ DOMAIN stack' = 1 .. n
      /\ f \in Frames /\ CallFits(n) /\ FrameFits(f) /\ n \in 1 .. n
      /\ StackFits /\ FieldsFit /\ GuardIsStack
  BY StackParts DEF GenericInv
<1>2. \A j \in 1 .. n : SameCall(stack[j], stack'[j])
  <2>1. ASSUME NEW j \in 1 .. n PROVE SameCall(stack[j], stack'[j])
    <3>1. CASE j = n
      BY <3>1
    <3>2. CASE j # n
      <4>1. j \in 1 .. n - 1
        BY <1>1, <3>2
      <4> QED
        BY <4>1 DEF SameCall
    <3> QED
      BY <3>1, <3>2
  <2> QED
    BY <2>1
<1>3. CallFits(n)'
  <2>1. f.todo \in Seq(Origins)
    BY <1>1 DEF Frames
  <2>2. /\ Elements(g.todo) \subseteq Elements(f.todo)
        /\ \A q \in Elements(f.todo) : q \in Elements(g.todo) \/ q = o
    BY <2>1, NextField
  <2>3. \A q : ~BeingAsked(n, q)
    BY <1>1 DEF BeingAsked
  <2>4. f.cls \in Models' /\ g.types \subseteq DOMAIN fields'
    BY <1>1 DEF FrameFits, Models
  <2>5. Fresh(g)'
    BY <1>1
  <2>6. \A q \in Elements(f.todo) :
           q \in Elements(g.todo) \/ BeingAsked(n, q)' \/ Answered(f.arg, g, q)'
    BY <2>2
  <2> QED
    BY <1>1, <1>2, <2>2, <2>3, <2>4, <2>5, <2>6, CallKept
<1>4. ASSUME NEW i \in 1 .. n - 1 PROVE CallFits(i)'
  <2>1. i \in 1 .. n /\ n <= Len(stack) /\ n <= Len(stack') /\ n \in Nat
    BY <1>1
  <2>2. Fresh(stack[i])' /\ SameCall(stack[n], stack'[n]) /\ DOMAIN fields \subseteq DOMAIN fields'
    BY <2>1
  <2> QED
    BY <1>1, <2>1, <2>2, CallsBelow
<1>5. StackFits'
  <2>1. \A i \in 1 .. n : i = n \/ i \in 1 .. n - 1
    BY <1>1
  <2> QED
    BY <1>1, <1>3, <1>4, <2>1 DEF StackFits
<1>6. GuardIsStack'
  BY <1>1, <1>2, GuardStays
<1>7. FieldsFit'
  BY <1>1, FieldsStay
<1> QED
  BY <1>5, <1>6, <1>7 DEF GenericInv

\* The early key of a field's question is nobody else's who is being made.
LEMMA FreshWhenFound ==
    ASSUME StackFits, NEW i \in DOMAIN stack, NEW o \in Origins, NEW arg \in Arguments,
           NEW got, Found(o, arg, got), arg # TypeVar,
           NEW f, f = stack[i]
    PROVE  Fresh(f)'
<1>1. FrameFits(f) /\ Fresh(f) /\ f.val \in Arguments
  <2>1. f \in Frames /\ CallFits(i)
    BY DEF StackFits
  <2> QED
    BY <2>1 DEF CallFits, Frames
<1>2. OriginOf(o) = o /\ ArgOf(o, arg) = arg
  BY DEF OriginOf, ArgOf
<1>3. CASE UNCHANGED cache
  BY <1>1, <1>3 DEF Fresh
<1>4. CASE LateKey(o, arg, arg) \in DOMAIN cache
  <2>1. DOMAIN cache' \subseteq DOMAIN cache \cup {EarlyKey(o, arg)}
    BY DEF Found
  <2>2. LateKey(f.origin, f.arg, f.val) \notin DOMAIN cache'
    BY <1>1, <2>1, KeysApart DEF Fresh
  <2>3. EarlyKey(f.cls, f.val) # EarlyKey(o, arg)
    <3>1. SUFFICES ASSUME EarlyKey(f.cls, f.val) = EarlyKey(o, arg) PROVE FALSE
      OBVIOUS
    <3>2. f.cls = o /\ Same(f.val) = Same(arg) /\ Ordering(f.val) = Ordering(arg)
      BY <1>1, <3>1, EarlyKeyDetermines
    <3>3. f.origin = o /\ f.arg = f.val
      BY <1>1, <3>2 DEF FrameFits, OriginOf, ArgOf
    <3>4. LateKey(f.origin, f.arg, f.val) = LateKey(o, arg, arg)
      BY <3>2, <3>3 DEF LateKey
    <3> QED
      BY <1>1, <1>4, <3>4 DEF Fresh
  <2> QED
    BY <1>1, <2>1, <2>2, <2>3 DEF Fresh
<1> QED
  BY <1>2, <1>3, <1>4 DEF Found

LEMMA NestedKeepsInv ==
    ASSUME GenericInv, AskNested
    PROVE  GenericInv'
<1>1. PICK n, f, o, arg :
         n = Len(stack) /\ f = stack[n] /\ o = Head(f.todo) /\ arg = f.arg
  OBVIOUS
<1>2. PICK below : below = [stack EXCEPT ![n].todo = Tail(@)]
  OBVIOUS
<1>3. stack # <<>> /\ f.todo # <<>> /\ GetItem(o, arg, below) /\ asked' = asked
  BY <1>1, <1>2 DEF AskNested, Top
<1>4. /\ StackFits /\ FieldsFit /\ CacheFits /\ GuardIsStack
      /\ held \subseteq DOMAIN fields /\ asked \in Programs
  BY DEF GenericInv
<1>5. /\ n \in Nat \ {0} /\ DOMAIN stack = 1 .. n /\ n \in 1 .. n
      /\ f \in Frames /\ CallFits(n) /\ FrameFits(f)
  BY <1>1, <1>3, <1>4, StackParts
<1>6. /\ o \in Origins /\ o \in Elements(f.todo)
      /\ Tail(f.todo) \in Seq(Origins) /\ Elements(Tail(f.todo)) \subseteq Elements(f.todo)
      /\ Elements(f.todo) \subseteq Elements(Tail(f.todo)) \cup {o}
  BY <1>1, <1>3, <1>5, NextField DEF Frames
<1>7. /\ arg \in Arguments /\ arg # TypeVar /\ MadeFor(arg) /\ Amounts(arg, arg)
      /\ OriginOf(o) = o /\ ArgOf(o, arg) = arg /\ o \in Models
  BY <1>1, <1>5, <1>6 DEF FrameFits, MadeFor, Amounts, OriginOf, ArgOf, Models
<1>8. PICK h : h = [f EXCEPT !.todo = Tail(f.todo)]
  OBVIOUS
<1>9. /\ h \in Frames /\ SameCall(f, h) /\ h.todo = Tail(f.todo)
      /\ h.types = f.types /\ h.awaits = f.awaits
  BY <1>5, <1>6, <1>8 DEF Frames, SameCall
<1>10. /\ below \in Seq(Frames) /\ Len(below) = n /\ below[n] = h /\ below # <<>>
       /\ \A i \in 1 .. n - 1 : below[i] = stack[i]
  <2>1. below = [stack EXCEPT ![n] = h]
    BY <1>1, <1>2, <1>8
  <2>2. stack \in Seq(Frames)
    BY <1>4 DEF StackFits
  <2>3. /\ below \in Seq(Frames) /\ Len(below) = n /\ below[n] = h
        /\ \A i \in 1 .. n - 1 : below[i] = stack[i]
    BY <1>1, <1>3, <1>9, <2>1, <2>2, TopReplaced
  <2> QED
    BY <1>5, <2>3
<1>11. \/ \E got : Found(o, arg, got) /\ Deliver(o, arg, got, below)
       \/ /\ TypeRef(o, arg) \in guard
          /\ Deliver(o, arg, Placeholder, below)
          /\ UNCHANGED <<fields, cache, guard>>
       \/ Started(o, arg, below)
  BY <1>3, <1>4, <1>6, <1>7, Outcomes
<1>12. ASSUME NEW got, Deliver(o, arg, got, below),
              NEW g, g = Typed(h, o, arg, got), g \in Frames
       PROVE  /\ stack' \in Seq(Frames) /\ Len(stack') = n /\ stack'[n] = g
              /\ \A i \in 1 .. n - 1 : stack'[i] = stack[i]
              /\ held' = held
  <2>1. stack' = [below EXCEPT ![n] = g] /\ held' = held
    BY <1>10, <1>12 DEF Deliver
  <2>2. /\ stack' \in Seq(Frames) /\ Len(stack') = n /\ stack'[n] = g
        /\ \A i \in 1 .. n - 1 : stack'[i] = below[i]
    BY <1>10, <1>12, <2>1, TopReplaced
  <2> QED
    BY <1>10, <2>1, <2>2
<1>13. ASSUME NEW got, Found(o, arg, got), Deliver(o, arg, got, below) PROVE GenericInv'
  <2>1. got \in DOMAIN fields /\ got.origin = o /\ CachedAs(EarlyKey(o, arg), got)'
    BY <1>7, <1>13 DEF Found, Answers
  <2>2. got \in Submodels /\ got \notin Origins \cup {Placeholder}
    BY <1>4, <2>1, DistinctAssumption DEF FieldsFit, ClassFits
  <2>3. PICK g : g = Typed(h, o, arg, got)
    OBVIOUS
  <2>4. g = [h EXCEPT !.types = h.types \cup {got}, !.awaits = h.awaits]
    BY <2>2, <2>3 DEF Typed
  <2>5. /\ g \in Frames /\ SameCall(f, g) /\ g.todo = Tail(f.todo)
        /\ g.types = f.types \cup {got} /\ g.awaits = f.awaits
    BY <1>9, <2>2, <2>4 DEF Frames, SameCall
  <2>6. /\ stack' \in Seq(Frames) /\ Len(stack') = n /\ stack'[n] = g
        /\ \A i \in 1 .. n - 1 : stack'[i] = stack[i]
        /\ held' = held
    BY <1>12, <1>13, <2>3, <2>5
  <2>7. g.types \subseteq DOMAIN fields
    BY <1>5, <2>1, <2>5 DEF FrameFits
  <2>8. Answered(f.arg, g, o)'
    BY <1>1, <2>1, <2>5 DEF Answered
  <2>9. \A i \in 1 .. n : Fresh(stack[i])'
    <3>1. ASSUME NEW i \in 1 .. n PROVE Fresh(stack[i])'
      <4>1. PICK e : e = stack[i]
        OBVIOUS
      <4>2. Fresh(e)'
        BY <1>4, <1>5, <1>6, <1>7, <1>13, <4>1, FreshWhenFound
      <4>3. SameCall(e, stack'[i])
        <5>1. i = n \/ i \in 1 .. n - 1
          BY <1>5
        <5> QED
          BY <1>1, <2>5, <2>6, <4>1, <5>1 DEF SameCall
      <4> QED
        BY <4>2, <4>3 DEF Fresh, SameCall
    <3> QED
      BY <3>1
  <2>10. Keeping /\ CacheFits' /\ UNCHANGED <<fields, guard>>
    BY <1>13 DEF Found
  <2>11. /\ \A x \in g.types \ f.types : CachedAs(EarlyKey(x.origin, f.arg), x)'
         /\ f.types \subseteq g.types /\ f.awaits \subseteq g.awaits
         /\ g.awaits \ f.awaits = {}
    BY <1>1, <2>1, <2>5
  <2> QED
    BY <1>1, <1>3, <2>5, <2>6, <2>7, <2>8, <2>9, <2>10, <2>11, TopGot
<1>14. ASSUME TypeRef(o, arg) \in guard, Deliver(o, arg, Placeholder, below),
              UNCHANGED <<fields, cache, guard>>
       PROVE  GenericInv'
  <2>1. PICK g : g = Typed(h, o, arg, Placeholder)
    OBVIOUS
  <2>2. g = [h EXCEPT !.types = h.types, !.awaits = h.awaits \cup {TypeRef(o, arg)}]
    BY <1>7, <2>1 DEF Typed
  <2>3. /\ g \in Frames /\ SameCall(f, g) /\ g.todo = Tail(f.todo)
        /\ g.types = f.types /\ g.awaits = f.awaits \cup {TypeRef(o, arg)}
    <3>1. TypeRef(o, arg) \in Origins \X Arguments
      BY <1>6, <1>7 DEF TypeRef
    <3> QED
      BY <1>9, <2>2, <3>1 DEF Frames, SameCall
  <2>4. /\ stack' \in Seq(Frames) /\ Len(stack') = n /\ stack'[n] = g
        /\ \A i \in 1 .. n - 1 : stack'[i] = stack[i]
        /\ held' = held
    BY <1>12, <1>14, <2>1, <2>3
  <2>5. \E j \in 1 .. n : TypeRef(o, arg) = TypeRef(stack[j].origin, stack[j].arg)
    BY <1>4, <1>5, <1>14 DEF GuardIsStack
  <2>6. Answered(f.arg, g, o)'
    BY <1>1, <2>3 DEF Answered
  <2>7. \A i \in 1 .. n : Fresh(stack[i])'
    <3>1. ASSUME NEW i \in 1 .. n PROVE Fresh(stack[i])'
      <4>1. PICK e : e = stack[i]
        OBVIOUS
      <4>2. Fresh(e)
        BY <1>4, <1>5, <4>1 DEF StackFits, CallFits
      <4>3. SameCall(e, stack'[i])
        <5>1. i = n \/ i \in 1 .. n - 1
          BY <1>5
        <5> QED
          BY <1>1, <2>3, <2>4, <4>1, <5>1 DEF SameCall
      <4> QED
        BY <1>14, <4>2, <4>3 DEF Fresh, SameCall
    <3> QED
      BY <3>1
  <2>8. Keeping /\ CacheFits'
    BY <1>4, <1>14 DEF Keeping, CacheFits, EarlyKeyFits, LateKeyFits, Answers, AnswersLate, Models
  <2>9. /\ g.types \ f.types = {} /\ f.types \subseteq g.types /\ f.awaits \subseteq g.awaits
        /\ \A ref \in g.awaits \ f.awaits : ref = TypeRef(o, arg)
        /\ g.types \subseteq DOMAIN fields
    BY <1>5, <2>3 DEF FrameFits
  <2>10. UNCHANGED <<asked, fields, guard, held>>
    BY <1>3, <1>14, <2>4
  <2> QED
    BY <1>1, <1>3, <2>3, <2>4, <2>5, <2>6, <2>7, <2>8, <2>9, <2>10, TopGot
<1>15. ASSUME Started(o, arg, below) PROVE GenericInv'
  <2>1. PICK g : g = Frame(o, arg, o, arg)
    OBVIOUS
  <2>2. /\ stack' = Append(below, g) /\ guard' = guard \cup {TypeRef(o, arg)}
        /\ UNCHANGED <<fields, cache, held>>
        /\ EarlyKey(o, arg) \notin DOMAIN cache' /\ LateKey(o, arg, arg) \notin DOMAIN cache'
        /\ TypeRef(o, arg) \notin guard
    BY <1>7, <1>15, <2>1 DEF Started
  <2>3. g \in Frames /\ g.origin = o /\ g.arg = arg
    BY <1>6, <1>7, <2>1, FrameType, FrameParts
  <2>4. /\ stack' \in Seq(Frames) /\ Len(stack') = n + 1 /\ stack'[n + 1] = g
        /\ \A i \in 1 .. n : stack'[i] = below[i]
        /\ stack'[n] = h /\ \A i \in 1 .. n - 1 : stack'[i] = stack[i]
    <3>1. /\ stack' \in Seq(Frames) /\ Len(stack') = n + 1 /\ stack'[n + 1] = g
          /\ \A i \in 1 .. n : stack'[i] = below[i]
      BY <1>10, <2>2, <2>3
    <3> QED
      BY <1>5, <1>10, <3>1
  <2>5. Keeping /\ CacheFits'
    BY <1>4, <2>2 DEF Keeping, CacheFits, EarlyKeyFits, LateKeyFits, Answers, AnswersLate, Models
  <2>6. ASSUME NEW j \in 1 .. n PROVE SameCall(stack[j], stack'[j]) /\ Fresh(stack[j])'
    <3>1. SameCall(stack[j], stack'[j])
      <4>1. j = n \/ j \in 1 .. n - 1
        BY <1>5
      <4> QED
        BY <1>1, <1>9, <2>4, <4>1 DEF SameCall
    <3>2. Fresh(stack[j])
      BY <1>4, <1>5 DEF StackFits, CallFits
    <3> QED
      BY <2>2, <3>1, <3>2 DEF Fresh, SameCall
  <2>7. CallFits(n)'
    <3>1. n \in DOMAIN stack /\ n \in DOMAIN stack' /\ \A j \in 1 .. n : SameCall(stack[j], stack'[j])
      BY <1>5, <2>4, <2>6
    <3>2. f.cls \in Models' /\ h.types \subseteq DOMAIN fields' /\ f.types \subseteq h.types
          /\ h.types \ f.types = {} /\ h.awaits \ f.awaits = {} /\ f.awaits \subseteq h.awaits
      BY <1>5, <1>9, <2>2 DEF FrameFits, Models
    <3>3. Fresh(h)'
      BY <1>5, <2>4, <2>6
    <3>4. BeingAsked(n, o)' /\ \A q : ~BeingAsked(n, q)
      <4>1. n < n + 1 /\ ~(n < n)
        BY <1>5
      <4> QED
        BY <1>1, <2>3, <2>4, <4>1 DEF BeingAsked
    <3>5. /\ Elements(h.todo) \subseteq Elements(f.todo)
          /\ \A q \in Elements(f.todo) : q \in Elements(h.todo) \/ BeingAsked(n, q)'
      BY <1>6, <1>9, <3>4
    <3> QED
      BY <1>1, <1>4, <2>4, <2>5, <3>1, <3>2, <3>3, <3>4, <3>5, CallKept
  <2>8. ASSUME NEW i \in 1 .. n - 1 PROVE CallFits(i)'
    <3>1. n \in Nat /\ n <= Len(stack) /\ n <= Len(stack') /\ i \in 1 .. n
      BY <1>1, <1>5, <2>4
    <3>2. /\ Fresh(stack[i])' /\ SameCall(stack[n], stack'[n])
          /\ DOMAIN fields \subseteq DOMAIN fields'
      BY <1>5, <2>2, <2>6, <3>1
    <3> QED
      BY <1>4, <2>4, <2>5, <3>1, <3>2, CallsBelow
  <2>9. CallFits(n + 1)'
    <3>1. n + 1 \in Nat \ {0} /\ \A j \in 1 .. n + 1 : j = n + 1 \/ j \in 1 .. n
      BY <1>5
    <3>2. o \in Children(f.origin)
      BY <1>1, <1>5, <1>6 DEF CallFits
    <3>3. ASSUME NEW j \in 1 .. n + 1 PROVE Leads(stack'[j].origin, o)
      <4>1. CASE j = n + 1
        BY <2>3, <2>4, <4>1, LeadsToSelf
      <4>2. CASE j \in 1 .. n
        <5>1. Leads(stack[j].origin, f.origin)
          BY <1>1, <1>5, <4>2 DEF CallFits
        <5>2. Leads(stack[j].origin, o)
          BY <3>2, <5>1, LeadsToChildren
        <5> QED
          BY <2>6, <4>2, <5>2 DEF SameCall
      <4> QED
        BY <3>1, <4>1, <4>2
    <3>4. arg = stack'[1].arg
      <4>1. 1 \in 1 .. n
        BY <1>5
      <4>2. stack'[1].arg = stack[1].arg
        BY <2>6, <4>1 DEF SameCall
      <4>3. f.arg = stack[1].arg
        <5>1. CASE n = 1
          BY <1>1, <5>1
        <5>2. CASE n > 1
          BY <1>1, <1>5, <5>2 DEF CallFits, NestedFrame
        <5> QED
          BY <1>5, <5>1, <5>2
      <4> QED
        BY <1>1, <4>2, <4>3
    <3>5. o \in Models'
      BY <1>6 DEF Models
    <3> QED
      BY <1>6, <1>7, <2>1, <2>2, <2>4, <3>1, <3>3, <3>4, <3>5, NewCall
  <2>10. StackFits'
    <3>1. \A i \in 1 .. n + 1 : i = n + 1 \/ i = n \/ i \in 1 .. n - 1
      BY <1>5
    <3>2. DOMAIN stack' = 1 .. n + 1
      BY <2>4
    <3> QED
      BY <2>4, <2>7, <2>8, <2>9, <3>1, <3>2 DEF StackFits
  <2>11. GuardIsStack'
    <3>1. DOMAIN stack' = 1 .. n + 1 /\ \A i \in 1 .. n + 1 : i = n + 1 \/ i \in 1 .. n
      BY <1>5, <2>4
    <3>2. n + 1 \in 1 .. n + 1 /\ 1 .. n \subseteq 1 .. n + 1
      BY <1>5
    <3>3. \A i \in 1 .. n :
             TypeRef(stack'[i].origin, stack'[i].arg) = TypeRef(stack[i].origin, stack[i].arg)
      BY <2>6 DEF SameCall
    <3>4. TypeRef(stack'[n + 1].origin, stack'[n + 1].arg) = TypeRef(o, arg)
      BY <2>3, <2>4
    <3>5. /\ guard = {TypeRef(stack[i].origin, stack[i].arg) : i \in 1 .. n}
          /\ \A i, j \in 1 .. n :
               TypeRef(stack[i].origin, stack[i].arg) = TypeRef(stack[j].origin, stack[j].arg)
                   => i = j
      BY <1>4, <1>5 DEF GuardIsStack
    <3> QED
      BY <2>2, <3>1, <3>2, <3>3, <3>4, <3>5 DEF GuardIsStack
  <2>12. FieldsFit'
    BY <1>4, <2>2, <2>5, FieldsStay
  <2> QED
    BY <1>3, <1>4, <2>2, <2>5, <2>10, <2>11, <2>12 DEF GenericInv
<1> QED
  BY <1>11, <1>13, <1>14, <1>15

\* All the calls in progress have the same argument, and the ones that are fields
\* of others were asked for it.
LEMMA SameArgument ==
    ASSUME StackFits, GuardIsStack, stack # <<>>, NEW n, n = Len(stack), NEW j \in 1 .. n
    PROVE  /\ stack[j].arg = stack[n].arg
           /\ j # n => /\ stack[j].origin # stack[n].origin
                       /\ stack[n].cls = stack[n].origin /\ stack[n].val = stack[n].arg
<1>1. /\ n \in Nat \ {0} /\ DOMAIN stack = 1 .. n /\ n \in 1 .. n
      /\ CallFits(n) /\ CallFits(j)
  BY StackParts
<1>2. /\ n > 1 => stack[n].arg = stack[1].arg /\ stack[n].cls = stack[n].origin
                  /\ stack[n].val = stack[n].arg
      /\ j > 1 => stack[j].arg = stack[1].arg
  BY <1>1 DEF CallFits, NestedFrame
<1>3. stack[j].arg = stack[n].arg
  <2>1. (j = 1 \/ j > 1) /\ (n = 1 \/ n > 1)
    BY <1>1
  <2> QED
    BY <1>2, <2>1
<1>4. ASSUME j # n
      PROVE  /\ stack[j].origin # stack[n].origin
             /\ stack[n].cls = stack[n].origin /\ stack[n].val = stack[n].arg
  <2>1. n > 1
    BY <1>1, <1>4
  <2>2. TypeRef(stack[j].origin, stack[j].arg) # TypeRef(stack[n].origin, stack[n].arg)
    BY <1>1, <1>4 DEF GuardIsStack
  <2> QED
    BY <1>2, <1>3, <2>1, <2>2
<1> QED
  BY <1>3, <1>4

\* What create_generic_submodel() adds to the submodels and to the cache.
Made(n, f, new) ==
    /\ n = Len(stack) /\ f = stack[n] /\ stack # <<>> /\ f.todo = <<>>
    /\ \E k \in Copies : new = [origin |-> f.origin, arg |-> f.arg, copy |-> k]
    /\ new \notin DOMAIN fields
    /\ fields' = Put(fields, new, [types |-> f.types, awaits |-> f.awaits])
    /\ cache' = Store(f.cls, f.val, f.origin, f.arg, new)

LEMMA MadeFits ==
    ASSUME GenericInv, NEW n, NEW f, NEW new, Made(n, f, new)
    PROVE  /\ new \in Submodels /\ new.origin = f.origin /\ new.arg = f.arg
           /\ DOMAIN fields' = DOMAIN fields \cup {new}
           /\ CachedAs(EarlyKey(f.cls, f.val), new)'
           /\ \A i \in 1 .. n - 1 :
                 /\ EarlyKey(stack[i].cls, stack[i].val) \notin DOMAIN cache'
                 /\ LateKey(stack[i].origin, stack[i].arg, stack[i].val) \notin DOMAIN cache'
           /\ Keeping /\ FieldsFit' /\ CacheFits'
<1>1. /\ StackFits /\ FieldsFit /\ CacheFits /\ GuardIsStack
      /\ n = Len(stack) /\ f = stack[n] /\ stack # <<>>
  BY DEF GenericInv, Made
<1>2. /\ n \in Nat \ {0} /\ DOMAIN stack = 1 .. n /\ n \in 1 .. n
      /\ f \in Frames /\ CallFits(n) /\ FrameFits(f)
  BY <1>1, StackParts
<1>3. PICK c, val, o, arg : c = f.cls /\ val = f.val /\ o = f.origin /\ arg = f.arg
  OBVIOUS
<1>4. /\ val \in Arguments /\ o \in Origins /\ MadeFor(arg) /\ arg \in Arguments
      /\ Amounts(arg, val) /\ val # TypeVar /\ c \in Models
      /\ o = OriginOf(c) /\ arg = ArgOf(c, val)
      /\ EarlyKey(c, val) \notin DOMAIN cache /\ LateKey(o, arg, val) \notin DOMAIN cache
  BY <1>2, <1>3, <1>1 DEF Frames, FrameFits, MadeFor, CallFits, Fresh
<1>5. new.origin = o /\ new.arg = arg /\ new \in Submodels
  <2>1. PICK k \in Copies : new = [origin |-> o, arg |-> arg, copy |-> k]
    BY <1>3 DEF Made
  <2>2. arg \in Evaluated(AllAsked) \cup
           {Replace(a, b) : a \in Evaluated(AllAsked), b \in Evaluated(AskedAgain)}
    BY <1>4 DEF MadeFor
  <2> QED
    BY <1>4, <2>1, <2>2 DEF Submodels
<1>6. /\ DOMAIN fields' = DOMAIN fields \cup {new}
      /\ fields'[new] = [types |-> f.types, awaits |-> f.awaits]
      /\ \A d \in DOMAIN fields : fields'[d] = fields[d]
  BY DEF Made, Put
<1>7. /\ DOMAIN cache' = DOMAIN cache \cup {LateKey(o, arg, val), EarlyKey(c, val)}
      /\ \A k \in DOMAIN cache : cache'[k] = cache[k]
      /\ cache'[EarlyKey(c, val)] = new /\ cache'[LateKey(o, arg, val)] = new
  <2>1. cache' = Store(c, val, o, arg, new)
    BY <1>3 DEF Made
  <2>2. cache'[EarlyKey(c, val)] = new /\ cache'[LateKey(o, arg, val)] = new
    BY <2>1, StoredHere
  <2>3. /\ DOMAIN cache' = DOMAIN cache \cup {LateKey(o, arg, val), EarlyKey(c, val)}
        /\ \A k \in DOMAIN cache \ {LateKey(o, arg, val), EarlyKey(c, val)} :
              cache'[k] = cache[k]
    BY <2>1, StoredElsewhere
  <2> QED
    BY <1>4, <2>2, <2>3
<1>8. Keeping
  BY <1>6, <1>7 DEF Keeping
<1>9. CachedAs(EarlyKey(c, val), new)' /\ CachedAs(LateKey(o, arg, val), new)'
  BY <1>7 DEF CachedAs
<1>10. CacheFits'
  <2>1. EarlyKeyFits(EarlyKey(c, val), new)'
    BY <1>4, <1>5, <1>6 DEF EarlyKeyFits, Answers, Models, SameText
  <2>2. LateKeyFits(LateKey(o, arg, val), new)'
    BY <1>4, <1>5, <1>6 DEF LateKeyFits, AnswersLate, SameText
  <2>3. ASSUME NEW k \in DOMAIN cache'
        PROVE  \/ k \in DOMAIN cache /\ cache'[k] = cache[k]
               \/ EarlyKeyFits(k, cache[k])'
               \/ LateKeyFits(k, cache[k])'
    <3>1. CASE k \in DOMAIN cache
      BY <1>7, <3>1
    <3>2. CASE k = EarlyKey(c, val)
      BY <1>7, <2>1, <3>2
    <3>3. CASE k = LateKey(o, arg, val)
      BY <1>7, <2>2, <3>3
    <3> QED
      BY <1>7, <3>1, <3>2, <3>3
  <2> QED
    BY <1>1, <1>6, <2>3, CacheGrows
<1>11. \A j \in 1 .. n :
          /\ stack[j].arg = arg
          /\ j # n => stack[j].origin # o /\ c = o /\ val = arg
  BY <1>1, <1>3, SameArgument
<1>12. ClassFits(new)'
  <2>1. PICK s : s = fields'[new]
    OBVIOUS
  <2>2. s.types = f.types /\ s.awaits = f.awaits
    BY <1>6, <2>1
  <2>3. s.types \subseteq DOMAIN fields /\ TypesCached(arg, s.types)
    BY <1>2, <1>3, <2>2 DEF FrameFits
  <2>4. TypesCached(arg, s.types)'
    BY <1>6, <1>8, <2>3, TypesKept
  <2>5. ASSUME NEW ref \in s.awaits
        PROVE  \E j \in 1 .. n : ref = TypeRef(stack[j].origin, arg)
    <3>1. ref \in {TypeRef(stack[j].origin, stack[j].arg) : j \in 1 .. n}
      BY <1>1, <1>2, <2>2 DEF CallFits, FrameAwaits
    <3> QED
      BY <1>11, <3>1
  <2>6. s.awaits \subseteq {TypeRef(q, arg) : q \in Origins}
    <3>1. \A j \in 1 .. n : stack[j].origin \in Origins
      BY <1>1, StackParts DEF Frames
    <3> QED
      BY <2>5, <3>1
  <2>7. ASSUME NEW q \in Children(o) PROVE Answered(arg, s, q)'
    <3>1. Answered(arg, f, q)
      <4>1. FrameDone(n) /\ ~BeingAsked(n, q) /\ Elements(f.todo) = {}
        BY <1>1, <1>2 DEF CallFits, BeingAsked, Made, Elements
      <4> QED
        BY <1>1, <1>3, <4>1 DEF FrameDone
    <3>2. Answered(arg, s, q)
      BY <2>2, <3>1 DEF Answered
    <3> QED
      BY <1>6, <1>8, <2>3, <3>2, AnsweredKept
  <2>8. ASSUME NEW q \in Origins \ {o}, TypeRef(q, arg) \in s.awaits
        PROVE  Leads(q, o) /\ CachedAs(EarlyKey(o, arg), new)'
    <3>1. PICK j \in 1 .. n : TypeRef(q, arg) = TypeRef(stack[j].origin, arg)
      BY <2>5, <2>8
    <3>2. stack[j].origin = q /\ j # n
      BY <1>1, <1>3, <3>1 DEF TypeRef
    <3>3. Leads(q, o)
      BY <1>1, <1>2, <1>3, <3>2 DEF CallFits
    <3> QED
      BY <1>9, <1>11, <3>2, <3>3
  <2>9. CachedLate(new)'
    BY <1>4, <1>5, <1>9 DEF CachedLate
  <2>10. s.types \subseteq DOMAIN fields'
    BY <1>6, <2>3
  <2> QED
    BY <1>4, <1>5, <2>1, <2>4, <2>6, <2>7, <2>8, <2>9, <2>10 DEF ClassFits
<1>13. FieldsFit'
  <2>1. ASSUME NEW d \in DOMAIN fields PROVE ClassFits(d)'
    <3>1. /\ ClassFits(d) /\ d \in DOMAIN fields'
          /\ fields[d].types \subseteq DOMAIN fields'
      BY <1>1, <1>6 DEF FieldsFit, ClassFits
    <3> QED
      BY <1>8, <3>1, ClassKept
  <2>2. IsFiniteSet(DOMAIN fields')
    BY <1>1, <1>6, FS_AddElement DEF FieldsFit
  <2> QED
    BY <1>6, <1>12, <2>1, <2>2 DEF FieldsFit
<1>14. ASSUME NEW i \in 1 .. n - 1
       PROVE  /\ EarlyKey(stack[i].cls, stack[i].val) \notin DOMAIN cache'
              /\ LateKey(stack[i].origin, stack[i].arg, stack[i].val) \notin DOMAIN cache'
  <2>1. i \in 1 .. n /\ i # n
    BY <1>2
  <2>2. PICK e : e = stack[i]
    OBVIOUS
  <2>3. e.origin # o /\ c = o /\ Fresh(e) /\ FrameFits(e) /\ e \in Frames
    BY <1>1, <1>11, <2>1, <2>2, StackParts DEF CallFits
  <2>4. EarlyKey(e.cls, e.val) # EarlyKey(c, val)
    <3>1. e.cls = o => e.origin = o
      BY <1>4, <2>3 DEF FrameFits, OriginOf
    <3> QED
      BY <2>3, <3>1 DEF EarlyKey
  <2>5. LateKey(e.origin, e.arg, e.val) # LateKey(o, arg, val)
    BY <2>3 DEF LateKey
  <2>6. EarlyKey(e.cls, e.val) \notin DOMAIN cache'
    BY <1>7, <2>3, <2>4, KeysApart DEF Fresh
  <2>7. LateKey(e.origin, e.arg, e.val) \notin DOMAIN cache'
    BY <1>7, <2>3, <2>5, KeysApart DEF Fresh
  <2> QED
    BY <2>2, <2>6, <2>7
<1> QED
  BY <1>3, <1>5, <1>6, <1>8, <1>9, <1>10, <1>13, <1>14

LEMMA CreateMakes ==
    ASSUME Create
    PROVE  \E n, f, new :
              /\ Made(n, f, new)
              /\ guard' = guard \ {TypeRef(f.origin, f.arg)}
              /\ Deliver(f.cls, f.val, new, SubSeq(stack, 1, n - 1))
              /\ asked' = asked
<1>1. PICK n, f : n = Len(stack) /\ f = stack[n]
  OBVIOUS
<1>2. Top = f /\ Below = SubSeq(stack, 1, n - 1)
  BY <1>1 DEF Top, Below
<1>3. PICK k \in Copies :
         LET new == [origin |-> f.origin, arg |-> f.arg, copy |-> k] IN
         /\ new \notin DOMAIN fields
         /\ fields' = Put(fields, new, [types |-> f.types, awaits |-> f.awaits])
         /\ cache' = Store(f.cls, f.val, f.origin, f.arg, new)
         /\ guard' = guard \ {TypeRef(f.origin, f.arg)}
         /\ Deliver(f.cls, f.val, new, SubSeq(stack, 1, n - 1))
  BY <1>2 DEF Create
<1>4. PICK new : new = [origin |-> f.origin, arg |-> f.arg, copy |-> k]
  OBVIOUS
<1>5. stack # <<>> /\ f.todo = <<>> /\ asked' = asked
  BY <1>2 DEF Create
<1>6. Made(n, f, new)
  BY <1>1, <1>3, <1>4, <1>5 DEF Made
<1> QED
  BY <1>3, <1>4, <1>5, <1>6

LEMMA Shorter ==
    ASSUME NEW s \in Seq(Frames), NEW n \in Nat, n = Len(s), n > 1,
           NEW t, t = SubSeq(s, 1, n - 1)
    PROVE  /\ t \in Seq(Frames) /\ Len(t) = n - 1 /\ t # <<>>
           /\ \A i \in 1 .. n - 1 : t[i] = s[i]
<1>1. PICK m \in Int : m = n - 1 /\ m >= 1
  OBVIOUS
<1>2. \A i \in 1 .. m : s[i] \in Frames
  BY <1>1
<1>3. /\ t \in Seq(Frames) /\ Len(t) = IF 1 <= m THEN m - 1 + 1 ELSE 0
      /\ \A i \in 1 .. m - 1 + 1 : t[i] = s[1 + i - 1]
  BY <1>1, <1>2, SubSeqProperties
<1>4. Len(t) = m /\ \A i \in 1 .. m : t[i] = s[i]
  <2>1. m - 1 + 1 = m /\ \A i \in 1 .. m : 1 + i - 1 = i
    BY <1>1
  <2> QED
    BY <1>1, <1>3, <2>1
<1>5. t # <<>>
  BY <1>1, <1>4
<1> QED
  BY <1>1, <1>3, <1>4, <1>5

LEMMA CreateKeepsInv ==
    ASSUME GenericInv, Create
    PROVE  GenericInv'
<1>1. PICK n, f, new :
         /\ Made(n, f, new)
         /\ guard' = guard \ {TypeRef(f.origin, f.arg)}
         /\ Deliver(f.cls, f.val, new, SubSeq(stack, 1, n - 1))
         /\ asked' = asked
  BY CreateMakes
<1>2. /\ new \in Submodels /\ new.origin = f.origin /\ new.arg = f.arg
      /\ DOMAIN fields' = DOMAIN fields \cup {new}
      /\ CachedAs(EarlyKey(f.cls, f.val), new)'
      /\ \A i \in 1 .. n - 1 :
            /\ EarlyKey(stack[i].cls, stack[i].val) \notin DOMAIN cache'
            /\ LateKey(stack[i].origin, stack[i].arg, stack[i].val) \notin DOMAIN cache'
      /\ Keeping /\ FieldsFit' /\ CacheFits'
  BY <1>1, MadeFits
<1>3. /\ StackFits /\ GuardIsStack /\ n = Len(stack) /\ f = stack[n] /\ stack # <<>>
      /\ held \subseteq DOMAIN fields /\ asked \in Programs
  BY <1>1 DEF GenericInv, Made
<1>4. n \in Nat \ {0} /\ DOMAIN stack = 1 .. n /\ n \in 1 .. n /\ f \in Frames
  BY <1>3, StackParts
<1>5. new \notin Origins /\ new # Placeholder
  BY <1>2, DistinctAssumption
<1>6. PICK below : below = SubSeq(stack, 1, n - 1)
  OBVIOUS
<1>7. CASE n = 1
  <2>1. below = <<>>
    BY <1>3, <1>6, <1>7 DEF StackFits
  <2>2. stack' = <<>> /\ held' = held \cup ({new} \ (Origins \cup {Placeholder}))
    BY <1>1, <1>6, <2>1 DEF Deliver
  <2>3. held' \subseteq DOMAIN fields'
    BY <1>2, <1>3, <2>2
  <2>4. guard' = {}
    BY <1>1, <1>3, <1>4, <1>7 DEF GuardIsStack
  <2>5. StackFits' /\ GuardIsStack'
    BY <2>2, <2>4 DEF StackFits, GuardIsStack
  <2> QED
    BY <1>1, <1>2, <1>3, <2>3, <2>5 DEF GenericInv
<1>8. CASE n > 1
  <2>1. PICK m \in Nat \ {0} : m = n - 1 /\ n = m + 1 /\ m \in 1 .. n /\ m # n
    BY <1>4, <1>8
  <2>2. PICK e, g : e = stack[m] /\ g = Typed(e, f.cls, f.val, new)
    OBVIOUS
  <2>3. /\ below \in Seq(Frames) /\ Len(below) = m /\ below # <<>>
        /\ \A i \in 1 .. m : below[i] = stack[i]
    BY <1>3, <1>4, <1>6, <1>8, <2>1, Shorter DEF StackFits
  <2>4. m \in 1 .. m /\ below[m] = e
    BY <2>1, <2>2, <2>3
  <2>5. e \in Frames /\ CallFits(m) /\ FrameFits(e)
    BY <1>3, <2>1, <2>2, StackParts
  <2>6. g = [e EXCEPT !.types = e.types \cup {new}, !.awaits = e.awaits]
    BY <1>5, <2>2 DEF Typed
  <2>7. /\ g \in Frames /\ SameCall(e, g) /\ g.todo = e.todo
        /\ g.types = e.types \cup {new} /\ g.awaits = e.awaits
    BY <1>2, <2>5, <2>6 DEF Frames, SameCall
  <2>8. stack' = [below EXCEPT ![m] = g] /\ held' = held
    <3>1. /\ stack' = [below EXCEPT ![Len(below)] = Typed(@, f.cls, f.val, new)]
          /\ held' = held
      BY <1>1, <1>6, <2>3 DEF Deliver
    <3> QED
      BY <2>2, <2>3, <2>4, <3>1
  <2>9. /\ stack' \in Seq(Frames) /\ Len(stack') = m /\ stack'[m] = g
        /\ \A i \in 1 .. m - 1 : stack'[i] = stack[i]
    <3>1. /\ stack' \in Seq(Frames) /\ Len(stack') = m /\ stack'[m] = g
          /\ \A i \in 1 .. m - 1 : stack'[i] = below[i]
      BY <2>3, <2>7, <2>8, TopReplaced
    <3>2. \A i \in 1 .. m - 1 : i \in 1 .. m
      BY <2>1
    <3> QED
      BY <2>3, <3>1, <3>2
  <2>10. \A j \in 1 .. m : SameCall(stack[j], stack'[j])
    <3>1. \A j \in 1 .. m : j = m \/ j \in 1 .. m - 1
      BY <2>1
    <3> QED
      BY <2>2, <2>7, <2>9, <3>1 DEF SameCall
  <2>11. ASSUME NEW j \in 1 .. m PROVE Fresh(stack[j])'
    BY <1>2, <2>1, <2>10 DEF Fresh, SameCall
  <2>12. e.arg = f.arg /\ f.cls = f.origin /\ f.val = f.arg
    BY <1>3, <2>1, <2>2, SameArgument
  <2>13. CallFits(m)'
    <3>1. m \in DOMAIN stack /\ m \in DOMAIN stack'
      BY <1>4, <2>1, <2>4, <2>9
    <3>2. /\ e.cls \in Models' /\ e.types \subseteq g.types /\ g.types \subseteq DOMAIN fields'
      BY <1>2, <2>5, <2>7 DEF FrameFits, Models
    <3>3. \A x \in g.types \ e.types : CachedAs(EarlyKey(x.origin, e.arg), x)'
      BY <1>2, <2>7, <2>12
    <3>4. \A o : BeingAsked(m, o) => Answered(e.arg, g, o)'
      <4>1. ASSUME NEW o, BeingAsked(m, o) PROVE Answered(e.arg, g, o)'
        <5>1. o = f.origin
          BY <1>3, <2>1, <4>1 DEF BeingAsked
        <5>2. CachedAs(EarlyKey(o, e.arg), new)'
          BY <1>2, <2>12, <5>1
        <5> QED
          BY <2>7, <5>2 DEF Answered
      <4> QED
        BY <4>1
    <3>5. Fresh(g)' /\ g.awaits \ e.awaits = {}
      BY <2>4, <2>7, <2>9, <2>11
    <3> QED
      BY <1>2, <1>3, <2>2, <2>7, <2>9, <2>10, <3>1, <3>2, <3>3, <3>4, <3>5, CallKept
  <2>14. ASSUME NEW i \in 1 .. m - 1 PROVE CallFits(i)'
    <3>1. m \in Nat /\ m <= Len(stack) /\ m <= Len(stack') /\ i \in 1 .. m
      BY <1>3, <2>1, <2>9
    <3>2. /\ Fresh(stack[i])' /\ SameCall(stack[m], stack'[m])
          /\ DOMAIN fields \subseteq DOMAIN fields'
      BY <1>2, <2>4, <2>10, <2>11, <3>1
    <3> QED
      BY <1>2, <1>3, <2>9, <3>1, <3>2, CallsBelow
  <2>15. StackFits'
    <3>1. \A i \in 1 .. m : i = m \/ i \in 1 .. m - 1
      BY <2>1
    <3> QED
      BY <2>9, <2>13, <2>14, <3>1 DEF StackFits
  <2>16. GuardIsStack'
    <3>1. DOMAIN stack' = 1 .. m /\ DOMAIN stack = 1 .. m + 1
          /\ \A i \in 1 .. m + 1 : i \in 1 .. m \/ i = n
      BY <1>4, <2>1, <2>9
    <3>2. \A i \in 1 .. m : i \in 1 .. n /\ i # n
      BY <2>1
    <3>3. \A i \in 1 .. m :
             TypeRef(stack'[i].origin, stack'[i].arg) = TypeRef(stack[i].origin, stack[i].arg)
      BY <2>10 DEF SameCall
    <3>4. /\ guard = {TypeRef(stack[i].origin, stack[i].arg) : i \in 1 .. n}
          /\ \A i, j \in 1 .. n :
               TypeRef(stack[i].origin, stack[i].arg) = TypeRef(stack[j].origin, stack[j].arg)
                   => i = j
      BY <1>3, <1>4 DEF GuardIsStack
    <3>5. guard' = guard \ {TypeRef(stack[n].origin, stack[n].arg)}
      BY <1>1, <1>3
    <3>6. guard' = {TypeRef(stack[i].origin, stack[i].arg) : i \in 1 .. m}
      BY <1>4, <2>1, <3>1, <3>2, <3>4, <3>5
    <3> QED
      BY <3>1, <3>2, <3>3, <3>4, <3>6 DEF GuardIsStack
  <2> QED
    BY <1>1, <1>2, <1>3, <2>8, <2>15, <2>16 DEF GenericInv
<1> QED
  BY <1>4, <1>7, <1>8

LEMMA FailKeepsInv ==
    ASSUME GenericInv, Fail
    PROVE  GenericInv'
<1>1. stack' = <<>> /\ guard' = {} /\ UNCHANGED <<asked, fields, cache, held>>
  BY DEF Fail
<1>2. StackFits' /\ GuardIsStack'
  BY <1>1 DEF StackFits, GuardIsStack
<1>3. FieldsFit' /\ CacheFits'
  <2>1. Keeping
    BY <1>1 DEF Keeping
  <2> QED
    BY <1>1, <2>1, FieldsStay DEF GenericInv, CacheFits, EarlyKeyFits, LateKeyFits, Answers,
       AnswersLate, Models
<1> QED
  BY <1>1, <1>2, <1>3 DEF GenericInv

LEMMA DropKeepsInv ==
    ASSUME GenericInv, NEW c, Drop(c)
    PROVE  GenericInv'
<1>1. /\ stack = <<>> /\ stack' = <<>> /\ held' \subseteq held
      /\ UNCHANGED <<asked, fields, cache, guard>>
  BY DEF Drop
<1>2. StackFits' /\ GuardIsStack'
  BY <1>1 DEF StackFits, GuardIsStack, GenericInv
<1>3. FieldsFit' /\ CacheFits'
  <2>1. Keeping
    BY <1>1 DEF Keeping
  <2> QED
    BY <1>1, <2>1, FieldsStay DEF GenericInv, CacheFits, EarlyKeyFits, LateKeyFits, Answers,
       AnswersLate, Models
<1> QED
  BY <1>1, <1>2, <1>3 DEF GenericInv

\* Whatever the collector leaves keeps what it refers to.
LEMMA CollectedParts ==
    ASSUME GenericInv, Collect
    PROVE  \E gone \in SUBSET DOMAIN fields :
              /\ Roots \cap gone = {}
              /\ \A c \in DOMAIN fields \ gone : KeepsAlive(c) \cap gone = {}
              /\ fields' = [c \in DOMAIN fields \ gone |-> fields[c]]
              /\ cache' = [k \in {k \in DOMAIN cache : cache[k] \notin gone} |-> cache[k]]
              /\ UNCHANGED <<asked, guard, stack, held>>
<1>1. FieldsFit /\ StackFits /\ held \subseteq DOMAIN fields /\ IsFiniteSet(DOMAIN fields)
  BY DEF GenericInv, FieldsFit
<1>2. PICK roots, edge : roots = Roots /\ edge = [c \in DOMAIN fields |-> KeepsAlive(c)]
  OBVIOUS
<1>3. roots \subseteq DOMAIN fields
  <2>1. ASSUME NEW i \in DOMAIN stack
        PROVE  ({stack[i].cls} \ Origins) \cup stack[i].types \subseteq DOMAIN fields
    BY <1>1 DEF StackFits, CallFits, FrameFits, Models
  <2> QED
    BY <1>1, <1>2, <2>1 DEF Roots
<1>4. \A c \in DOMAIN fields : edge[c] = KeepsAlive(c) /\ edge[c] \subseteq DOMAIN fields
  <2>1. ASSUME NEW c \in DOMAIN fields PROVE KeepsAlive(c) \subseteq DOMAIN fields
    BY <1>1 DEF KeepsAlive, FieldsFit, ClassFits
  <2> QED
    BY <1>2, <2>1
<1>5. Live = From(roots, edge)
  BY <1>2 DEF Live
<1>6. PICK live : live = From(roots, edge)
  OBVIOUS
<1>7. roots \subseteq live /\ live \subseteq DOMAIN fields /\ \A c \in live : edge[c] \subseteq live
  BY <1>1, <1>3, <1>4, <1>6, FromClosed
<1>8. PICK gone \in SUBSET (DOMAIN fields \ live) :
         /\ \A c \in (DOMAIN fields \ live) \ gone : KeepsAlive(c) \cap gone = {}
         /\ fields' = [c \in DOMAIN fields \ gone |-> fields[c]]
         /\ cache' = [k \in {k \in DOMAIN cache : cache[k] \notin gone} |-> cache[k]]
         /\ UNCHANGED <<asked, guard, stack, held>>
  BY <1>5, <1>6 DEF Collect
<1>9. \A c \in DOMAIN fields \ gone : KeepsAlive(c) \cap gone = {}
  BY <1>4, <1>7, <1>8
<1>10. Roots \cap gone = {}
  BY <1>2, <1>7, <1>8
<1> QED
  BY <1>8, <1>9, <1>10

LEMMA CollectKeepsInv ==
    ASSUME GenericInv, Collect
    PROVE  GenericInv'
<1>1. PICK gone \in SUBSET DOMAIN fields :
         /\ Roots \cap gone = {}
         /\ \A c \in DOMAIN fields \ gone : KeepsAlive(c) \cap gone = {}
         /\ fields' = [c \in DOMAIN fields \ gone |-> fields[c]]
         /\ cache' = [k \in {k \in DOMAIN cache : cache[k] \notin gone} |-> cache[k]]
         /\ UNCHANGED <<asked, guard, stack, held>>
  BY CollectedParts
<1>2. /\ FieldsFit /\ CacheFits /\ StackFits /\ GuardIsStack
      /\ held \subseteq DOMAIN fields /\ asked \in Programs
  BY DEF GenericInv
<1>3. /\ DOMAIN fields' = DOMAIN fields \ gone
      /\ \A c \in DOMAIN fields' : fields'[c] = fields[c]
      /\ \A k : k \in DOMAIN cache' <=> k \in DOMAIN cache /\ cache[k] \notin gone
      /\ \A k \in DOMAIN cache' : cache'[k] = cache[k]
  BY <1>1
<1>4. \A c \in DOMAIN fields : c \notin Origins
  BY <1>2, DistinctAssumption DEF FieldsFit, ClassFits
<1>5. Keeping
  BY <1>3, <1>4 DEF Keeping, Models
<1>6. FieldsFit'
  <2>1. ASSUME NEW c \in DOMAIN fields' PROVE ClassFits(c)'
    <3>1. c \in DOMAIN fields /\ ClassFits(c)
      BY <1>2, <1>3 DEF FieldsFit
    <3>2. fields[c].types \subseteq DOMAIN fields'
      <4>1. fields[c].types \cap gone = {}
        BY <1>1, <1>3 DEF KeepsAlive
      <4> QED
        BY <1>3, <3>1, <4>1 DEF ClassFits
    <3> QED
      BY <1>5, <3>1, <3>2, ClassKept
  <2>2. IsFiniteSet(DOMAIN fields')
    BY <1>2, <1>3, FS_Subset DEF FieldsFit
  <2> QED
    BY <2>1, <2>2 DEF FieldsFit
<1>7. CacheFits'
  <2>1. ASSUME NEW k \in DOMAIN cache'
        PROVE  EarlyKeyFits(k, cache[k])' \/ LateKeyFits(k, cache[k])'
    <3>1. PICK x : x = cache[k]
      OBVIOUS
    <3>2. k \in DOMAIN cache /\ x \notin gone /\ cache'[k] = x
      BY <1>3, <3>1
    <3>3. EarlyKeyFits(k, x) \/ LateKeyFits(k, x)
      BY <1>2, <3>1, <3>2 DEF CacheFits
    <3>4. x \in Models'
      BY <1>3, <3>2, <3>3, FittingKey DEF Models
    <3>5. k[1] = "early" => k[2] \in Models'
      <4>1. SUFFICES ASSUME k[1] = "early" PROVE k[2] \in Models'
        OBVIOUS
      <4>2. EarlyKeyFits(k, x)
        <5>1. ~LateKeyFits(k, x)
          BY <4>1 DEF LateKeyFits, LateKey
        <5> QED
          BY <3>3, <5>1
      <4>3. PICK c \in Models, val \in Arguments : k = EarlyKey(c, val) /\ Answers(x, c, val)
        BY <4>2 DEF EarlyKeyFits
      <4>4. k[2] = c
        BY <4>3 DEF EarlyKey
      <4>5. CASE c \in Origins \/ x = c
        BY <3>4, <4>4, <4>5 DEF Models
      <4>6. CASE c \notin Origins /\ x # c
        <5>1. x \in DOMAIN fields /\ c \in DOMAIN fields
          BY <4>3, <4>6 DEF Answers, Models
        <5>2. c \in KeepsAlive(x)
          BY <3>1, <3>2, <4>1, <4>4, <5>1 DEF KeepsAlive
        <5>3. c \notin gone
          BY <1>1, <3>2, <5>1, <5>2
        <5> QED
          BY <1>3, <4>4, <5>1, <5>3 DEF Models
      <4> QED
        BY <4>5, <4>6
    <3>6. EarlyKeyFits(k, x)' \/ LateKeyFits(k, x)'
      BY <1>2, <3>3, <3>4, <3>5, KeyKept
    <3> QED
      BY <3>2, <3>6
  <2> QED
    BY <2>1 DEF CacheFits
<1>8. StackFits'
  <2>1. ASSUME NEW i \in DOMAIN stack PROVE CallFits(i)'
    <3>1. PICK f : f = stack[i]
      OBVIOUS
    <3>2. FrameFits(f) /\ Fresh(f)
      BY <1>2, <3>1 DEF StackFits, CallFits
    <3>3. f.types \cap gone = {} /\ f.cls \notin gone
      <4>1. ({f.cls} \ Origins) \cup f.types \subseteq Roots
        BY <3>1 DEF Roots
      <4> QED
        BY <1>1, <1>4, <4>1
    <3>4. f.types \subseteq DOMAIN fields' /\ f.cls \in Models'
      BY <1>3, <3>2, <3>3 DEF FrameFits, Models
    <3>5. Fresh(f)'
      BY <1>3, <3>2 DEF Fresh
    <3>6. stack' = stack /\ stack' \in Seq(Frames)
      BY <1>1, <1>2 DEF StackFits
    <3>7. \A j \in 1 .. i : SameCall(stack[j], stack'[j])
      BY <3>6 DEF SameCall
    <3>8. \A o : BeingAsked(i, o) => BeingAsked(i, o)'
      BY <3>6 DEF BeingAsked
    <3> QED
      BY <1>2, <1>5, <3>1, <3>4, <3>5, <3>6, <3>7, <3>8, CallKept
  <2> QED
    BY <1>1, <1>2, <2>1 DEF StackFits
<1>9. GuardIsStack'
  BY <1>1, <1>2 DEF GuardIsStack
<1>10. held' \subseteq DOMAIN fields'
  BY <1>1, <1>2, <1>3 DEF Roots
<1> QED
  BY <1>1, <1>2, <1>6, <1>7, <1>8, <1>9, <1>10 DEF GenericInv

-----------------------------------------------------------------------------
(* The theorems.                                                           *)

\* The inductive invariant: the classes, the keys and the calls in progress fit
\* together after any calls, failures, dropped references and collections.
THEOREM GenericInvHolds == Spec => []GenericInv
<1>1. Init => GenericInv
  <2> SUFFICES ASSUME Init PROVE GenericInv
    OBVIOUS
  <2>1. /\ asked \in Programs /\ held = {} /\ stack = <<>> /\ guard = {}
        /\ DOMAIN fields = {} /\ DOMAIN cache = {}
    BY DEF Init
  <2>2. FieldsFit
    BY <2>1, FS_EmptySet DEF FieldsFit
  <2>3. CacheFits
    BY <2>1 DEF CacheFits
  <2>4. StackFits /\ GuardIsStack
    BY <2>1 DEF StackFits, GuardIsStack
  <2> QED
    BY <2>1, <2>2, <2>3, <2>4 DEF GenericInv
<1>2. GenericInv /\ [Next]_vars => GenericInv'
  <2> SUFFICES ASSUME GenericInv, [Next]_vars PROVE GenericInv'
    OBVIOUS
  <2>1. CASE \E c, val : Ask(c, val)
    BY <2>1, AskKeepsInv
  <2>2. CASE AskNested
    BY <2>2, NestedKeepsInv
  <2>3. CASE Create
    BY <2>3, CreateKeepsInv
  <2>4. CASE Fail
    BY <2>4, FailKeepsInv
  <2>5. CASE \E c : Drop(c)
    BY <2>5, DropKeepsInv
  <2>6. CASE Collect
    BY <2>6, CollectKeepsInv
  <2>7. CASE UNCHANGED vars
    <3>1. UNCHANGED <<asked, fields, cache, guard, stack, held>>
      BY <2>7 DEF vars
    <3>2. FieldsFit' /\ CacheFits'
      <4>1. Keeping
        BY <3>1 DEF Keeping
      <4> QED
        BY <3>1, <4>1, FieldsStay DEF GenericInv, CacheFits, EarlyKeyFits, LateKeyFits, Answers,
           AnswersLate, Models
    <3>3. StackFits'
      <4>1. ASSUME NEW i \in DOMAIN stack PROVE CallFits(i)'
        <5>1. CallFits(i)
          BY DEF GenericInv, StackFits
        <5> QED
          BY <3>1, <5>1 DEF CallFits, FrameFits, Fresh, NestedFrame, FrameDone, BeingAsked,
             Answered, CachedAs, TypesCached, FrameAwaits, Models
      <4> QED
        BY <3>1, <4>1 DEF GenericInv, StackFits
    <3> QED
      BY <3>1, <3>2, <3>3 DEF GenericInv, GuardIsStack
  <2> QED
    BY <2>1, <2>2, <2>3, <2>4, <2>5, <2>6, <2>7 DEF Next
<1> QED
  BY <1>1, <1>2, PTL DEF Spec

\* The submodels, the cache, the calls and the references are what they are said to
\* be: in particular nothing that exists refers to a class that was freed.
THEOREM TypeCorrect == Spec => []TypeOK
<1>1. GenericInv => TypeOK
  <2> SUFFICES ASSUME GenericInv PROVE TypeOK
    OBVIOUS
  <2>1. \A c \in DOMAIN fields : c \in Submodels /\ fields[c].types \subseteq DOMAIN fields
    BY DEF GenericInv, FieldsFit, ClassFits
  <2>2. \A k \in DOMAIN cache : cache[k] \in Origins \cup DOMAIN fields
    BY FittingKey DEF GenericInv, CacheFits, Models
  <2>3. ASSUME NEW i \in DOMAIN stack
        PROVE  stack[i].origin \in Origins /\ stack[i].types \subseteq DOMAIN fields
    <3>1. stack[i] \in Frames /\ FrameFits(stack[i])
      BY DEF GenericInv, StackFits, CallFits
    <3> QED
      BY <3>1 DEF Frames, FrameFits
  <2> QED
    BY <2>1, <2>2, <2>3 DEF TypeOK, GenericInv
<1> QED
  BY <1>1, GenericInvHolds, PTL

\* A key leads to a class of the model and with the arguments it stands for, and the
\* class a key was asked of still exists.
LEMMA InvCacheTruthful == GenericInv => CacheTruthful
<1> SUFFICES ASSUME GenericInv, NEW k \in DOMAIN cache, cache[k] \notin Origins
             PROVE  IF k[1] = "late"
                    THEN k[3] = cache[k].origin /\ k[4] = Same(cache[k].arg)
                    ELSE /\ k[2] \in Origins \cup DOMAIN fields
                         /\ OriginOf(k[2]) = cache[k].origin
  BY DEF CacheTruthful
<1>1. PICK x : x = cache[k]
  OBVIOUS
<1>2. EarlyKeyFits(k, x) \/ LateKeyFits(k, x)
  BY <1>1 DEF GenericInv, CacheFits
<1>3. CASE EarlyKeyFits(k, x)
  <2>1. PICK c \in Models, val \in Arguments : k = EarlyKey(c, val) /\ Answers(x, c, val)
    BY <1>3 DEF EarlyKeyFits
  <2>2. k[1] = "early" /\ k[2] = c
    BY <2>1 DEF EarlyKey
  <2>3. OriginOf(c) = x.origin
    BY <1>1, <2>1 DEF Answers, OriginOf
  <2> QED
    BY <1>1, <2>2, <2>3 DEF Models
<1>4. CASE LateKeyFits(k, x)
  <2>1. PICK o, arg, val : k = LateKey(o, arg, val) /\ AnswersLate(x, o, arg, val)
    BY <1>4 DEF LateKeyFits
  <2>2. k[1] = "late" /\ k[3] = o /\ k[4] = Same(arg)
    BY <2>1 DEF LateKey
  <2> QED
    BY <1>1, <2>1, <2>2 DEF AnswersLate
<1> QED
  BY <1>2, <1>3, <1>4

\* The arguments a late key tells apart: all but the spelling of a union in a list.
LEMMA LateKeySame ==
    ASSUME NEW a \in Arguments, NEW b \in Arguments, SameSpelling(a, b),
           ~(a.ctor = "list" /\ Len(a.of) > 1),
           NEW v \in Arguments, NEW w \in Arguments, Amounts(a, v), Amounts(b, w),
           NEW o
    PROVE  LateKey(o, a, v) = LateKey(o, b, w)
<1>1. a.ctor = b.ctor /\ a.pipe = b.pipe /\ a.of = b.of
  BY DEF SameSpelling
<1>2. Same(a) = Same(b)
  BY <1>1 DEF Same, Members
<1>3. Ordering(v) = Ordering(w)
  <2>1. CASE a.ctor = "plain"
    BY <1>1, <2>1 DEF Amounts, Ordering
  <2>2. CASE ~(Len(a.of) > 1)
    <3>1. v.of = a.of /\ w.of = a.of
      BY <1>1 DEF Amounts, SameText
    <3> QED
      BY <2>2, <3>1 DEF Ordering
  <2>3. a.ctor = "plain" \/ a.ctor = "list"
    BY ArgumentParts
  <2> QED
    BY <2>1, <2>2, <2>3
<1> QED
  BY <1>2, <1>3 DEF LateKey

\* "Types that are functionally equivalent are actually equal": two classes for the
\* same model and the same arguments exist only for a union in a list.
THEOREM OneClassEach == Spec => []OneClassPerParametrization
<1>1. GenericInv => OneClassPerParametrization
  <2> SUFFICES ASSUME GenericInv, NEW c \in DOMAIN fields, NEW d \in DOMAIN fields,
                      c.origin = d.origin, SameSpelling(c.arg, d.arg),
                      ~(c.arg.ctor = "list" /\ Len(c.arg.of) > 1)
               PROVE  c = d
    BY InvCacheTruthful DEF OneClassPerParametrization
  <2>1. ClassFits(c) /\ ClassFits(d)
    BY DEF GenericInv, FieldsFit
  <2>2. c.arg \in Arguments /\ d.arg \in Arguments
    BY <2>1 DEF ClassFits, MadeFor
  <2>3. PICK v \in Arguments : Amounts(c.arg, v) /\ CachedAs(LateKey(c.origin, c.arg, v), c)
    BY <2>1 DEF ClassFits, CachedLate
  <2>4. PICK w \in Arguments : Amounts(d.arg, w) /\ CachedAs(LateKey(d.origin, d.arg, w), d)
    BY <2>1 DEF ClassFits, CachedLate
  <2>5. LateKey(c.origin, c.arg, v) = LateKey(c.origin, d.arg, w)
    BY <2>2, <2>3, <2>4, LateKeySame
  <2> QED
    BY <2>3, <2>4, <2>5 DEF CachedAs
<1> QED
  BY <1>1, GenericInvHolds, PTL

\* The classes a class is made of are for the same argument, as keys tell arguments
\* apart, and all but itself are the type of a field of another one.
LEMMA WithinParts ==
    ASSUME GenericInv, NEW d \in DOMAIN fields, NEW W, W = Within(d)
    PROVE  /\ d \in W /\ W \subseteq DOMAIN fields
           /\ \A e \in W : fields[e].types \subseteq W
           /\ \A e \in W : Same(e.arg) = Same(d.arg) /\ Ordering(e.arg) = Ordering(d.arg)
           /\ \A e \in W \ {d} : \E e0 \in W : e \in fields[e0].types
<1>1. /\ FieldsFit /\ CacheFits /\ IsFiniteSet(DOMAIN fields)
      /\ \A c \in DOMAIN fields : ClassFits(c) /\ fields[c].types \subseteq DOMAIN fields
  BY DEF GenericInv, FieldsFit, ClassFits
<1>2. PICK edge : edge = [c \in DOMAIN fields |-> fields[c].types]
  OBVIOUS
<1>3. /\ W = From({d}, edge) /\ {d} \subseteq DOMAIN fields
      /\ \A c \in DOMAIN fields : edge[c] = fields[c].types /\ edge[c] \subseteq DOMAIN fields
  BY <1>1, <1>2 DEF Within
<1>4. {d} \subseteq W /\ W \subseteq DOMAIN fields /\ \A e \in W : edge[e] \subseteq W
  BY <1>1, <1>3, FromClosed
<1>5. \A e \in W : Same(e.arg) = Same(d.arg) /\ Ordering(e.arg) = Ordering(d.arg)
  <2> DEFINE S == {e \in DOMAIN fields :
                     Same(e.arg) = Same(d.arg) /\ Ordering(e.arg) = Ordering(d.arg)}
  <2>1. ASSUME NEW e \in S, NEW x \in edge[e] PROVE x \in S
    <3>1. e \in DOMAIN fields /\ x \in fields[e].types /\ x \in DOMAIN fields
      BY <1>3, <2>1
    <3>2. CachedAs(EarlyKey(x.origin, e.arg), x) /\ MadeFor(e.arg)
      BY <1>1, <3>1 DEF ClassFits, TypesCached
    <3>3. e.arg \in Arguments /\ e.arg # TypeVar
      BY <3>2 DEF MadeFor
    <3>4. x.origin \in Origins
      BY <1>1, <3>1 DEF ClassFits, Submodels
    <3>5. Answers(x, x.origin, e.arg)
      BY <1>1, <3>2, <3>3, EarlyAnswer DEF CachedAs
    <3>6. Same(x.arg) = Same(e.arg) /\ Ordering(x.arg) = Ordering(e.arg)
      BY <3>3, <3>4, <3>5 DEF Answers, ArgOf
    <3> QED
      BY <2>1, <3>1, <3>6
  <2>2. {d} \subseteq S
    OBVIOUS
  <2>3. \A e \in S : edge[e] \subseteq S
    BY <2>1
  <2>4. From({d}, edge) \subseteq S
    <3> HIDE DEF S
    <3> QED
      BY <1>1, <1>3, <2>2, <2>3, FromLeast
  <2> QED
    BY <1>3, <2>4
<1>6. \A e \in W \ {d} : \E e0 \in W : e \in fields[e0].types
  <2> DEFINE S == {e \in W : e = d \/ \E e0 \in W : e \in fields[e0].types}
  <2>1. {d} \subseteq S
    BY <1>4
  <2>2. \A e \in S : edge[e] \subseteq S
    BY <1>3, <1>4
  <2>3. From({d}, edge) \subseteq S
    <3> HIDE DEF S
    <3> QED
      BY <1>1, <1>3, <2>1, <2>2, FromLeast
  <2> QED
    BY <1>3, <2>3
<1> QED
  BY <1>3, <1>4, <1>5, <1>6

\* A self-contained class that others have a placeholder for is made of them too.
LEMMA InvAwaited == GenericInv => AwaitedClassContainsIt
<1> SUFFICES ASSUME GenericInv, NEW c \in DOMAIN fields, NEW d \in DOMAIN fields,
                    TypeRef(d.origin, d.arg) \in fields[c].awaits,
                    TypeRef(d.origin, d.arg) # TypeRef(c.origin, c.arg),
                    SelfContained(d)
             PROVE  c \in Within(d)
  BY DEF AwaitedClassContainsIt, GenericInv
<1>1. PICK W : W = Within(d)
  OBVIOUS
<1>2. /\ d \in W /\ W \subseteq DOMAIN fields
      /\ \A e \in W : fields[e].types \subseteq W
      /\ \A e \in W : Same(e.arg) = Same(d.arg) /\ Ordering(e.arg) = Ordering(d.arg)
      /\ \A e \in W \ {d} : \E e0 \in W : e \in fields[e0].types
  BY <1>1, WithinParts
<1>3. /\ CacheFits
      /\ \A e \in DOMAIN fields : ClassFits(e)
  BY DEF GenericInv, FieldsFit
<1>4. \A e \in DOMAIN fields :
         e.origin \in Origins /\ e.arg \in Arguments /\ e.arg # TypeVar
  BY <1>3 DEF ClassFits, Submodels, MadeFor
<1>5. c.arg = d.arg /\ d.origin # c.origin
  <2>1. PICK o \in Origins : TypeRef(d.origin, d.arg) = TypeRef(o, c.arg)
    BY <1>3 DEF ClassFits
  <2> QED
    BY <2>1 DEF TypeRef
<1>6. Leads(d.origin, c.origin) /\ CachedAs(EarlyKey(c.origin, c.arg), c)
  <2>1. d.origin \in Origins \ {c.origin} /\ TypeRef(d.origin, c.arg) \in fields[c].awaits
    BY <1>4, <1>5
  <2> QED
    BY <1>3, <2>1 DEF ClassFits
<1>7. \E e \in W : e.origin = c.origin
  <2> DEFINE S == {e.origin : e \in W}
  <2>1. S \in SUBSET Origins /\ d.origin \in S
    BY <1>2, <1>4
  <2>2. ASSUME NEW e \in W, NEW q \in Children(e.origin) PROVE q \in S
    <3>1. ClassFits(e) /\ e \in DOMAIN fields
      BY <1>2, <1>3
    <3>2. Answered(e.arg, fields[e], q)
      BY <2>2, <3>1 DEF ClassFits
    <3>3. CASE TypeRef(q, e.arg) \in fields[e].awaits
      <4>1. PICK x \in W : TypeRef(q, e.arg) = TypeRef(x.origin, x.arg)
        BY <1>1, <3>3 DEF SelfContained
      <4> QED
        BY <4>1 DEF TypeRef
    <3>4. CASE \E x \in fields[e].types : CachedAs(EarlyKey(q, e.arg), x)
      <4>1. PICK x \in fields[e].types : CachedAs(EarlyKey(q, e.arg), x)
        BY <3>4
      <4>2. q \in Origins
        BY <1>4, <2>2, <3>1, GenericAssumption DEF Children, Elements
      <4>3. Answers(x, q, e.arg)
        BY <1>3, <1>4, <3>1, <4>1, EarlyAnswer DEF CachedAs
      <4>4. x.origin = q
        BY <1>4, <3>1, <4>2, <4>3 DEF Answers, OriginOf
      <4> QED
        BY <1>2, <4>1, <4>4
    <3> QED
      BY <3>2, <3>3, <3>4 DEF Answered
  <2>3. \A q \in S : Children(q) \subseteq S
    BY <2>2
  <2> HIDE DEF S
  <2>4. c.origin \in S
    BY <1>6, <2>1, <2>3 DEF Leads
  <2> QED
    BY <2>4 DEF S
<1>8. PICK e \in W : e.origin = c.origin
  BY <1>7
<1>9. PICK e0 \in W : e \in fields[e0].types
  BY <1>2, <1>5, <1>8
<1>10. CachedAs(EarlyKey(e.origin, e0.arg), e)
  BY <1>2, <1>3, <1>9 DEF ClassFits, TypesCached
<1>11. EarlyKey(e.origin, e0.arg) = EarlyKey(c.origin, c.arg)
  BY <1>2, <1>5, <1>8, <1>9 DEF EarlyKey
<1> QED
  BY <1>1, <1>6, <1>8, <1>10, <1>11 DEF CachedAs

\* The placeholders mean what they are read as: a class with one for another
\* parametrization is part of every self-contained class it may stand for.
THEOREM AwaitedIsWhole == Spec => []AwaitedClassContainsIt
BY InvAwaited, GenericInvHolds, PTL

\* A call gives a class of the model it was asked of, for the arguments it was asked
\* for, the order of a union included unless it came in a list or written with `|`.
THEOREM QuestionsAnswered == Spec => AnswersTheQuestion
<1> DEFINE Right ==
      reply' # Nothing /\ reply'.got \notin Origins \cup {Nothing} =>
          LET arg == ArgOf(reply'.cls, reply'.val) IN
          /\ reply'.got.origin = OriginOf(reply'.cls)
          /\ Same(reply'.got.arg) = Same(arg)
          /\ reply'.val.ctor = "plain" /\ ~reply'.val.pipe =>
                SameSpelling(reply'.got.arg, arg)
<1>1. ASSUME GenericInv, Next PROVE Right
  <2>1. ASSUME NEW c, NEW val, NEW got, reply' = [cls |-> c, val |-> val, got |-> got],
               got \notin Origins =>
                   /\ got.origin = OriginOf(c)
                   /\ Same(got.arg) = Same(ArgOf(c, val))
                   /\ Ordered(val) => SameText(got.arg, ArgOf(c, val))
        PROVE  Right
    <3>1. reply'.cls = c /\ reply'.val = val /\ reply'.got = got
      BY <2>1
    <3>2. Same(got.arg) = Same(ArgOf(c, val)) => got.arg.ctor = ArgOf(c, val).ctor
      BY DEF Same
    <3> QED
      BY <2>1, <3>1, <3>2 DEF SameSpelling, Ordered, SameText
  <2>2. ASSUME NEW c, NEW val, Ask(c, val) PROVE Right
    <3>1. /\ stack = <<>> /\ GetItem(c, val, <<>>)
          /\ FieldsFit /\ CacheFits /\ GuardIsStack
      BY <2>2, <1>1 DEF Ask, GenericInv
    <3>2. guard = {}
      BY <3>1 DEF GuardIsStack
    <3>3. /\ c \in Models /\ val \in Arguments /\ OriginOf(c) \in Origins
          /\ val # TypeVar => ArgOf(c, val) \in Arguments /\ Amounts(ArgOf(c, val), val)
      BY <1>1, <2>2, AskedFits DEF MadeFor
    <3>4. \/ \E got : Found(c, val, got) /\ Deliver(c, val, got, <<>>)
          \/ Started(c, val, <<>>)
      BY <3>1, <3>2, <3>3, Outcomes
    <3>5. CASE Started(c, val, <<>>)
      BY <3>5 DEF Started
    <3>6. ASSUME NEW got, Found(c, val, got), Deliver(c, val, got, <<>>) PROVE Right
      <4>1. reply' = [cls |-> c, val |-> val, got |-> got] /\ Answers(got, c, val)
        BY <3>6 DEF Deliver, Found
      <4>2. ASSUME val = TypeVar, got \notin Origins
            PROVE  /\ got.origin = OriginOf(c)
                   /\ Same(got.arg) = Same(ArgOf(c, val))
                   /\ SameText(got.arg, ArgOf(c, val))
        <5>1. got = c /\ c \notin Origins
          BY <4>1, <4>2 DEF Answers
        <5>2. T \in Members(c.arg) /\ c \in DOMAIN fields
          BY <2>2, <3>3, <5>1 DEF Ask, Models
        <5>3. c.arg \in Arguments /\ c.arg # TypeVar
          BY <3>1, <5>2 DEF FieldsFit, ClassFits, MadeFor
        <5>4. c.arg.of = <<T>> /\ c.arg.pipe = FALSE /\ Members(c.arg) = {T}
          <6>1. c.arg.of = <<T>> /\ Members(c.arg) = {T}
            BY <5>2, <5>3, ArgumentParts DEF Members
          <6> QED
            BY <5>3, <6>1, SingleMember, ArgumentParts
        <5>5. c.arg.ctor = "list"
          BY <5>3, <5>4, ArgumentParts, TypeVarOnly
        <5>6. ArgOf(c, val) = Arg("list", val.pipe, val.of, val.object)
          BY <5>1, <5>2, <5>5 DEF ArgOf, Replace
        <5>7. /\ ArgOf(c, val).ctor = "list"
              /\ ArgOf(c, val).pipe = FALSE /\ ArgOf(c, val).of = <<T>>
          BY <4>2, <5>6, TypeVarParts DEF Arg
        <5>8. Same(ArgOf(c, val)) = Same(c.arg)
          BY <5>4, <5>5, <5>7 DEF Same, Members
        <5> QED
          BY <5>1, <5>4, <5>7, <5>8 DEF OriginOf, SameText
      <4>3. val # TypeVar =>
               /\ got.origin = OriginOf(c)
               /\ Same(got.arg) = Same(ArgOf(c, val))
               /\ Ordered(val) => SameText(got.arg, ArgOf(c, val))
        BY <4>1 DEF Answers
      <4> HIDE DEF Right
      <4> QED
        BY <2>1, <4>1, <4>2, <4>3
    <3> HIDE DEF Right
    <3> QED
      BY <3>4, <3>5, <3>6
  <2>3. CASE AskNested
    <3>1. PICK o, arg, below : GetItem(o, arg, below) /\ below # <<>>
      <4>1. PICK below : below = [stack EXCEPT ![Len(stack)].todo = Tail(@)]
        OBVIOUS
      <4>2. stack # <<>> /\ stack \in Seq(Frames)
        BY <1>1, <2>3 DEF AskNested, GenericInv, StackFits
      <4>3. below # <<>>
        BY <4>1, <4>2
      <4> QED
        BY <2>3, <4>1, <4>3 DEF AskNested
    <3>2. reply' = Nothing
      BY <3>1 DEF GetItem, Deliver
    <3> QED
      BY <3>2
  <2>4. CASE Create
    <3>1. PICK n, f, new :
             /\ Made(n, f, new)
             /\ Deliver(f.cls, f.val, new, SubSeq(stack, 1, n - 1))
      BY <2>4, CreateMakes
    <3>2. new.origin = f.origin /\ new.arg = f.arg
      BY <1>1, <3>1, MadeFits
    <3>3. FrameFits(f)
      BY <1>1, <3>1, StackParts DEF Made, GenericInv
    <3>4. /\ new.origin = OriginOf(f.cls) /\ new.arg = ArgOf(f.cls, f.val)
          /\ SameText(new.arg, ArgOf(f.cls, f.val))
      BY <3>2, <3>3 DEF FrameFits, SameText
    <3>5. reply' = Nothing \/ reply' = [cls |-> f.cls, val |-> f.val, got |-> new]
      BY <3>1 DEF Deliver
    <3>6. CASE reply' = Nothing
      BY <3>6
    <3>7. CASE reply' = [cls |-> f.cls, val |-> f.val, got |-> new]
      <4> HIDE DEF Right
      <4> QED
        BY <2>1, <3>4, <3>7
    <3> HIDE DEF Right
    <3> QED
      BY <3>5, <3>6, <3>7
  <2>5. CASE Fail
    <3>1. reply'.got = Nothing
      BY <2>5 DEF Fail
    <3> QED
      BY <3>1
  <2>6. CASE \E c : Drop(c)
    BY <2>6 DEF Drop
  <2>7. CASE Collect
    BY <2>7 DEF Collect
  <2> HIDE DEF Right
  <2> QED
    BY <1>1, <2>2, <2>3, <2>4, <2>5, <2>6, <2>7 DEF Next
<1>2. GenericInv /\ [Next]_vars => [Right]_vars
  BY <1>1
<1> QED
  BY <1>2, GenericInvHolds, PTL DEF Spec, AnswersTheQuestion

=============================================================================
