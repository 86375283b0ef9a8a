----------------------- MODULE GenericParametrization -----------------------
(***************************************************************************)
(* BaseModel.__class_getitem__: Model[args] finds the class made for these *)
(* arguments in a cache of weak references, under an early key (what was   *)
(* asked) or a late key (what it amounts to), or makes it.  Making a class *)
(* replaces the type variable in its fields, which asks for other          *)
(* parametrizations; one that is being made already is answered with a     *)
(* placeholder.  The garbage collector may run at any time.                *)
(*                                                                         *)
(* One context (thread or task) is modelled: the cache and the recursion   *)
(* guard are context variables.  Generic models have one type variable.    *)
(***************************************************************************)
EXTENDS Naturals, Sequences, FiniteSets

CONSTANTS
    Origins,    \* the generic models, class Model(BaseModel, Generic[T])
    Nested,     \* [Origins -> Seq(Origins)]: the fields x: Child[T] of a model
    T,          \* the type variable
    Programs,   \* what a program asks of them, a set of [Origins -> sets of arguments]
    AskedAgain, \* the arguments it gives to a class that still contains T
    Copies,     \* 1 .. n, tells n classes with the same model and arguments apart
    Objects,    \* 1 .. n, tells n equal arguments apart
    Nothing, Placeholder

\* An argument is a type or a union, in order, plain or in a list.  A union is
\* written Union[...] or, if it is a pipe, with `|`, which makes another type of
\* object (before Python 3.14).  Equal unions and lists may be different objects.
Arg(ctor, pipe, of, object) ==
    [ctor |-> ctor, pipe |-> pipe, of |-> of, object |-> object]
Written(ctor, of) == Arg(ctor, FALSE, of, 1)
Piped(ctor, of) == Arg(ctor, TRUE, of, 1)
TypeVar == Written("plain", <<T>>)

Members(arg) == {arg.of[i] : i \in DOMAIN arg.of}

\* The objects that Written arguments may be: a class or a variable is only one.
Evaluated(args) ==
    UNION {{[a EXCEPT !.object = n] :
            n \in IF a.ctor = "plain" /\ Len(a.of) = 1 THEN {1} ELSE Objects} : a \in args}

AllAsked == UNION {UNION {program[o] : o \in Origins} : program \in Programs}

\* What is written down: typing drops the members of a union that it has already.
ASSUME GenericAssumption ==
    /\ Nested \in [Origins -> Seq(Origins)]
    /\ \A program \in Programs : DOMAIN program = Origins
    /\ \A a \in AskedAgain \cup AllAsked :
          /\ a \in {Written(a.ctor, a.of), Piped(a.ctor, a.of)}
          /\ a.ctor \in {"plain", "list"}
          /\ a.pipe => Len(a.of) > 1
          /\ a.of \in Seq(Members(a)) \ {<<>>}
          /\ \A i, j \in DOMAIN a.of : a.of[i] = a.of[j] => i = j
          /\ T \in Members(a) => a.of = <<T>>
    /\ \A a \in AskedAgain : a.ctor = "plain"

VARIABLES
    asked,    \* what the program asks for
    fields,   \* the submodels that exist, and what the types of their fields are
    cache,    \* _GENERIC_TYPES_CACHE, from keys to submodels (or to an origin)
    guard,    \* _generic_recursion_cache, the type refs being made
    stack,    \* the calls in progress, the outermost first
    held,     \* the classes the program has a reference to
    reply     \* what the program asked and got, if the last step ended a call

vars == <<asked, fields, cache, guard, stack, held, reply>>

-----------------------------------------------------------------------------
\* replace_types() on the argument of a class.  The list is a new object, or the
\* one typing has in its cache.
Replace(arg, val) ==
    IF T \notin Members(arg) THEN arg
    ELSE IF arg.ctor = "list" THEN Arg("list", val.pipe, val.of, val.object) ELSE val

\* A submodel: its origin, its argument and which of the copies it is.
Submodels ==
    [origin : Origins,
     arg : Evaluated(AllAsked) \cup
           {Replace(a, b) : a \in Evaluated(AllAsked), b \in Evaluated(AskedAgain)},
     copy : Copies]

\* A submodel is no origin, and neither is a placeholder or nothing.
ASSUME DistinctAssumption ==
    /\ Origins \cap Submodels = {}
    /\ Placeholder \notin Origins \cup Submodels
    /\ Nothing \notin Origins \cup Submodels \cup {Placeholder}

\* Mutant: the order of a union is left out of the keys.
Ordering_Never(arg) == <<>>

\* Unions compare equal in any order and however they are written;
\* _union_orderings_key() adds the order, but only of a typing.Union that is itself
\* the argument: is_union() does not know types.UnionType.
Same(arg) == <<arg.ctor, Members(arg)>>
Ordering(arg) ==
    IF arg.ctor = "plain" /\ ~arg.pipe /\ Len(arg.of) > 1 THEN arg.of ELSE <<>>

OriginOf(c) == IF c \in Origins THEN c ELSE c.origin
ArgOf(c, val) == IF c \in Origins THEN val ELSE Replace(c.arg, val)

EarlyKey(c, val) == <<"early", c, Same(val), Ordering(val)>>
LateKey(o, arg, val) == <<"late", Ordering(val), o, Same(arg)>>

Put(f, k, v) == [x \in DOMAIN f \cup {k} |-> IF x = k THEN v ELSE f[x]]

\* set_cached_generic_type()
Store(c, val, o, arg, class) ==
    Put(Put(cache, LateKey(o, arg, val), class), EarlyKey(c, val), class)

\* get_type_ref(): it contains the id() of the argument, so unlike the keys it tells
\* equal arguments apart.
TypeRef(o, arg) == <<o, arg>>

Frame(c, val, o, arg) ==
    [cls |-> c, val |-> val, origin |-> o, arg |-> arg, todo |-> Nested[o],
     types |-> {}, awaits |-> {}]

\* A field gets its type: a submodel, the origin, or a placeholder, which holds
\* the type ref of a class that is being made.
Typed(frame, c, val, got) ==
    [frame EXCEPT
        !.types = @ \cup ({got} \ (Origins \cup {Placeholder})),
        !.awaits = @ \cup (IF got = Placeholder
                           THEN {TypeRef(OriginOf(c), ArgOf(c, val))} ELSE {})]

\* Mutant: a placeholder is not taken for an answer.
Deliver_AsksAgain(c, val, got, below) ==
    IF below = <<>>
    THEN /\ stack' = <<>>
         /\ held' = held \cup ({got} \ (Origins \cup {Placeholder}))
         /\ reply' = [cls |-> c, val |-> val, got |-> got]
    ELSE /\ stack' = [below EXCEPT ![Len(below)].todo =
                        IF got = Placeholder THEN Append(@, OriginOf(c)) ELSE @]
         /\ reply' = Nothing
         /\ UNCHANGED held

\* The call above the frames `below` ends with `got`: a class becomes the type
\* of a field of the class made below, or goes to the program.
Deliver(c, val, got, below) ==
    IF below = <<>>
    THEN /\ stack' = <<>>
         /\ held' = held \cup ({got} \ (Origins \cup {Placeholder}))
         /\ reply' = [cls |-> c, val |-> val, got |-> got]
    ELSE /\ stack' = [below EXCEPT ![Len(below)] = Typed(@, c, val, got)]
         /\ reply' = Nothing
         /\ UNCHANGED held

\* Mutant: the late key is not tried.
GetItem_EarlyOnly(c, val, below) ==
    LET o == OriginOf(c)
        arg == ArgOf(c, val)
        early == EarlyKey(c, val)
    IN
    \/ /\ early \in DOMAIN cache
       /\ Deliver(c, val, cache[early], below)
       /\ UNCHANGED <<fields, cache, guard>>
    \/ /\ early \notin DOMAIN cache /\ TypeRef(o, arg) \in guard
       /\ Deliver(c, val, Placeholder, below)
       /\ UNCHANGED <<fields, cache, guard>>
    \/ /\ early \notin DOMAIN cache /\ TypeRef(o, arg) \notin guard
       /\ stack' = Append(below, Frame(c, val, o, arg))
       /\ guard' = guard \cup {TypeRef(o, arg)}
       /\ reply' = Nothing
       /\ UNCHANGED <<fields, cache, held>>

\* __class_getitem__ up to the creation of the submodel.
GetItem(c, val, below) ==
    LET o == OriginOf(c)
        arg == ArgOf(c, val)
        early == EarlyKey(c, val)
        late == LateKey(o, arg, val)
    IN
    \/ /\ early \in DOMAIN cache
       /\ Deliver(c, val, cache[early], below)
       /\ UNCHANGED <<fields, cache, guard>>
    \/ /\ early \notin DOMAIN cache /\ val = TypeVar
       /\ cache' = Put(cache, early, c)
       /\ Deliver(c, val, c, below)
       /\ UNCHANGED <<fields, guard>>
    \/ /\ early \notin DOMAIN cache /\ val # TypeVar
       /\ \/ /\ late \in DOMAIN cache
             /\ cache' = Store(c, val, o, arg, cache[late])
             /\ Deliver(c, val, cache[late], below)
             /\ UNCHANGED <<fields, guard>>
          \/ /\ late \notin DOMAIN cache /\ TypeRef(o, arg) \in guard
             /\ Deliver(c, val, Placeholder, below)
             /\ UNCHANGED <<fields, cache, guard>>
          \/ /\ late \notin DOMAIN cache /\ TypeRef(o, arg) \notin guard
             /\ stack' = Append(below, Frame(c, val, o, arg))
             /\ guard' = guard \cup {TypeRef(o, arg)}
             /\ reply' = Nothing
             /\ UNCHANGED <<fields, cache, held>>

-----------------------------------------------------------------------------
Init ==
    /\ asked \in Programs
    /\ fields = <<>>
    /\ cache = <<>>
    /\ guard = {}
    /\ stack = <<>>
    /\ held = {}
    /\ reply = Nothing

\* The program evaluates Model[val], or Model[list[T]][val].
Ask(c, val) ==
    /\ stack = <<>>
    /\ \/ c \in Origins /\ val \in Evaluated(asked[c])
       \/ c \in held /\ T \in Members(c.arg) /\ val \in Evaluated(AskedAgain)
    /\ GetItem(c, val, <<>>)
    /\ UNCHANGED asked

Top == stack[Len(stack)]
Below == SubSeq(stack, 1, Len(stack) - 1)

\* replace_types() on the next field of the class being made.
AskNested ==
    /\ stack # <<>> /\ Top.todo # <<>>
    /\ GetItem(Head(Top.todo), Top.arg,
               [stack EXCEPT ![Len(stack)].todo = Tail(@)])
    /\ UNCHANGED asked

\* Mutant: the class is not cached.
Create_NotCached ==
    /\ stack # <<>> /\ Top.todo = <<>>
    /\ \E n \in Copies :
          LET new == [origin |-> Top.origin, arg |-> Top.arg, copy |-> n] IN
          /\ new \notin DOMAIN fields
          /\ \A k \in 1 .. n - 1 : [new EXCEPT !.copy = k] \in DOMAIN fields
          /\ fields' = Put(fields, new, [types |-> Top.types, awaits |-> Top.awaits])
          /\ cache' = cache
          /\ guard' = guard \ {TypeRef(Top.origin, Top.arg)}
          /\ Deliver(Top.cls, Top.val, new, Below)
    /\ UNCHANGED asked

\* create_generic_submodel() succeeds: the class is cached, the guard left.
Create ==
    /\ stack # <<>> /\ Top.todo = <<>>
    /\ \E n \in Copies :
          LET new == [origin |-> Top.origin, arg |-> Top.arg, copy |-> n] IN
          /\ new \notin DOMAIN fields
          /\ \A k \in 1 .. n - 1 : [new EXCEPT !.copy = k] \in DOMAIN fields
          /\ fields' = Put(fields, new, [types |-> Top.types, awaits |-> Top.awaits])
          /\ cache' = Store(Top.cls, Top.val, Top.origin, Top.arg, new)
          /\ guard' = guard \ {TypeRef(Top.origin, Top.arg)}
          /\ Deliver(Top.cls, Top.val, new, Below)
    /\ UNCHANGED asked

\* The class cannot be made.  The exception passes through all calls in progress;
\* only the outermost one, which has the token, cleans the guard up.
Fail ==
    /\ stack # <<>> /\ Top.todo = <<>>
    /\ stack' = <<>>
    /\ guard' = {}
    /\ reply' = [cls |-> stack[1].cls, val |-> stack[1].val, got |-> Nothing]
    /\ UNCHANGED <<asked, fields, cache, held>>

\* The program drops a reference.
Drop(class) ==
    /\ stack = <<>>
    /\ held' = held \ {class}
    /\ reply' = Nothing
    /\ UNCHANGED <<asked, fields, cache, guard, stack>>

\* What a submodel keeps alive: the types of its fields, and the submodels in the
\* keys it is cached under.
KeepsAlive(class) ==
    fields[class].types \cup
    {c \in DOMAIN fields : \E k \in DOMAIN cache :
        k[1] = "early" /\ k[2] = c /\ cache[k] = class}

Roots ==
    held \cup UNION {({stack[i].cls} \ Origins) \cup stack[i].types : i \in DOMAIN stack}

\* The submodels reached from some along an edge.
From(some, edge) ==
    LET reach[n \in 0 .. Cardinality(DOMAIN fields)] ==
            IF n = 0 THEN some
            ELSE LET near == reach[n - 1] IN near \cup UNION {edge[c] : c \in near}
    IN  reach[Cardinality(DOMAIN fields)]

Live == From(Roots, [c \in DOMAIN fields |-> KeepsAlive(c)])

\* The garbage collector frees unreachable submodels, never one that a submodel it
\* leaves refers to; their weak references leave the cache.
Collect ==
    LET garbage == DOMAIN fields \ Live IN
    \E gone \in SUBSET garbage \ {{}} :
        /\ \A c \in garbage \ gone : KeepsAlive(c) \cap gone = {}
        /\ fields' = [c \in DOMAIN fields \ gone |-> fields[c]]
        /\ cache' = [k \in {k \in DOMAIN cache : cache[k] \notin gone} |-> cache[k]]
        /\ reply' = Nothing
        /\ UNCHANGED <<asked, guard, stack, held>>

Advance == AskNested \/ Create

Next ==
    \/ \E c \in Origins : \E val \in Evaluated(asked[c]) : Ask(c, val)
    \/ \E c \in held, val \in Evaluated(AskedAgain) : Ask(c, val)
    \/ AskNested
    \/ Create
    \/ Fail
    \/ \E c \in held : Drop(c)
    \/ Collect

Spec == Init /\ [][Next]_vars

\* A call in progress goes on.
FairSpec == Spec /\ WF_vars(Advance)

-----------------------------------------------------------------------------
(* Properties.                                                             *)

SameSpelling(a, b) == a.ctor = b.ctor /\ a.pipe = b.pipe /\ a.of = b.of

Within(class) == From({class}, [c \in DOMAIN fields |-> fields[c].types])

TypeOK ==
    /\ DOMAIN fields \subseteq Submodels
    /\ \A c \in DOMAIN fields : fields[c].types \subseteq DOMAIN fields
    /\ \A k \in DOMAIN cache : cache[k] \in Origins \cup DOMAIN fields
    /\ \A i \in DOMAIN stack :
          /\ stack[i].origin \in Origins
          /\ stack[i].types \subseteq DOMAIN fields
    /\ held \subseteq DOMAIN fields

\* The guard holds exactly the parametrizations being made, none of them twice;
\* in particular it is empty when no call is in progress, whatever failed.  So a
\* placeholder always stands for a class that the calls below are making.
GuardIsStack ==
    /\ guard = {TypeRef(stack[i].origin, stack[i].arg) : i \in DOMAIN stack}
    /\ \A i, j \in DOMAIN stack :
          TypeRef(stack[i].origin, stack[i].arg) = TypeRef(stack[j].origin, stack[j].arg) => i = j

\* A class whose placeholders all stand for classes it is made of, so that its
\* schema can be completed.
SelfContained(class) ==
    \A c \in Within(class) : \A ref \in fields[c].awaits :
        \E d \in Within(class) : ref = TypeRef(d.origin, d.arg)

\* Whatever was made, found again, lost and made again since, a class with a
\* placeholder for another parametrization is part of every self-contained class
\* the placeholder may stand for: the guard has what is being made, and nothing
\* else.
AwaitedClassContainsIt ==
    /\ GuardIsStack
    /\ \A c, d \in DOMAIN fields :
          /\ TypeRef(d.origin, d.arg) \in fields[c].awaits \ {TypeRef(c.origin, c.arg)}
          /\ SelfContained(d)
          => c \in Within(d)

\* Through late keys, collections and copies made again, a key leads to a class of
\* the model and with the arguments the key stands for.
CacheTruthful ==
    \A k \in DOMAIN cache : cache[k] \notin Origins =>
        IF k[1] = "late"
        THEN k[3] = cache[k].origin /\ k[4] = Same(cache[k].arg)
        ELSE /\ k[2] \in Origins \cup DOMAIN fields
             /\ OriginOf(k[2]) = cache[k].origin

\* "Types that are functionally equivalent are actually equal"
\* (get_cached_generic_type_early, _generics.py:452): two classes that exist have the
\* same model and the same arguments only if these are a union in a list, whose
\* order is in the late key when it comes through a class that contains T and is
\* not otherwise; and a key finds the class it stands for.
OneClassPerParametrization ==
    /\ CacheTruthful
    /\ \A c, d \in DOMAIN fields :
          c.origin = d.origin /\ SameSpelling(c.arg, d.arg) /\ c # d =>
              c.arg.ctor = "list" /\ Len(c.arg.of) > 1

\* A call that ends with a class gives one for the model and the arguments that
\* were asked, and for the very spelling of them, the order of a union included,
\* unless they were given as a list ("it is not possible to distinguish between
\* List[Union[int, float]] and List[Union[float, int]]") or as a union written with
\* `|`.  For the latter _union_orderings_key (_generics.py:508) promises more: "you
\* _can_ distinguish between (top-level) Union[int, float] vs. Union[float, int]".
AnswersTheQuestion ==
    [][reply' # Nothing /\ reply'.got \notin Origins \cup {Nothing} =>
          LET arg == ArgOf(reply'.cls, reply'.val) IN
          /\ reply'.got.origin = OriginOf(reply'.cls)
          /\ Same(reply'.got.arg) = Same(arg)
          /\ reply'.val.ctor = "plain" /\ ~reply'.val.pipe =>
                SameSpelling(reply'.got.arg, arg)]_vars

\* Recursive models do not recurse for ever: every call ends.
CallsEnd == stack # <<>> ~> stack = <<>>

=============================================================================
