-------------------------- MODULE SchemaDefinitions --------------------------
(***************************************************************************)
(* _Definitions and schema cleaning: how the core schema of a class is     *)
(* put together from those of the types it names, some of them stored by   *)
(* earlier builds of other classes.                                        *)
(*                                                                         *)
(* A core schema is a graph of dicts that are changed in place.  heap is   *)
(* those dicts, an id each; a reference from one dict into another is the  *)
(* id, so that two schemas can share a part.  A build is one step: it runs *)
(* on one thread (ModelRebuildThreads has the threads) and every dict it   *)
(* touches is in the state.                                                *)
(*                                                                         *)
(* Left out: containers around a type, which only pass the traversal on;   *)
(* deferred discriminators; metadata, which acts on a reference as a       *)
(* serializer does; placeholders of generic classes.                       *)
(***************************************************************************)
EXTENDS Naturals, Sequences, FiniteSets, TLC, SequencesExt

CONSTANTS
    Models,    \* classes
    Aliases,   \* TypeAliasType instances
    Leaf,      \* any type whose schema has no reference, such as int
    Programs,  \* what the classes and aliases are, see ProgramType
    None

Types == Models \cup Aliases \cup {Leaf}

\* How a field has a serializer: Annotated[type, PlainSerializer(...)] or @field_serializer.
Marks == {"no", "annotated", "decorated"}

\* The fields of a class, what an alias names, and how often each class is built.
ProgramType ==
    [fields : [Models -> Seq([type : Types, mark : Marks])],
     value  : [Aliases -> Types],
     times  : [Models -> Nat]]

\* What some types lead to in the program p, themselves included.
RECURSIVE Reached(_, _, _)
Reached(p, types, done) ==
    IF types \subseteq done THEN done
    ELSE LET new == types \ done
         IN  Reached(p, {p.value[a] : a \in new \cap Aliases}
                        \cup UNION {{f.type : f \in Range(p.fields[c])} : c \in new \cap Models},
                     done \cup new)

\* An alias may lead to itself through other aliases, but no alias leads to a class
\* that leads to that alias: the schema of such a class contains itself.
ASSUME DefinitionsAssumption ==
    /\ Models \cap Aliases = {} /\ Leaf \notin Models \cup Aliases
    /\ None \notin Types
    /\ Programs \subseteq ProgramType
    /\ \A p \in Programs, a \in Aliases : \A c \in Reached(p, {a}, {}) \cap Models :
          a \notin Reached(p, {c}, {})

VARIABLES
    program,
    heap,      \* the dicts, by id
    stored,    \* [Models -> id of __pydantic_core_schema__, 0 when it is not set or a mock]
    outcome,   \* [Models -> how the last build ended]
    builds     \* [Models -> number of builds]

vars == <<program, heap, stored, outcome, builds>>

-----------------------------------------------------------------------------
\* Dicts.  name is the class of a model and the schema_ref of a reference; items are
\* the fields of a model, and the inner schema and the definitions of "definitions".

Dict(kind, name, items, ref) ==
    [kind |-> kind, name |-> name, items |-> items, ref |-> ref, ser |-> None]
Reference(name) == Dict("definition-ref", name, <<>>, None)

\* What _Definitions and its caller have while a schema is generated: at is the
\* schema in hand.
Fresh(gen, dict) == [gen EXCEPT !.heap = Append(@, dict), !.at = Len(gen.heap) + 1]

\* The dict in hand becomes the definition of its ref.
CreateDefinitionReference(gen) ==
    LET ref == gen.heap[gen.at].ref
    IN  Fresh([gen EXCEPT !.defs = (ref :> gen.at) @@ @], Reference(ref))

\* Mutant: the first definition is taken for the inner schema.
UnpackDefinitions_TakesDefinition(gen, id) ==
    LET items == gen.heap[id].items
    IN  FoldLeft(LAMBDA g, d : [g EXCEPT !.defs = (gen.heap[d].ref :> d) @@ @],
                 [gen EXCEPT !.at = items[2]], Tail(items))

\* The definitions of a stored schema are added, newer ones replace those there.
UnpackDefinitions(gen, id) ==
    LET items == gen.heap[id].items
    IN  FoldLeft(LAMBDA g, d : [g EXCEPT !.defs = (gen.heap[d].ref :> d) @@ @],
                 [gen EXCEPT !.at = items[1]], Tail(items))

\* The schema of a nested class that was built before is used as it is.
Reuse(gen, id) ==
    LET unpacked == IF gen.heap[id].kind = "definitions"
                    THEN UnpackDefinitions(gen, id) ELSE [gen EXCEPT !.at = id]
    IN  IF unpacked.heap[unpacked.at].ref # None
        THEN CreateDefinitionReference(unpacked) ELSE unpacked

\* An annotated serializer is set on the dict in hand, one from a decorator on a copy.
Mark(gen, mark, owner) ==
    LET copied == Fresh(gen, gen.heap[gen.at])
        target == CASE mark = "annotated" -> gen
                    [] mark = "decorated" /\ copied.heap[copied.at].ref = None -> copied
                    [] OTHER -> CreateDefinitionReference(copied)
    IN  IF mark = "no" THEN gen ELSE [target EXCEPT !.heap[target.at].ser = owner]

RECURSIVE GenerateSchema(_, _, _)

\* The class or alias c, when there is no definition of it and it is not in progress.
GenerateModel(gen, c, seen) ==
    LET fields == program.fields[c]
        Add(acc, i) ==
            LET g == Mark(GenerateSchema(acc.gen, fields[i].type, seen \cup {c}),
                          fields[i].mark, <<c, i>>)
            IN  [gen |-> g, items |-> Append(acc.items, g.at)]
        all == FoldLeftDomain(Add, [gen |-> gen, items |-> <<>>], fields)
    IN  CreateDefinitionReference(Fresh(all.gen, Dict("model", c, all.items, c)))

GenerateAlias(gen, a, seen) ==
    LET g == GenerateSchema(gen, program.value[a], seen \cup {a})
    IN  CreateDefinitionReference([g EXCEPT !.heap[g.at].ref = a])

GenerateSchema(gen, type, seen) ==
    LET known == seen \cup DOMAIN gen.defs
    IN  CASE type = Leaf -> Fresh(gen, Dict("leaf", None, <<>>, None))
          [] type \in known -> Fresh(gen, Reference(type))
          [] type \in Aliases \ known -> GenerateAlias(gen, type, seen)
          [] type \in Models \ known /\ gen.stored[type] # 0 -> Reuse(gen, gen.stored[type])
          [] OTHER -> GenerateModel(gen, type, seen)

-----------------------------------------------------------------------------
\* Cleaning.

\* Mutant: the reference met last may be replaced, not only one met once.
RECURSIVE Traverse_LastWins(_, _, _)
Traverse_LastWins(gen, found, id) ==
    LET dict == gen.heap[id]
        ref  == dict.name
    IN  IF dict.kind # "definition-ref"
        THEN FoldLeft(LAMBDA f, item : Traverse_LastWins(gen, f, item), found, dict.items)
        ELSE IF ref \in DOMAIN found.only THEN [found EXCEPT !.only[ref] = id]
        ELSE IF ref \notin DOMAIN gen.defs THEN [found EXCEPT !.missing = TRUE]
        ELSE Traverse_LastWins(gen, [found EXCEPT !.only = (ref :> id) @@ @, !.order = Append(@, ref)],
                      gen.defs[ref])

\* collected_references: the refs in the order they are met, and the one reference
\* with each ref, 0 when there are more.  missing: a reference has no definition.
RECURSIVE Traverse(_, _, _)
Traverse(gen, found, id) ==
    LET dict == gen.heap[id]
        ref  == dict.name
    IN  IF dict.kind # "definition-ref"
        THEN FoldLeft(LAMBDA f, item : Traverse(gen, f, item), found, dict.items)
        ELSE IF ref \in DOMAIN found.only THEN [found EXCEPT !.only[ref] = 0]
        ELSE IF ref \notin DOMAIN gen.defs THEN [found EXCEPT !.missing = TRUE]
        ELSE Traverse(gen, [found EXCEPT !.only = (ref :> id) @@ @, !.order = Append(@, ref)],
                      gen.defs[ref])

Gather(gen) == Traverse(gen, [only |-> <<>>, order |-> <<>>, missing |-> FALSE], gen.at)

\* Mutant: a reference is inlined whatever it carries.
Inlinable_Always(dict) == TRUE

\* Nothing is attached to the reference, so that it can be replaced by what it names.
Inlinable(dict) == dict.ser = None

\* Mutant: a second intermediate reference is taken for a circle.
RECURSIVE Follow_TwoIsACircle(_, _, _)
Follow_TwoIsACircle(gen, dict, visited) ==
    IF ~ (dict.kind = "definition-ref" /\ Inlinable(dict)) THEN dict
    ELSE IF visited # {} THEN None
    ELSE Follow_TwoIsACircle(gen, gen.heap[gen.defs[dict.name]], visited \cup {dict.name})

\* The definition an intermediate reference leads to, None when it leads back to itself.
RECURSIVE Follow(_, _, _)
Follow(gen, dict, visited) ==
    IF ~ (dict.kind = "definition-ref" /\ Inlinable(dict)) THEN dict
    ELSE IF dict.name \in visited THEN None
    ELSE Follow(gen, gen.heap[gen.defs[dict.name]], visited \cup {dict.name})

\* Mutant: one level of intermediate references is resolved.
ResolveDefinition_OneLevel(gen, ref) ==
    LET id == gen.defs[ref]
    IN  IF gen.heap[id].kind # "definition-ref" THEN [gen EXCEPT !.at = id]
        ELSE Fresh(gen, [gen.heap[gen.defs[gen.heap[id].name]] EXCEPT !.ref = ref])

\* The definition of ref is in hand: itself, or a dict of its own for an
\* intermediate reference.  at is 0 when the reference is circular.
ResolveDefinition(gen, ref) ==
    LET id       == gen.defs[ref]
        resolved == Follow(gen, gen.heap[id], {})
    IN  IF gen.heap[id].kind # "definition-ref" THEN [gen EXCEPT !.at = id]
        ELSE IF resolved = None THEN [gen EXCEPT !.at = 0]
        ELSE Fresh(gen, [resolved EXCEPT !.ref = ref])

\* Mutant: the definition of a reference met once is never kept.
CleanReference_KeepsRepeatedOnly(found, acc, ref) ==
    LET only == found.only[ref]
        g    == ResolveDefinition(acc.gen, ref)
    IN  IF acc.circular THEN acc
        ELSE IF g.at = 0 THEN [acc EXCEPT !.circular = TRUE]
        ELSE IF only # 0 /\ Inlinable(acc.gen.heap[only])
        THEN [acc EXCEPT !.gen = [acc.gen EXCEPT !.heap[only] = g.heap[g.at]]]
        ELSE IF only # 0 THEN acc
        ELSE [acc EXCEPT !.gen = g, !.kept = Append(@, g.at)]

\* The reference met once is replaced, in place, by its definition; any other keeps
\* its definition in the schema.  The code empties the reference before it resolves the
\* definition: an error then leaves it empty, in a schema that is not stored.
CleanReference(found, acc, ref) ==
    LET only == found.only[ref]
        g    == ResolveDefinition(acc.gen, ref)
    IN  IF acc.circular THEN acc
        ELSE IF g.at = 0 THEN [acc EXCEPT !.circular = TRUE]
        ELSE IF only # 0 /\ Inlinable(acc.gen.heap[only])
        THEN [acc EXCEPT !.gen = [acc.gen EXCEPT !.heap[only] = g.heap[g.at]]]
        ELSE [acc EXCEPT !.gen = g, !.kept = Append(@, g.at)]

FinalizeSchema(gen) ==
    LET found   == Gather(gen)
        cleaned == FoldLeft(LAMBDA acc, ref : CleanReference(found, acc, ref),
                            [gen |-> gen, kept |-> <<>>, circular |-> FALSE], found.order)
        done    == [cleaned.gen EXCEPT !.at = gen.at]
    IN  CASE found.missing -> [outcome |-> "missing", gen |-> [gen EXCEPT !.at = 0]]
          [] ~ found.missing /\ cleaned.circular ->
                [outcome |-> "circular", gen |-> [done EXCEPT !.at = 0]]
          [] OTHER ->
                [outcome |-> "built",
                 gen |-> IF cleaned.kept = <<>> THEN done
                         ELSE Fresh(done, Dict("definitions", None,
                                               <<gen.at>> \o cleaned.kept, None))]

-----------------------------------------------------------------------------
Init ==
    /\ program \in Programs
    /\ heap = <<>>
    /\ stored = [c \in Models |-> 0]
    /\ outcome = [c \in Models |-> "none"]
    /\ builds = [c \in Models |-> 0]

\* A class is built: its stored schema is dropped, one is generated and cleaned.  A
\* failing build leaves the class without one; what it did to dicts stays done.
Build(c) ==
    /\ builds[c] < program.times[c]
    /\ LET start  == [heap |-> heap, defs |-> <<>>, at |-> 0,
                      stored |-> [stored EXCEPT ![c] = 0]]
           result == FinalizeSchema(GenerateSchema(start, c, {}))
       IN  /\ heap' = result.gen.heap
           /\ stored' = [stored EXCEPT ![c] = result.gen.at]
           /\ outcome' = [outcome EXCEPT ![c] = result.outcome]
    /\ builds' = [builds EXCEPT ![c] = @ + 1]
    /\ UNCHANGED program

Next == \E c \in Models : Build(c)

Spec == Init /\ [][Next]_vars

-----------------------------------------------------------------------------
\* What the schemas mean.

Outcomes == {"none", "built", "circular", "missing"}
DictType ==
    [kind  : {"leaf", "model", "definition-ref", "definitions"},
     name  : Models \cup Aliases \cup {None},
     items : Seq(DOMAIN heap),
     ref   : Models \cup Aliases \cup {None},
     ser   : (Models \X Nat) \cup {None}]

\* The dicts in a dict, itself included.
RECURSIVE Within(_, _)
Within(ids, done) ==
    IF ids \subseteq done THEN done
    ELSE Within(UNION {Range(heap[id].items) : id \in ids \ done}, done \cup ids)
Parts(id) == Within({id}, {})

Finite(id) == \A part \in Parts(id) : part \notin Within(Range(heap[part].items), {})

\* The schema itself and its definitions, by ref.
Top(id) == IF heap[id].kind = "definitions" THEN heap[id].items[1] ELSE id
Definitions(id) ==
    LET defs == IF heap[id].kind = "definitions" THEN Range(Tail(heap[id].items)) ELSE {}
    IN  [ref \in {heap[d].ref : d \in defs} |-> CHOOSE d \in defs : heap[d].ref = ref]

Closed(id) ==
    \A part \in Parts(id) :
        heap[part].kind = "definition-ref" => heap[part].name \in DOMAIN Definitions(id)

\* The aliases an alias goes through, itself only when it is circular.
RECURSIVE Through(_, _)
Through(type, done) ==
    IF type \notin Aliases \/ type \in done THEN done
    ELSE Through(program.value[type], done \cup {type})
Circular(a) == a \in Through(program.value[a], {})

\* What a type stands for, when no alias in between is circular.
RECURSIVE Target(_)
Target(type) == IF type \in Aliases THEN Target(program.value[type]) ELSE type

\* All pairs of a dict and the type it stands for, starting from some pairs.
RECURSIVE Unfold(_, _, _)
Unfold(defs, pairs, done) ==
    LET Next1(p) ==
            LET dict == heap[p[1]]
            IN  CASE dict.kind = "definition-ref" /\ dict.name \in DOMAIN defs ->
                        {<<defs[dict.name], p[2]>>}
                  [] dict.kind = "model" /\ dict.name = p[2] ->
                        {<<dict.items[i], Target(program.fields[p[2]][i].type)>> :
                         i \in DOMAIN dict.items}
                  [] OTHER -> {}
        new == pairs \ done
    IN  IF new = {} THEN done ELSE Unfold(defs, UNION {Next1(p) : p \in new}, done \cup new)

Unfolded(c) == Unfold(Definitions(stored[c]), {<<Top(stored[c]), c>>}, {})
Built == {c \in Models : stored[c] # 0}

TypeOK ==
    /\ program \in ProgramType
    /\ heap \in Seq(DictType)
    /\ stored \in [Models -> {0} \cup DOMAIN heap]
    /\ outcome \in [Models -> Outcomes]
    /\ builds \in [Models -> Nat]
    /\ \A c \in Models : outcome[c] = "built" <=> stored[c] # 0

\* No dict of a stored schema contains itself, however references were replaced in
\* place by definitions that other schemas share: building a validator, or the next
\* cleaning, goes through the dicts without a guard.
SchemasFinite == \A c \in Built : Finite(stored[c])

\* A class just built has all the definitions its references need; those of other
\* stored schemas are not left out because they were seen there.
BuiltIsClosed ==
    [][\A c \in Models : stored'[c] # stored[c] /\ stored'[c] # 0 => Closed(stored[c])']_vars

\* What is stored for a class describes that class, from its own fields down, as far
\* as its references lead: neither the order of the builds nor the definitions found
\* in other schemas put another type in the place of a field, or a schema in itself.
SchemaIsOfItsClass ==
    /\ SchemasFinite
    /\ \A c \in Built : \A p \in Unfolded(c) :
           LET dict == heap[p[1]]
           IN  \/ dict.kind = "definition-ref"
               \/ dict.kind = "leaf" /\ p[2] = Leaf
               \/ /\ dict.kind = "model" /\ dict.name = p[2]
                  /\ Len(dict.items) = Len(program.fields[p[2]])

\* "Otherwise, the schema should not be inlined. Doing so would remove the
\* 'serialization' schema": each field with a serializer has one, in every class the
\* schema of its class was put into.
SerializersKept ==
    \A c \in Built : \A p \in Unfolded(c) :
        heap[p[1]].kind = "model" =>
            \A i \in DOMAIN program.fields[p[2]] :
                program.fields[p[2]][i].mark # "no" => heap[heap[p[1]].items[i]].ser # None

\* The class an alias stands for refers to itself, so that its stored schema is a
\* reference to its definition; the ref that an earlier use of the alias, or of one it
\* goes through, has set on this reference is still there.
UsedBefore(a) ==
    LET c == Target(a)
    IN  /\ c \in Built
        /\ heap[Top(stored[c])].kind = "definition-ref"
        /\ heap[Top(stored[c])].ref \in Through(a, {})

\* A build that reaches a circular alias ends with the circular reference error.  "This
\* error is raised when a circular reference is found that would otherwise result in
\* an infinite recursion" (usage_errors.md:525): without such an alias no order of
\* builds ends with it, except where an alias of a class that refers to itself was used
\* before.
CircularAliasesFound ==
    [][\A c \in Models : builds'[c] # builds[c] =>
          LET aliases == Reached(program, {c}, {}) \cap Aliases IN
          /\ (\E a \in aliases : Circular(a)) => outcome'[c] = "circular"
          /\ outcome'[c] = "circular" => \E a \in aliases : Circular(a) \/ UsedBefore(a)]_vars
=============================================================================
