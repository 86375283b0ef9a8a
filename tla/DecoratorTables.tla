-------------------------- MODULE DecoratorTables --------------------------
(* DecoratorInfos.build() (_internal/_decorators.py): the validators and    *)
(* serializers of a class, collected from the tables of the classes it      *)
(* inherits from and from its own namespace.  An entry joins what the       *)
(* decorator said (info) with the function that the name means on the class *)
(* (func); both are given by the class that wrote them.                     *)
(*                                                                          *)
(* A table has for each kind of decorator an ordered dictionary, which is a *)
(* sequence of entries with different names.                                *)
EXTENDS Algorithms, Naturals, Sequences, SequencesExt

CONSTANTS
    Kinds,           \* the kinds of decorators
    DecoratorInputs  \* [algorithm, mro, names, own]: the MRO of each class, the
                     \* order of the names in a namespace, and what each class has
                     \* under each name: nothing, a plain function, or one that is
                     \* decorated as a kind for a field

\* What every linearization does: a class comes first in its own, and the classes
\* another one inherits from come with it and in the same order.
Linearized(mro) ==
    \A c \in DOMAIN mro :
        /\ mro[c] \in Seq(DOMAIN mro) /\ mro[c] # <<>> /\ mro[c][1] = c
        /\ \A i, j \in DOMAIN mro[c] : mro[c][i] = mro[c][j] => i = j
        /\ \A d \in Range(mro[c]) :
              /\ Range(mro[d]) \subseteq Range(mro[c])
              /\ \A i, j \in DOMAIN mro[d], k, l \in DOMAIN mro[c] :
                    i < j /\ mro[c][k] = mro[d][i] /\ mro[c][l] = mro[d][j] => k < l

ASSUME DecoratorsAssumption ==
    /\ "absent" \notin Kinds /\ "field_serializers" \in Kinds
    /\ \A mro \in {asked.mro : asked \in DecoratorInputs} : Linearized(mro)
    /\ \A asked \in DecoratorInputs :
          /\ asked.algorithm = "decorators"
          /\ DOMAIN asked.own = DOMAIN asked.mro
          /\ asked.names \in Seq(Range(asked.names))
          /\ \A i, j \in DOMAIN asked.names : asked.names[i] = asked.names[j] => i = j

-----------------------------------------------------------------------------
Absent == [kind |-> "absent"]

\* get_attribute_from_bases(): the class whose function the name means on c.
FunctionOf(name, c, asked) ==
  LET mro == asked.mro[c]
      having == {i \in DOMAIN mro : asked.own[mro[i]][name].kind # "absent"}
  IN  mro[CHOOSE i \in having : \A j \in having : i <= j]

\* Mutant: an inherited entry keeps the function of the class it comes from.
BindToCls_KeepsFunction(entry, c, asked) == entry

\* Decorator.bind_to_cls()
BindToCls(entry, c, asked) == [entry EXCEPT !.func = FunctionOf(entry.name, c, asked)]

\* dict.update() with one item: a name that is there keeps its position.
Put(entries, entry) ==
  IF \E i \in DOMAIN entries : entries[i].name = entry.name
  THEN [i \in DOMAIN entries |-> IF entries[i].name = entry.name THEN entry ELSE entries[i]]
  ELSE Append(entries, entry)

Updated(entries, others) ==
  LET after[n \in 0 .. Len(others)] == IF n = 0 THEN entries ELSE Put(after[n - 1], others[n])
  IN  after[Len(others)]

\* The dictionary after the first n of the given ones.
Merged(dictionaries, n) ==
  LET after[i \in 0 .. Len(dictionaries)] == IF i = 0 THEN <<>> ELSE Updated(after[i - 1], dictionaries[i])
  IN  after[n]

\* The tables of the classes it inherits from, from the oldest to the nearest, bound to the class.
BoundTables(c, kind, asked, tables) ==
  LET mro == asked.mro[c]
  IN  [i \in 1 .. Len(mro) - 1 |->
         LET table == tables[mro[Len(mro) + 1 - i]][kind]
         IN  [j \in 1 .. Len(table) |-> BindToCls(table[j], c, asked)]]

Inherited(c, kind, asked, tables) == Merged(BoundTables(c, kind, asked, tables), Len(asked.mro[c]) - 1)

OwnEntry(c, name, asked) == [name |-> name, info |-> c, func |-> c, field |-> asked.own[c][name].field]

\* The dictionary after the first n names of the namespace.
WithOwn(c, kind, inherited, asked, n) ==
  LET after[i \in 0 .. Len(asked.names)] ==
        IF i = 0 THEN inherited
        ELSE IF asked.own[c][asked.names[i]].kind = kind
             THEN Put(after[i - 1], OwnEntry(c, asked.names[i], asked))
             ELSE after[i - 1]
  IN  after[n]

\* Mutant: only the serializers of the class itself are compared.
SerializerClash_OwnOnly(entries, name, field) == FALSE

\* A field has one serializer, unless the other one has the same name and is overridden.
SerializerClash(entries, name, field) ==
  \E i \in DOMAIN entries : entries[i].name # name /\ entries[i].field = field

\* The PydanticUserError of the n-th name.
ClashAt(c, n, asked, tables) ==
  LET kind == "field_serializers"
      name == asked.names[n]
  IN  /\ asked.own[c][name].kind = kind
      /\ SerializerClash(WithOwn(c, kind, Inherited(c, kind, asked, tables), asked, n - 1), name, asked.own[c][name].field)

\* DecoratorInfos.build(), unless it raises.
Build(c, asked, tables) ==
  [kind \in Kinds |-> WithOwn(c, kind, Inherited(c, kind, asked, tables), asked, Len(asked.names))]

-----------------------------------------------------------------------------
(* The classes are built one after the other, as class statements are.      *)

DecoratorsInit == input \in DecoratorInputs /\ answer = Pending

BeginDecorators ==
  /\ Asked("decorators")
  /\ answer' = [type |-> "tables", tables |-> <<>>]
  /\ UNCHANGED input

\* The classes whose statement may come next.
Ready(asked, tables) ==
  {c \in DOMAIN asked.mro \ DOMAIN tables : Range(asked.mro[c]) \subseteq DOMAIN tables \cup {c}}

WithTable(tables, c, table) ==
  [d \in DOMAIN tables \cup {c} |-> IF d = c THEN table ELSE tables[d]]

BuildClass ==
  /\ answer.type = "tables"
  /\ \E c \in Ready(input, answer.tables) :
        IF \E n \in DOMAIN input.names : ClashAt(c, n, input, answer.tables)
        THEN answer' = [type |-> "error"]
        ELSE answer' = [answer EXCEPT !.tables = WithTable(@, c, Build(c, input, @))]
  /\ UNCHANGED input

DecoratorsNext == BeginDecorators \/ BuildClass
DecoratorsSpec == DecoratorsInit /\ [][DecoratorsNext]_vars

-----------------------------------------------------------------------------
\* d is the first in the MRO of c, which starts with c, that is one of the classes.
IsClosest(d, c, classes, asked) ==
  \E i \in DOMAIN asked.mro[c] :
     /\ asked.mro[c][i] = d /\ d \in classes
     /\ \A j \in 1 .. i - 1 : asked.mro[c][j] \notin classes

Having(name, asked) == {d \in DOMAIN asked.mro : asked.own[d][name].kind # "absent"}
Decorating(name, kind, asked) == {d \in DOMAIN asked.mro : asked.own[d][name].kind = kind}

\* Between a class and one it inherits from there are, in the MRO, only classes it inherits from.
Connected(c, asked) ==
  \A i, j, k \in DOMAIN asked.mro[c] :
     i < j /\ j < k /\ asked.mro[c][k] \in Range(asked.mro[asked.mro[c][i]])
       => asked.mro[c][j] \in Range(asked.mro[asked.mro[c][i]])

\* Each class in the MRO inherits from all those after it.
Linear(c, asked) ==
  \A i, j \in DOMAIN asked.mro[c] : i < j => asked.mro[c][j] \in Range(asked.mro[asked.mro[c][i]])

Built == IF answer.type = "tables" THEN DOMAIN answer.tables ELSE {}

Positions(entries) == [i \in DOMAIN entries |-> entries[i].name]

\* Each decorated name that a class has or inherits is applied once, with the function that
\* the name means on the class and for the field that its decorator names; as the closest class
\* that decorated it says, unless the MRO puts a class in between that is none of its bases, as in
\* a diamond; and in the places that the last base gives the names (DecoratorInfos.build()).
DecoratorsFollowOverriding ==
  \A c \in Built, kind \in Kinds :
    LET entries == answer.tables[c][kind]
        mro == input.mro[c]
    IN  /\ {entries[i].name : i \in DOMAIN entries} =
             {n \in Range(input.names) : \E d \in Range(mro) : input.own[d][n].kind = kind}
        /\ \A i, j \in DOMAIN entries : entries[i].name = entries[j].name => i = j
        /\ \A i \in DOMAIN entries :
             /\ IsClosest(entries[i].func, c, Having(entries[i].name, input), input)
             /\ entries[i].field = input.own[entries[i].info][entries[i].name].field
             /\ Connected(c, input) => IsClosest(entries[i].info, c, Decorating(entries[i].name, kind, input), input)
        /\ \A b \in Range(mro) : IsSuffix(input.mro[b], mro) => IsPrefix(Positions(answer.tables[b][kind]), Positions(entries))

\* A class whose classes have one base each has one serializer for a field, in whatever order
\* the serializers are overridden, moved to another field and defined anew.
OneSerializerPerField ==
  \A c \in Built :
    LET entries == answer.tables[c]["field_serializers"]
    IN  Linear(c, input) => \A i, j \in DOMAIN entries : entries[i].field = entries[j].field => i = j
=============================================================================
