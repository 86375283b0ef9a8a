------------------------- MODULE MCSchemaDefinitions -------------------------
(* Programs for SchemaDefinitions: every way two classes name each other,   *)
(* themselves and an alias, some fields with a serializer, with a third     *)
(* class that names both; aliases of a class that refers to itself; and one *)
(* of nine classes, where the versions of a class that four schemas keep    *)
(* replace one another.                                                     *)
EXTENDS SchemaDefinitions

MCModels == {"A", "B", "C", "E", "F1", "F2", "G", "H", "K", "U"}
MCAliases == {"X", "Y"}

Field(type, mark) == [type |-> type, mark |-> mark]
Plain(types) == [i \in DOMAIN types |-> Field(types[i], "no")]

\* A program of the classes in fields, built as often as times says, others never.
Program(fields, value, times) ==
    [fields |-> fields @@ [c \in MCModels |-> <<>>],
     value  |-> value @@ [a \in MCAliases |-> Leaf],
     times  |-> times @@ [c \in MCModels |-> 0]]

UpTo2(fields) == {<<>>} \cup {<<f>> : f \in fields} \cup {<<f, g>> : f \in fields, g \in fields}

\* An alias of an alias of a class, and of itself.
MCValues == {"X" :> "Y" @@ "Y" :> "E", "X" :> "Y" @@ "Y" :> "X"}

MCGraphs ==
    {Program("A" :> a @@ "B" :> b @@ "C" :> Plain(<<"A", "B">>), value,
             "A" :> 2 @@ "B" :> 2 @@ "C" :> 1) :
     a \in UpTo2({Field("A", "no"), Field("B", "no"), Field("X", "annotated")}),
     b \in UpTo2({Field("A", "annotated"), Field("B", "decorated"), Field("X", "no")}),
     value \in MCValues}

\* Three classes that name each other and themselves.
MCTriples ==
    LET all == UpTo2({Field(c, "no") : c \in {"A", "B", "C"}})
    IN  {Program("A" :> a @@ "B" :> b @@ "C" :> c, <<>>, [d \in {"A", "B", "C"} |-> 1]) :
         a \in all, b \in all, c \in all}

\* A keeps the definition of C for one reference of its own and one in B.  Where B and K
\* come from F1 and F2 and C comes from H, the reference in A is the only one left.
MCWide ==
    Program("C" :> Plain(<<"E">>) @@ "B" :> Plain(<<"C">>) @@ "K" :> Plain(<<"C">>)
            @@ "A" :> Plain(<<"C", "B", "B">>)
            @@ "F1" :> Plain(<<"B", "B">>) @@ "F2" :> Plain(<<"K", "K">>)
            @@ "H" :> Plain(<<"B", "B", "K", "K", "E">>)
            @@ "G" :> Plain(<<"A", "H", "F1", "F2">>) @@ "U" :> Plain(<<"A">>),
            <<>>, [c \in {"A", "H", "F1", "F2", "G", "U"} |-> 1])

\* Aliases, one through the other, of a class that refers to itself, directly or through
\* another class, and two classes with them.
MCAliased ==
    {Program("E" :> Plain(<<to>>) @@ "F1" :> Plain(<<"E">>) @@ "A" :> a @@ "B" :> b,
             "X" :> "Y" @@ "Y" :> "E",
             "A" :> 2 @@ "B" :> 2 @@ "E" :> 2) :
     to \in {"E", "F1"},
     a \in {<<Field("X", m)>> : m \in Marks} \cup {Plain(<<"E", "X">>), Plain(<<"F1", "X">>)},
     b \in {Plain(<<"X">>), Plain(<<"Y">>), Plain(<<"A", "X">>)}}

MCPrograms == MCGraphs \cup MCTriples \cup MCAliased \cup {MCWide}

=============================================================================
