--------------------------- MODULE MCModelInstance ---------------------------
(* Instances of ModelInstance: five kinds of classes, each with the few     *)
(* names that make its case happen.                                         *)
EXTENDS ModelInstance, TLC

Key(n) == [name |-> n, path |-> FALSE]

\* A class with one optional field x, and the names the program uses on it.
Plain(uses) ==
    [ fields |-> <<"x">>, required |-> {}, keys |-> [n \in Names |-> <<Key(n)>>],
      frozen |-> {}, lateFrozen |-> {}, privates |-> {}, cached |-> {},
      classVars |-> {}, default |-> [n \in Names |-> "a"], extra |-> "ignore",
      configFrozen |-> FALSE, validateAssignment |-> FALSE, root |-> FALSE,
      uses |-> uses ]

Symmetric == Permutations(Instances)

MCNames == {"x", "y", "k", "_p", "_u"}

MCModels ==
    { \* private attributes, extra attributes, unknown names
      [Plain({"k", "_p"}) EXCEPT !.privates = {"_p"}, !.extra = "allow"],
      [Plain({"x", "_p", "_u"}) EXCEPT !.privates = {"_p"}, !.required = {"x", "_p"}],
      \* a cached property of a frozen class, with a class variable
      [Plain({"x", "k", "y"}) EXCEPT !.cached = {"k"}, !.configFrozen = TRUE,
                                     !.classVars = {"y"}],
      \* two fields that read the same key, the first as the start of a path
      [Plain({"y", "k"}) EXCEPT
          !.fields = <<"x", "y">>, !.extra = "allow", !.required = {"y"},
          !.keys = "x" :> <<[name |-> "k", path |-> TRUE], Key("x")>>
                   @@ "y" :> <<Key("k"), Key("y")>> @@ [n \in Names |-> <<>>]],
      \* an annotation that is resolved late, with and without validation
      [Plain({"x", "k"}) EXCEPT !.lateFrozen = {"x"}, !.extra = "forbid"],
      [Plain({"x", "k"}) EXCEPT !.validateAssignment = TRUE, !.extra = "allow"],
      \* a RootModel with a private attribute
      [Plain({"x", "_p"}) EXCEPT !.privates = {"_p"}, !.root = TRUE] }

=============================================================================
