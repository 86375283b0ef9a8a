---------------------------- MODULE MCModelBuild ----------------------------
(* Instances of ModelBuild.  The plain one: a parent that names its child,  *)
(* a child that names an unrelated class, which refers back to the child    *)
(* and to one other type.  The failing one: classes that reach each other   *)
(* and three types, each of which fails at another stage of the build.      *)
EXTENDS ModelBuild

CONSTANTS Animal, Dog, Owner, Chip, Odd, Loose, Hard

MCClasses == {Animal, Dog, Owner}
MCParent == Dog :> Animal @@ Animal :> BaseModel @@ Owner :> BaseModel
MCOwnRefs == Animal :> {Dog} @@ Dog :> {Owner} @@ Owner :> {Dog, Chip}
MCPlain == Chip :> "plain"

MCFlat == [c \in MCClasses |-> BaseModel]
MCFailingRefs == Animal :> {Dog, Odd} @@ Dog :> {Hard} @@ Owner :> {Dog, Loose}
MCFailing == Odd :> "unsupported" @@ Loose :> "dangling" @@ Hard :> "unbuildable"
=============================================================================
