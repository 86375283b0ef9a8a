-------------------------- MODULE MCDataclassBuild --------------------------
(* A dataclass that names its child, which therefore inherits a field that  *)
(* names itself, and an unrelated one that also names a type for which no   *)
(* schema can be made.                                                      *)
EXTENDS DataclassBuild

CONSTANTS Animal, Dog, Owner, Odd

MCClasses == {Animal, Dog, Owner}
MCParent == Dog :> Animal @@ Animal :> BaseModel @@ Owner :> BaseModel
MCOwnRefs == Animal :> {Dog} @@ Dog :> {} @@ Owner :> {Animal, Odd}
MCKind == Odd :> "unsupported"
=============================================================================
