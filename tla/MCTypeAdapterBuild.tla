------------------------- MODULE MCTypeAdapterBuild -------------------------
(* One adapter of a class that may be deferred and that refers to a second  *)
(* class and to one other type.                                             *)
EXTENDS TypeAdapterBuild

CONSTANTS Dog, Owner, Chip, Ta

MCClasses == {Dog, Owner}
MCParent == [c \in MCClasses |-> BaseModel]
MCOwnRefs == Dog :> {Chip} @@ Owner :> {Dog}
MCAdaptedType == Ta :> Owner
MCPlain == Chip :> "plain"
=============================================================================
