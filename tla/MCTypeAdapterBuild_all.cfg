SPECIFICATION FairAdapterSpec
CONSTANTS
    Dog = Dog
    Owner = Owner
    Chip = Chip
    Ta = Ta
    BaseModel = BaseModel
    Classes <- MCClasses
    Types = {Chip}
    Parent <- MCParent
    OwnRefs <- MCOwnRefs
    Kind <- MCPlain
    Deferred = {Owner}
    Forces = {TRUE, FALSE}
    Adapters = {Ta}
    AdaptedType <- MCAdaptedType
    AdapterForces = {TRUE, FALSE}
PROPERTY TruthLostOnlyToFailedForce
PROPERTY UsedAdaptersHeal
